-------------------------- MODULE ComponentProofs --------------------------
(***************************************************************************)
(* Proofs about the components whose theorems fit one module together: the *)
(* pool of connections, the auto-number sequences, bank reconciliation and *)
(* leave.  A theorem is about one of them, and its specification names it. *)
(*                                                                         *)
(* The pool: a task waits for an inner transaction and for nothing else,   *)
(* and from inside one it waits for nothing, so whoever waits keeps a      *)
(* context and a transaction at most.                                      *)
(*                                                                         *)
(* The numbers: as long as a sequence is undisturbed there is at most one  *)
(* row, its counter is as far above the configured start as numbers were   *)
(* given out since, and the only transaction that has it locked holds that *)
(* very counter in memory.                                                 *)
(*                                                                         *)
(* The bank: what two requests have decided to save is known to be shared, *)
(* so what one has read of any other row still holds when it commits, and  *)
(* the line it marks is nobody else's.                                     *)
(*                                                                         *)
(* Leave: a step of a request saves the rows it has in memory only, and    *)
(* what two requests have in memory is known to be raced, so the balance a *)
(* request has read is the one of the table for as long as it is unraced.  *)
(* On that rest the count of the deductions of a leave, the sum of what a  *)
(* balance was granted and charged, and the check every pending leave      *)
(* still passes.                                                           *)
(***************************************************************************)
EXTENDS ConnectionPool, NumberSequence, BankReconciliation, LeaveBalances,
        FiniteSetTheorems, SumsProofs, TLAPS

----------------------------------------------------------------------------
(* The connection pool.                                                    *)

(* The context is a request's; an inner transaction is inside another.     *)
Nested ==
    /\ \A t \in Jobs : <<t, "context">> \notin held \cup Waiting
    /\ \A t \in Tasks :
          Keeps(t, "inner") \/ <<t, "inner">> \in Waiting => Keeps(t, "transaction")

InnerWaitsForNothing == \A t \in Tasks : Keeps(t, "inner") => ~Waits(t)

(* Whoever waits for an inner transaction waits for nothing else.          *)
InnerIsAlone ==
    \A i, j \in 1..Len(queue) :
        queue[i][2] = "inner" /\ queue[j][1] = queue[i][1] => i = j

Kept ==
    /\ PoolTypeOK
    /\ IsFiniteSet(held)
    /\ Nested
    /\ InnerWaitsForNothing
    /\ InnerIsAlone

----------------------------------------------------------------------------
(* Those who wait after a use has joined the queue.                        *)
LEMMA WaitingAppend ==
    ASSUME queue \in Seq(Uses), NEW u \in Uses, queue' = Append(queue, u)
    PROVE  /\ queue' \in Seq(Uses)
           /\ Len(queue') = Len(queue) + 1
           /\ \A i \in 1..Len(queue) : queue'[i] = queue[i]
           /\ queue'[Len(queue) + 1] = u
           /\ Waiting' = Waiting \cup {u}
  <1>1. /\ queue' \in Seq(Uses)
        /\ Len(queue') = Len(queue) + 1
        /\ \A i \in 1..Len(queue) : queue'[i] = queue[i]
        /\ queue'[Len(queue) + 1] = u
    OBVIOUS
  <1>2. Len(queue) \in Nat OBVIOUS
  <1>3. Waiting' \subseteq Waiting \cup {u}
    <2> SUFFICES ASSUME NEW i \in 1..Len(queue')
                 PROVE  queue'[i] \in Waiting \cup {u}
      BY DEF Waiting
    <2>1. i \in 1..Len(queue) \/ i = Len(queue) + 1 BY <1>1, <1>2
    <2> QED BY <1>1, <2>1 DEF Waiting
  <1>4. Waiting \cup {u} \subseteq Waiting'
    <2>1. \A i \in 1..Len(queue) : i \in 1..Len(queue') BY <1>1, <1>2
    <2>2. Len(queue) + 1 \in 1..Len(queue') BY <1>1, <1>2
    <2> QED BY <1>1, <2>1, <2>2 DEF Waiting
  <1> QED BY <1>1, <1>3, <1>4

(* Those who wait after the first in the queue has left it.                *)
LEMMA WaitingTail ==
    ASSUME queue \in Seq(Uses), queue # <<>>, queue' = Tail(queue)
    PROVE  /\ queue' \in Seq(Uses)
           /\ Len(queue') = Len(queue) - 1
           /\ Len(queue') \in Nat
           /\ \A i \in 1..Len(queue') : i + 1 \in 1..Len(queue) /\ queue'[i] = queue[i + 1]
           /\ 1 \in 1..Len(queue) /\ Head(queue) = queue[1]
           /\ Head(queue) \in Waiting
           /\ Head(queue) \in Uses
           /\ Waiting' \subseteq Waiting
  <1>1. Len(queue) \in Nat /\ Len(queue) > 0 OBVIOUS
  <1>2. /\ queue' \in Seq(Uses)
        /\ Len(queue') = Len(queue) - 1
        /\ \A i \in 1..Len(queue') : queue'[i] = queue[i + 1]
        /\ Head(queue) = queue[1]
    BY <1>1
  <1>3. \A i \in 1..Len(queue') : i + 1 \in 1..Len(queue) BY <1>1, <1>2
  <1>4. 1 \in 1..Len(queue) BY <1>1
  <1>5. Head(queue) \in Waiting BY <1>2, <1>4 DEF Waiting
  <1>6. Head(queue) \in Uses BY <1>2, <1>4
  <1>7. Waiting' \subseteq Waiting BY <1>2, <1>3 DEF Waiting
  <1>8. Len(queue') \in Nat BY <1>1, <1>2
  <1> QED BY <1>1, <1>2, <1>3, <1>4, <1>5, <1>6, <1>7, <1>8

LEMMA UseIsPair ==
    ASSUME NEW u \in Uses
    PROVE  u[1] \in Tasks /\ u = <<u[1], u[2]>>
  BY DEF Uses, Held

(* A task that is not inside an inner transaction, nor waits for one, may  *)
(* ask for a connection.                                                   *)
LEMMA AskKeeps ==
    ASSUME Kept, NEW t, NEW k, <<t, k>> \in Uses, Ask(t, k),
           repos' \in [TenantRequests -> Nat],
           k = "context" => t \notin Jobs,
           k = "inner" => ~Waits(t) /\ Keeps(t, "transaction"),
           ~Keeps(t, "inner"),
           <<t, "inner">> \notin Waiting
    PROVE  Kept'
  <1> DEFINE u == <<t, k>>
  <1>1. queue \in Seq(Uses) /\ queue' = Append(queue, u) /\ UNCHANGED <<held, leaked>>
    BY DEF Kept, PoolTypeOK, Ask
  <1>2. /\ queue' \in Seq(Uses)
        /\ Len(queue') = Len(queue) + 1
        /\ \A i \in 1..Len(queue) : queue'[i] = queue[i]
        /\ queue'[Len(queue) + 1] = u
        /\ Waiting' = Waiting \cup {u}
    BY <1>1, WaitingAppend
  <1>3. PoolTypeOK' BY <1>1, <1>2 DEF Kept, PoolTypeOK
  <1>4. IsFiniteSet(held)' BY <1>1 DEF Kept
  <1>5. Nested' BY <1>1, <1>2 DEF Kept, Nested, Keeps
  <1>6. InnerWaitsForNothing'
    <2> SUFFICES ASSUME NEW p \in Tasks, <<p, "inner">> \in held,
                        NEW w \in Waiting', w[1] = p
                 PROVE  FALSE
      BY <1>1 DEF InnerWaitsForNothing, Keeps, Waits
    <2>1. p # t BY DEF Keeps
    <2>2. w # u BY <2>1
    <2>3. w \in Waiting BY <1>2, <2>2
    <2> QED BY <2>3 DEF Kept, InnerWaitsForNothing, Keeps, Waits
  <1>7. InnerIsAlone'
    <2>1. Len(queue) \in Nat BY <1>1
    <2> SUFFICES ASSUME NEW i \in 1..Len(queue'), NEW j \in 1..Len(queue'),
                        queue'[i][2] = "inner", queue'[j][1] = queue'[i][1]
                 PROVE  i = j
      BY DEF InnerIsAlone
    <2>2. /\ i \in 1..Len(queue) \/ i = Len(queue) + 1
          /\ j \in 1..Len(queue) \/ j = Len(queue) + 1
      BY <1>2, <2>1
    <2>3. CASE i \in 1..Len(queue) /\ j \in 1..Len(queue)
      BY <1>2, <2>3 DEF Kept, InnerIsAlone
    <2>4. CASE i \in 1..Len(queue) /\ j = Len(queue) + 1
      <3>1. queue[i] \in Uses /\ queue[i] \in Waiting BY <1>1, <2>4 DEF Waiting
      <3>2. queue[i][1] = t /\ queue[i][2] = "inner" BY <1>2, <2>4
      <3> QED BY <3>1, <3>2, UseIsPair
    <2>5. CASE i = Len(queue) + 1 /\ j \in 1..Len(queue)
      <3>1. queue[j] \in Waiting BY <2>5 DEF Waiting
      <3>2. queue[j][1] = t /\ k = "inner" BY <1>2, <2>5
      <3> QED BY <3>1, <3>2 DEF Waits
    <2> QED BY <2>2, <2>3, <2>4, <2>5
  <1> QED BY <1>3, <1>4, <1>5, <1>6, <1>7 DEF Kept

(* Each step of the pool keeps the invariant.                              *)
LEMMA GrantKeeps ==
    ASSUME Kept, Grant
    PROVE  Kept'
  <1> DEFINE u == Head(queue)
  <1>1. /\ queue \in Seq(Uses) /\ queue # <<>> /\ queue' = Tail(queue)
        /\ held \subseteq Held /\ leaked \in Nat /\ IsFiniteSet(held)
        /\ Cardinality(held) + leaked < PoolSize
        /\ repos' = repos /\ repos \in [TenantRequests -> Nat]
    BY DEF Kept, PoolTypeOK, Grant, Available
  <1>2. /\ queue' \in Seq(Uses)
        /\ Len(queue') \in Nat
        /\ \A i \in 1..Len(queue') : i + 1 \in 1..Len(queue) /\ queue'[i] = queue[i + 1]
        /\ 1 \in 1..Len(queue) /\ u = queue[1]
        /\ u \in Waiting
        /\ u \in Uses
        /\ Waiting' \subseteq Waiting
    BY <1>1, WaitingTail
  <1> HIDE DEF u
  <1>3. \/ u[2] = "runner" /\ leaked' = leaked + 1 /\ held' = held
        \/ u[2] # "runner" /\ held' = held \cup {u} /\ leaked' = leaked
    BY DEF Grant, Leaks, u
  <1>4. u[1] \in Tasks /\ u = <<u[1], u[2]>> BY <1>2, UseIsPair
  <1>5. u[2] # "runner" => u \in Held BY <1>2, <1>4 DEF Uses, Held
  <1>6. Cardinality(held) \in Nat BY <1>1, FS_CardinalityType
  <1>7. /\ IsFiniteSet(held')
        /\ Cardinality(held') \in Nat
        /\ Cardinality(held') + leaked' =< PoolSize
    <2>1. CASE held' = held BY <1>1, <1>3, <1>6, <2>1, PoolAssumption
    <2>2. CASE held' = held \cup {u} /\ leaked' = leaked
      <3>1. IsFiniteSet(held \cup {u})
        BY <1>1, FS_AddElement
      <3>2. Cardinality(held \cup {u}) = Cardinality(held)
            \/ Cardinality(held \cup {u}) = Cardinality(held) + 1
        BY <1>1, FS_AddElement
      <3> QED BY <1>1, <1>6, <2>2, <3>1, <3>2, PoolAssumption
    <2> QED BY <1>3, <2>1, <2>2
  <1>8. PoolTypeOK' BY <1>1, <1>2, <1>3, <1>5, <1>7 DEF PoolTypeOK
  <1>9. held' \subseteq held \cup {u} BY <1>3
  <1>10. Nested'
    <2>1. \A t \in Jobs : <<t, "context">> \notin held' \cup Waiting'
      BY <1>2, <1>9 DEF Kept, Nested
    <2>2. ASSUME NEW t \in Tasks, <<t, "inner">> \in held' \cup Waiting'
          PROVE  <<t, "transaction">> \in held'
      <3>1. <<t, "inner">> \in held \cup Waiting BY <1>2, <1>9, <2>2
      <3>2. <<t, "transaction">> \in held BY <3>1 DEF Kept, Nested, Keeps
      <3> QED BY <1>3, <3>2
    <2> QED BY <2>1, <2>2 DEF Nested, Keeps
  <1>11. InnerWaitsForNothing'
    <2> SUFFICES ASSUME NEW t \in Tasks, <<t, "inner">> \in held',
                        NEW w \in Waiting', w[1] = t
                 PROVE  FALSE
      BY DEF InnerWaitsForNothing, Keeps, Waits
    <2>1. CASE <<t, "inner">> \in held
      BY <1>2, <2>1 DEF Kept, InnerWaitsForNothing, Keeps, Waits
    <2>2. CASE <<t, "inner">> = u
      <3>1. PICK i \in 1..Len(queue') : w = queue'[i] BY DEF Waiting
      <3>2. i + 1 \in 1..Len(queue) /\ w = queue[i + 1] BY <1>2, <3>1
      <3>3. queue[1][2] = "inner" /\ queue[1][1] = t BY <1>2, <2>2
      <3>4. 1 = i + 1 BY <1>2, <3>2, <3>3 DEF Kept, InnerIsAlone
      <3> QED BY <1>2, <3>1, <3>4
    <2> QED BY <1>9, <2>1, <2>2
  <1>12. InnerIsAlone'
    <2> SUFFICES ASSUME NEW i \in 1..Len(queue'), NEW j \in 1..Len(queue'),
                        queue'[i][2] = "inner", queue'[j][1] = queue'[i][1]
                 PROVE  i = j
      BY DEF InnerIsAlone
    <2>1. i + 1 = j + 1 BY <1>2 DEF Kept, InnerIsAlone
    <2> QED BY <1>2, <2>1
  <1> QED BY <1>7, <1>8, <1>10, <1>11, <1>12 DEF Kept

LEMMA ReleaseKeeps ==
    ASSUME Kept, NEW t \in Tasks, NEW k \in Scopes \cup Queries, Release(t, k)
    PROVE  Kept'
  <1>1. /\ held' = held \ {<<t, k>>} /\ leaked' = leaked /\ queue' = queue /\ repos' = repos
        /\ held \subseteq Held /\ leaked \in Nat /\ IsFiniteSet(held)
        /\ Cardinality(held) + leaked =< PoolSize
    BY DEF Kept, PoolTypeOK, Release
  <1>2. Waiting' = Waiting BY <1>1 DEF Waiting
  <1>3. Cardinality(held) \in Nat BY <1>1, FS_CardinalityType
  <1>4. /\ IsFiniteSet(held')
        /\ Cardinality(held') \in Nat /\ Cardinality(held') =< Cardinality(held)
    BY <1>1, <1>3, FS_Subset, FS_CardinalityType
  <1>5. PoolTypeOK'
    BY <1>1, <1>3, <1>4, PoolAssumption DEF Kept, PoolTypeOK
  <1>6. Nested'
    <2>1. ASSUME NEW p \in Tasks, <<p, "inner">> \in held' \cup Waiting'
          PROVE  <<p, "transaction">> \in held'
      <3>1. <<p, "inner">> \in held \cup Waiting BY <1>1, <1>2, <2>1
      <3>2. <<p, "transaction">> \in held BY <3>1 DEF Kept, Nested, Keeps
      <3>3. CASE p = t /\ k = "transaction"
        <4>1. "transaction" \notin Queries BY PoolAssumption DEF Scopes
        <4>2. ~Waits(t) /\ ~Keeps(t, "inner") BY <3>3, <4>1 DEF Release, Ends
        <4> QED BY <3>1, <3>3, <4>2 DEF Waits, Keeps
      <3> QED BY <1>1, <3>2, <3>3
    <2>2. \A p \in Jobs : <<p, "context">> \notin held' \cup Waiting'
      BY <1>1, <1>2 DEF Kept, Nested
    <2> QED BY <2>1, <2>2 DEF Nested, Keeps
  <1>7. InnerWaitsForNothing'
    BY <1>1, <1>2 DEF Kept, InnerWaitsForNothing, Keeps, Waits
  <1>8. InnerIsAlone' BY <1>1 DEF Kept, InnerIsAlone
  <1> QED BY <1>4, <1>5, <1>6, <1>7, <1>8 DEF Kept

----------------------------------------------------------------------------
LEMMA StepKeeps ==
    ASSUME Kept, [PoolNext]_poolVars
    PROVE  Kept'
  <1>1. ASSUME NEW t \in Tasks, AskContext(t) PROVE Kept'
    <2>1. /\ t \in TenantRequests /\ t \notin Jobs /\ ~Keeps(t, "inner")
          /\ <<t, "inner">> \notin Waiting /\ Ask(t, "context")
      BY <1>1, PoolAssumption DEF AskContext, Keeps, Waits
    <2>3. repos' \in [TenantRequests -> Nat] BY <1>1 DEF AskContext, Kept, PoolTypeOK
    <2>2. <<t, "context">> \in Uses BY DEF Uses, Held, Scopes
    <2> QED BY <2>1, <2>2, <2>3, AskKeeps
  <1>2. ASSUME NEW t \in Tasks, NEW q \in Queries, AskQuery(t, q) PROVE Kept'
    <2>1. /\ ~Keeps(t, "inner") /\ <<t, "inner">> \notin Waiting /\ Ask(t, q)
          /\ q # "context" /\ q # "inner"
      BY <1>2, PoolAssumption DEF AskQuery, MayQuery, Scopes
    <2>2. <<t, q>> \in Uses BY DEF Uses, Held
    <2>3. repos' \in [TenantRequests -> Nat] BY <1>2 DEF AskQuery, Kept, PoolTypeOK
    <2> QED BY <2>1, <2>2, <2>3, AskKeeps
  <1>3. ASSUME NEW t \in Tasks, AskTransaction(t) PROVE Kept'
    <2>1. ~Waits(t) /\ ~Keeps(t, "transaction") /\ Ask(t, "transaction")
      BY <1>3 DEF AskTransaction, Handling
    <2>2. ~Keeps(t, "inner") BY <2>1 DEF Kept, Nested
    <2>3. <<t, "inner">> \notin Waiting BY <2>1 DEF Waits
    <2>4. <<t, "transaction">> \in Uses BY DEF Uses, Held, Scopes
    <2>5. repos' \in [TenantRequests -> Nat] BY <1>3 DEF AskTransaction, Kept, PoolTypeOK
    <2> QED BY <2>1, <2>2, <2>3, <2>4, <2>5, AskKeeps
  <1>4. ASSUME NEW t \in Tasks, AskInner(t) PROVE Kept'
    <2>1. ~Waits(t) /\ Keeps(t, "transaction") /\ ~Keeps(t, "inner") /\ Ask(t, "inner")
      BY <1>4 DEF AskInner, Handling
    <2>2. <<t, "inner">> \notin Waiting BY <2>1 DEF Waits
    <2>3. <<t, "inner">> \in Uses BY DEF Uses, Held, Scopes
    <2>4. repos' \in [TenantRequests -> Nat] BY <1>4 DEF AskInner, Kept, PoolTypeOK
    <2> QED BY <2>1, <2>2, <2>3, <2>4, AskKeeps
  <1>5. ASSUME NEW t \in Tasks, AskRunner(t) PROVE Kept'
    <2>1. ~Waits(t) /\ ~Keeps(t, "transaction") /\ Ask(t, "runner")
      BY <1>5 DEF AskRunner, Handling
    <2>2. ~Keeps(t, "inner") BY <2>1 DEF Kept, Nested
    <2>3. <<t, "inner">> \notin Waiting BY <2>1 DEF Waits
    <2>4. <<t, "runner">> \in Uses BY DEF Uses
    <2>5. repos' \in [TenantRequests -> Nat]
      <3>1. t \in TenantRequests /\ repos' = [repos EXCEPT ![t] = repos[t] + 1]
        BY <1>5 DEF AskRunner, Recruiting
      <3>2. repos \in [TenantRequests -> Nat] BY DEF Kept, PoolTypeOK
      <3>3. repos[t] + 1 \in Nat BY <3>1, <3>2
      <3> QED BY <3>1, <3>2, <3>3
    <2> QED BY <2>1, <2>2, <2>3, <2>4, <2>5, AskKeeps
  <1>6. CASE UNCHANGED poolVars
    <2>1. Waiting' = Waiting BY <1>6 DEF poolVars, Waiting
    <2> QED BY <1>6, <2>1
         DEF poolVars, Kept, PoolTypeOK, Nested, InnerWaitsForNothing, InnerIsAlone, Keeps, Waits
  <1> QED BY <1>1, <1>2, <1>3, <1>4, <1>5, <1>6, GrantKeeps, ReleaseKeeps DEF PoolNext

LEMMA InitKept ==
    ASSUME PoolInit
    PROVE  Kept
  <1>1. held = {} /\ leaked = 0 /\ queue = <<>> BY DEF PoolInit
  <1>2. Waiting = {} BY <1>1 DEF Waiting
  <1>3. IsFiniteSet({}) /\ Cardinality({}) = 0 BY FS_EmptySet
  <1>4. PoolTypeOK BY <1>1, <1>3, PoolAssumption DEF PoolInit, PoolTypeOK
  <1>5. Nested BY <1>1, <1>2 DEF Nested, Keeps
  <1>6. InnerWaitsForNothing BY <1>1 DEF InnerWaitsForNothing, Keeps
  <1>7. InnerIsAlone BY <1>1 DEF InnerIsAlone
  <1> QED BY <1>1, <1>3, <1>4, <1>5, <1>6, <1>7 DEF Kept

(* The inductive invariant holds in every reachable state.                 *)
THEOREM AlwaysKept == PoolSpec => []Kept
  <1>1. PoolInit => Kept BY InitKept
  <1>2. Kept /\ [PoolNext]_poolVars => Kept' BY StepKeeps
  <1> QED BY <1>1, <1>2, PTL DEF PoolSpec

(* The uses and the queue are what they should be, and no more connections *)
(* are out than the pool has.                                              *)
THEOREM PoolTypeCorrect == PoolSpec => []PoolTypeOK
  <1>1. Kept => PoolTypeOK BY DEF Kept
  <1> QED BY <1>1, AlwaysKept, PTL

----------------------------------------------------------------------------
(* As many uses of one kind as there are tasks, at most.                   *)
LEMMA OneOfEachKind ==
    ASSUME NEW S, IsFiniteSet(S), NEW k
    PROVE  /\ IsFiniteSet(S \X {k})
           /\ Cardinality(S \X {k}) \in Nat
           /\ Cardinality(S \X {k}) =< Cardinality(S)
  <1> DEFINE f == [t \in S |-> <<t, k>>]
  <1>1. f \in Surjection(S, S \X {k})
    <2>1. f \in [S -> S \X {k}] OBVIOUS
    <2>2. \A u \in S \X {k} : \E t \in S : f[t] = u OBVIOUS
    <2> QED BY <2>1, <2>2 DEF Surjection
  <1> QED BY <1>1, FS_Surjection, FS_CardinalityType

(* Whoever waits keeps a context, if it is a request, and a transaction.   *)
LEMMA KeptByWaiters ==
    ASSUME Kept, Exhausted
    PROVE  held \subseteq (WaitingRequests \X {"context"})
                          \cup (WaitingRequests \X {"transaction"})
                          \cup (WaitingJobs \X {"transaction"})
  <1> SUFFICES ASSUME NEW u \in held
               PROVE  u \in (WaitingRequests \X {"context"})
                            \cup (WaitingRequests \X {"transaction"})
                            \cup (WaitingJobs \X {"transaction"})
    OBVIOUS
  <1>1. u \in Held /\ u \in Uses BY DEF Kept, PoolTypeOK, Uses
  <1>2. u[1] \in Tasks /\ u = <<u[1], u[2]>> BY <1>1, UseIsPair
  <1>3. u[2] \in Scopes /\ Waits(u[1]) BY DEF Exhausted
  <1>4. u[2] # "inner" BY <1>2, <1>3 DEF Kept, InnerWaitsForNothing, Keeps
  <1>5. u[2] = "context" \/ u[2] = "transaction" BY <1>3, <1>4 DEF Scopes
  <1>6. u[1] \in WaitingRequests \/ u[1] \in WaitingJobs
    BY <1>2, <1>3 DEF Tasks, WaitingRequests, WaitingJobs
  <1>7. u[2] = "context" => u[1] \notin Jobs BY <1>2 DEF Kept, Nested
  <1>8. u[2] = "context" => u[1] \in WaitingRequests BY <1>6, <1>7 DEF WaitingJobs
  <1>9. CASE u[2] = "context" BY <1>2, <1>8, <1>9
  <1>10. CASE u[2] = "transaction" BY <1>2, <1>6, <1>10
  <1> QED BY <1>5, <1>9, <1>10

(* A pool is exhausted only under the load that its size allows for: two   *)
(* connections for each waiting request, one for each waiting job, beside  *)
(* those the recruitment service has leaked.                               *)
THEOREM PoolSizeBoundsLoad == PoolSpec => []ExhaustionNeedsLoad
  <1>1. ASSUME Kept, Exhausted
        PROVE  PoolSize =< leaked + 2 * Cardinality(WaitingRequests)
                                  + Cardinality(WaitingJobs)
    <2> DEFINE C == WaitingRequests \X {"context"}
               T == WaitingRequests \X {"transaction"}
               J == WaitingJobs \X {"transaction"}
    <2>1. /\ IsFiniteSet(WaitingRequests) /\ Cardinality(WaitingRequests) \in Nat
          /\ IsFiniteSet(WaitingJobs) /\ Cardinality(WaitingJobs) \in Nat
      BY PoolAssumption, FS_Subset, FS_CardinalityType DEF WaitingRequests, WaitingJobs
    <2>2. /\ IsFiniteSet(C) /\ Cardinality(C) \in Nat
          /\ Cardinality(C) =< Cardinality(WaitingRequests)
      BY <2>1, OneOfEachKind
    <2>3. /\ IsFiniteSet(T) /\ Cardinality(T) \in Nat
          /\ Cardinality(T) =< Cardinality(WaitingRequests)
      BY <2>1, OneOfEachKind
    <2>4. /\ IsFiniteSet(J) /\ Cardinality(J) \in Nat
          /\ Cardinality(J) =< Cardinality(WaitingJobs)
      BY <2>1, OneOfEachKind
    <2> HIDE DEF C, T, J
    <2>5. /\ IsFiniteSet(C \cup T)
          /\ Cardinality(C \cup T) \in Nat
          /\ Cardinality(C \cup T) =< Cardinality(C) + Cardinality(T)
      <3>1. IsFiniteSet(C \cap T) BY <2>2, FS_Intersection
      <3>2. Cardinality(C \cap T) \in Nat BY <3>1, FS_CardinalityType
      <3>3. IsFiniteSet(C \cup T)
            /\ Cardinality(C \cup T) = Cardinality(C) + Cardinality(T) - Cardinality(C \cap T)
        BY <2>2, <2>3, FS_Union
      <3>4. Cardinality(C \cup T) \in Nat BY <3>3, FS_CardinalityType
      <3> QED BY <2>2, <2>3, <3>2, <3>3, <3>4
    <2>6. /\ IsFiniteSet(C \cup T \cup J)
          /\ Cardinality(C \cup T \cup J) \in Nat
          /\ Cardinality(C \cup T \cup J) =< Cardinality(C \cup T) + Cardinality(J)
      <3> DEFINE S == C \cup T
      <3> HIDE DEF S
      <3>1. IsFiniteSet(S) /\ Cardinality(S) \in Nat BY <2>5 DEF S
      <3>2. IsFiniteSet(S \cap J) BY <3>1, FS_Intersection
      <3>3. Cardinality(S \cap J) \in Nat BY <3>2, FS_CardinalityType
      <3>4. IsFiniteSet(S \cup J)
            /\ Cardinality(S \cup J) = Cardinality(S) + Cardinality(J) - Cardinality(S \cap J)
        BY <2>4, <3>1, FS_Union
      <3>5. Cardinality(S \cup J) \in Nat BY <3>4, FS_CardinalityType
      <3>6. Cardinality(S \cup J) =< Cardinality(S) + Cardinality(J)
        BY <2>4, <3>1, <3>3, <3>4
      <3> QED BY <3>4, <3>5, <3>6 DEF S
    <2>7. held \subseteq C \cup T \cup J BY <1>1, KeptByWaiters DEF C, T, J
    <2>8. Cardinality(held) =< Cardinality(C \cup T \cup J) BY <2>6, <2>7, FS_Subset
    <2>9. Cardinality(held) \in Nat /\ leaked \in Nat
      BY <1>1, FS_CardinalityType DEF Kept, PoolTypeOK
    <2>10. Cardinality(held) + leaked = PoolSize BY <1>1 DEF Exhausted
    <2> HIDE DEF C, T, J
    <2> QED
      BY <2>1, <2>2, <2>3, <2>4, <2>5, <2>6, <2>8, <2>9, <2>10, PoolAssumption
  <1>2. Kept => ExhaustionNeedsLoad BY <1>1 DEF ExhaustionNeedsLoad
  <1> QED BY <1>2, AlwaysKept, PTL

----------------------------------------------------------------------------
LEMMA ExhaustedStays ==
    ASSUME Kept, Exhausted, [PoolNext]_poolVars
    PROVE  Exhausted'
  <1>1. ASSUME NEW u \in Uses, queue' = Append(queue, u), UNCHANGED <<held, leaked>>
        PROVE  Exhausted'
    <2>1. queue \in Seq(Uses) BY DEF Kept, PoolTypeOK
    <2>2. Waiting' = Waiting \cup {u} BY <1>1, <2>1, WaitingAppend
    <2>3. queue' # <<>> BY <1>1, <2>1
    <2>4. \A v \in held' : v[2] \in Scopes /\ Waits(v[1])'
      BY <1>1, <2>2 DEF Exhausted, Waits
    <2>5. (Cardinality(held) + leaked = PoolSize)' BY <1>1 DEF Exhausted
    <2> QED BY <2>3, <2>4, <2>5 DEF Exhausted
  <1>2. ~Grant
    <2>1. Cardinality(held) \in Nat /\ leaked \in Nat
      BY FS_CardinalityType DEF Kept, PoolTypeOK
    <2> QED BY <2>1, PoolAssumption DEF Exhausted, Grant, Available
  <1>3. ASSUME NEW t \in Tasks, NEW k \in Scopes \cup Queries, Release(t, k)
        PROVE  FALSE
    <2>1. k \in Scopes /\ Waits(t) BY <1>3 DEF Release, Keeps, Exhausted
    <2>2. k \notin Queries BY <2>1, PoolAssumption
    <2> QED BY <1>3, <2>1, <2>2 DEF Release, Ends
  <1>4. CASE UNCHANGED poolVars
    BY <1>4 DEF poolVars, Exhausted, Waits, Waiting
  <1>5. \A t \in Tasks, k \in Scopes \cup Queries \cup {"runner"} : <<t, k>> \in Uses
    BY DEF Uses, Held
  <1>6. ASSUME NEW t \in Tasks, NEW k \in Scopes \cup Queries \cup {"runner"}, Ask(t, k)
        PROVE  Exhausted'
    BY <1>1, <1>5, <1>6 DEF Ask
  <1>7. ASSUME NEW t \in Tasks,
               \/ AskContext(t)
               \/ \E q \in Queries : AskQuery(t, q)
               \/ AskTransaction(t)
               \/ AskInner(t)
               \/ AskRunner(t)
        PROVE  Exhausted'
    BY <1>6, <1>7 DEF AskContext, AskQuery, AskTransaction, AskInner, AskRunner, Scopes
  <1> QED BY <1>2, <1>3, <1>4, <1>7 DEF PoolNext

(* An exhausted pool stays exhausted, whatever the process does next.      *)
THEOREM ExhaustionIsFinal == PoolSpec => ExhaustedForEver
  <1>1. Kept /\ [PoolNext]_poolVars => [Exhausted => Exhausted']_poolVars BY ExhaustedStays
  <1> QED BY <1>1, AlwaysKept, PTL DEF PoolSpec, ExhaustedForEver

----------------------------------------------------------------------------
(* The auto-number sequences.                                              *)

Exclusive ==
    \A r, p \in Callers, x \in Rows : Locks(r, x) /\ Locks(p, x) => r = p

InRows == \A r \in Callers : call[r].pc \in {"take", "configure"} => call[r].row \in rows

(* The number that comes next.                                             *)
Due == start.from + (Len(issued) - start.at)

Undisturbed ==
    /\ \A x, y \in rows : x = y
    /\ rows = {} => issued = <<>> /\ Due = 1
    /\ \A x \in rows : next[x] = Due
    /\ \A r \in Callers :
          /\ call[r].pc = "take" => call[r].value = next[call[r].row]
          /\ call[r].pc \in {"create", "create configured"} => call[r].value = 1

Consecutive ==
    /\ SequenceTypeOK
    /\ Exclusive
    /\ InRows
    /\ disturbed = FALSE => Undisturbed

----------------------------------------------------------------------------
(* What is known of a request by its pc.                                   *)
LEMMA ReqByPc ==
    ASSUME SequenceTypeOK, NEW r \in Callers
    PROVE  /\ call[r].pc = "take" => call[r] \in Taking
           /\ call[r].pc \in {"create", "create configured"} => call[r] \in Creating
           /\ call[r].pc = "configure" => call[r] \in Configuring
           /\ call[r] = NoCall => call[r].pc = "idle"
  <1> PICK q : q = call[r] OBVIOUS
  <1>1. q \in {NoCall} \cup Taking \cup Creating \cup Configuring BY DEF SequenceTypeOK
  <1>2. q = NoCall => q.pc = "idle" BY DEF NoCall
  <1>3. q \in Taking => q.pc = "take" BY DEF Taking
  <1>4. q \in Creating => q.pc \in {"create", "create configured"} BY DEF Creating
  <1>5. q \in Configuring => q.pc = "configure" BY DEF Configuring
  <1>6. q.pc = "take" => q \in Taking BY <1>1, <1>2, <1>4, <1>5
  <1>7. q.pc \in {"create", "create configured"} => q \in Creating BY <1>1, <1>2, <1>3, <1>5
  <1>8. q.pc = "configure" => q \in Configuring BY <1>1, <1>2, <1>3, <1>4
  <1> QED BY <1>2, <1>6, <1>7, <1>8

(* A request that begins, with the row in memory that it found.            *)
LEMMA BeginKeeps ==
    ASSUME Consecutive, NEW r \in Callers,
           NEW new \in {NoCall} \cup Taking \cup Creating \cup Configuring,
           call' = [call EXCEPT ![r] = new],
           UNCHANGED <<sequences, issued, course>>,
           new.pc \in {"take", "configure"} => new.row \in rows,
           new.pc = "take" => Free(r, new.row) /\ new.value = next[new.row],
           new.pc \in {"create", "create configured"} => new.value = 1
    PROVE  Consecutive'
  <1>1. UNCHANGED <<rows, next, active, issued, start, disturbed>> BY DEF sequences, course
  <1>2. call'[r] = new /\ \A p \in Callers \ {r} : call'[p] = call[p]
        BY DEF Consecutive, SequenceTypeOK
  <1>3. SequenceTypeOK' BY <1>1 DEF Consecutive, SequenceTypeOK
  <1>4. Exclusive'
    <2> SUFFICES ASSUME NEW p \in Callers, NEW t \in Callers, NEW x \in Rows,
                        Locks(p, x)', Locks(t, x)'
                 PROVE  p = t
        BY DEF Exclusive
    <2>1. CASE p # r /\ t # r BY <1>2, <2>1 DEF Consecutive, Exclusive, Locks
    <2>2. CASE p = r /\ t # r BY <1>2, <2>2 DEF Locks, Free
    <2>3. CASE p # r /\ t = r BY <1>2, <2>3 DEF Locks, Free
    <2> QED BY <2>1, <2>2, <2>3
  <1>5. InRows'
    <2> SUFFICES ASSUME NEW p \in Callers, call'[p].pc \in {"take", "configure"}
                 PROVE  call'[p].row \in rows
        BY <1>1 DEF InRows
    <2>1. CASE p = r BY <1>2, <2>1
    <2>2. CASE p # r BY <1>2, <2>2 DEF Consecutive, InRows
    <2> QED BY <2>1, <2>2
  <1>6. ASSUME disturbed' = FALSE PROVE Undisturbed'
    <2>1. Undisturbed
      <3>1. disturbed = FALSE BY <1>1, <1>6
      <3> QED BY <3>1, Zenon DEF Consecutive
    <2>2. ASSUME NEW p \in Callers
          PROVE  /\ call'[p].pc = "take" => call'[p].value = next[call'[p].row]
                 /\ call'[p].pc \in {"create", "create configured"} => call'[p].value = 1
      <3>1. CASE p = r BY <1>2, <3>1
      <3>2. CASE p # r BY <1>2, <2>1, <3>2 DEF Undisturbed
      <3> QED BY <3>1, <3>2
    <2> QED BY <1>1, <2>1, <2>2 DEF Undisturbed, Due
  <1> QED BY <1>3, <1>4, <1>5, <1>6 DEF Consecutive

(* A request that ends: the others keep what they had in memory.           *)
LEMMA EndKeeps ==
    ASSUME Consecutive, NEW r \in Callers, call' = [call EXCEPT ![r] = NoCall],
           rows \subseteq rows'
    PROVE  /\ call' \in [Callers -> {NoCall} \cup Taking \cup Creating \cup Configuring]
           /\ Exclusive' /\ InRows'
           /\ call'[r].pc = "idle" /\ \A p \in Callers \ {r} : call'[p] = call[p]
  <1>1. call' \in [Callers -> {NoCall} \cup Taking \cup Creating \cup Configuring]
        BY DEF Consecutive, SequenceTypeOK
  <1>2. call'[r].pc = "idle" /\ \A p \in Callers \ {r} : call'[p] = call[p]
        BY DEF Consecutive, SequenceTypeOK, NoCall
  <1>3. Exclusive'
    <2> SUFFICES ASSUME NEW p \in Callers, NEW t \in Callers, NEW x \in Rows,
                        Locks(p, x)', Locks(t, x)'
                 PROVE  p = t
        BY DEF Exclusive
    <2>1. p # r /\ t # r BY <1>2 DEF Locks
    <2> QED BY <1>2, <2>1 DEF Consecutive, Exclusive, Locks
  <1>4. InRows'
    <2> SUFFICES ASSUME NEW p \in Callers, call'[p].pc \in {"take", "configure"}
                 PROVE  call'[p].row \in rows'
        BY DEF InRows
    <2>1. p # r BY <1>2
    <2> QED BY <1>2, <2>1 DEF Consecutive, InRows
  <1> QED BY <1>1, <1>2, <1>3, <1>4

LEMMA ConsecutiveInit == SequenceInit => Consecutive
  <1> SUFFICES ASSUME SequenceInit PROVE Consecutive
      OBVIOUS
  <1>1. SequenceTypeOK
    <2>1. next \in [Rows -> Nat \ {0}] /\ rows \subseteq Rows /\ active \subseteq rows
          BY DEF SequenceInit
    <2>2. issued \in Seq(Nat \ {0}) /\ start \in [from : Nat \ {0}, at : Nat]
          BY DEF SequenceInit, First
    <2>3. call \in [Callers -> {NoCall}] BY DEF SequenceInit
    <2>4. disturbed \in BOOLEAN BY DEF SequenceInit
    <2> QED BY <2>1, <2>2, <2>3, <2>4 DEF SequenceTypeOK
  <1>2. \A r \in Callers : call[r].pc = "idle" BY DEF SequenceInit, NoCall
  <1>3. Exclusive /\ InRows BY <1>2 DEF Exclusive, Locks, InRows
  <1>4. Undisturbed
    <2>1. rows = {} /\ issued = <<>> /\ Due = 1 BY DEF SequenceInit, Due, First
    <2> QED BY <1>2, <2>1 DEF Undisturbed
  <1> QED BY <1>1, <1>3, <1>4 DEF Consecutive

(* With one number more given out, the next one is due.                    *)
LEMMA DueMoves ==
    ASSUME Consecutive, start' = start, Len(issued') = Len(issued) + 1
    PROVE  Due' = Due + 1
  <1>1. ASSUME NEW f \in Nat, NEW a \in Nat, NEW n \in Nat
        PROVE  f + ((n + 1) - a) = f + (n - a) + 1
        OBVIOUS
  <1>2. start.from \in Nat /\ start.at \in Nat BY DEF Consecutive, SequenceTypeOK
  <1>3. Len(issued) \in Nat BY DEF Consecutive, SequenceTypeOK
  <1>4. Due' = start.from + ((Len(issued) + 1) - start.at) BY DEF Due
  <1>5. Due = start.from + (Len(issued) - start.at) BY DEF Due
  <1> QED BY <1>1, <1>2, <1>3, <1>4, <1>5, Zenon

LEMMA TakeKeeps == ASSUME Consecutive, NEW r \in Callers, Take(r) PROVE Consecutive'
  <1> PICK q : q = call[r] OBVIOUS
  <1>1. q \in Taking /\ q.row \in rows /\ q.row \in Rows
        BY ReqByPc DEF Take, Consecutive, InRows, SequenceTypeOK
  <1>2. next' = [next EXCEPT ![q.row] = q.value + 1] /\ issued' = Append(issued, q.value)
        BY DEF Take, After
  <1>3. q.value \in Nat \ {0} BY <1>1 DEF Taking
  <1>4. UNCHANGED <<rows, active, start, disturbed>> BY DEF Take, course
  <1>5. /\ call' \in [Callers -> {NoCall} \cup Taking \cup Creating \cup Configuring]
        /\ Exclusive' /\ InRows'
        /\ call'[r].pc = "idle" /\ \A p \in Callers \ {r} : call'[p] = call[p]
        BY <1>4, EndKeeps DEF Take
  <1>6. SequenceTypeOK'
    <2>1. next' \in [Rows -> Nat \ {0}]
      <3>1. q.value + 1 \in Nat \ {0} BY <1>3
      <3> QED BY <1>2, <3>1 DEF Consecutive, SequenceTypeOK
    <2>2. issued' \in Seq(Nat \ {0}) BY <1>2, <1>3 DEF Consecutive, SequenceTypeOK
    <2> QED BY <1>4, <1>5, <2>1, <2>2 DEF Consecutive, SequenceTypeOK
  <1>7. ASSUME disturbed' = FALSE PROVE Undisturbed'
    <2>1. Undisturbed BY <1>4, <1>7 DEF Consecutive
    <2>2. q.value = next[q.row] /\ next[q.row] = Due
          BY <1>1, <2>1 DEF Undisturbed, Take
    <2>3. issued \in Seq(Nat \ {0}) BY DEF Consecutive, SequenceTypeOK
    <2>4. Due' = Due + 1
      <3>1. Len(issued') = Len(issued) + 1 BY <1>2, <1>3, <2>3
      <3> QED BY <1>4, <3>1, DueMoves
    <2>5. \A x \in rows' : next'[x] = Due'
          BY <1>1, <1>2, <1>4, <2>1, <2>2, <2>4 DEF Undisturbed, Consecutive, SequenceTypeOK
    <2>6. \A p \in Callers : call'[p].pc # "take"
      <3> SUFFICES ASSUME NEW p \in Callers, call'[p].pc = "take" PROVE FALSE
          OBVIOUS
      <3>1. p # r /\ call[p].pc = "take" BY <1>5
      <3>2. call[p].row = q.row BY <1>1, <2>1, <3>1 DEF Undisturbed, Consecutive, InRows
      <3> QED BY <1>1, <3>1, <3>2 DEF Take, Consecutive, Exclusive, Locks
    <2>7. \A p \in Callers : call'[p].pc \in {"create", "create configured"} => call'[p].value = 1
          BY <1>5, <2>1 DEF Undisturbed
    <2>8. rows' # {} BY <1>1, <1>4
    <2> QED BY <1>4, <2>1, <2>5, <2>6, <2>7, <2>8 DEF Undisturbed
  <1> QED BY <1>5, <1>6, <1>7 DEF Consecutive

LEMMA CreateKeeps ==
    ASSUME Consecutive, NEW r \in Callers, NEW x \in Rows, Create(r, x)
    PROVE  Consecutive' /\ (disturbed' = FALSE => Due = 1 /\ issued' = Append(issued, 1))
  <1> PICK q : q = call[r] OBVIOUS
  <1>1. q \in Creating BY ReqByPc DEF Create, Consecutive
  <1>2. q.value \in Nat \ {0} BY <1>1 DEF Creating
  <1>3. /\ x \notin rows
        /\ rows' = rows \cup {x}
        /\ active' = active \cup {x}
        /\ next' = [next EXCEPT ![x] = q.value + 1]
        /\ disturbed' = (disturbed \/ rows # {})
        /\ issued' = Append(issued, q.value)
        /\ start' = start
        BY DEF Create, InsertRow, After
  <1>4. /\ call' \in [Callers -> {NoCall} \cup Taking \cup Creating \cup Configuring]
        /\ Exclusive' /\ InRows'
        /\ call'[r].pc = "idle" /\ \A p \in Callers \ {r} : call'[p] = call[p]
        BY <1>3, EndKeeps DEF Create
  <1>5. SequenceTypeOK'
    <2>1. next' \in [Rows -> Nat \ {0}]
      <3>1. q.value + 1 \in Nat \ {0} BY <1>2
      <3> QED BY <1>3, <3>1 DEF Consecutive, SequenceTypeOK
    <2>2. issued' \in Seq(Nat \ {0}) BY <1>2, <1>3 DEF Consecutive, SequenceTypeOK
    <2>3. rows' \subseteq Rows /\ active' \subseteq rows' BY <1>3 DEF Consecutive, SequenceTypeOK
    <2>4. disturbed' \in BOOLEAN BY <1>3
    <2>5. start' \in [from : Nat \ {0}, at : Nat] BY <1>3 DEF Consecutive, SequenceTypeOK
    <2> QED BY <1>4, <2>1, <2>2, <2>3, <2>4, <2>5 DEF SequenceTypeOK
  <1>6. ASSUME disturbed' = FALSE
        PROVE  Undisturbed' /\ Due = 1 /\ issued' = Append(issued, 1)
    <2>1. disturbed = FALSE /\ rows = {} BY <1>3, <1>6 DEF Consecutive, SequenceTypeOK
    <2>2. Undisturbed BY <2>1, Zenon DEF Consecutive
    <2>3. issued = <<>> /\ Due = 1 /\ q.value = 1 BY <2>1, <2>2 DEF Undisturbed, Create
    <2>4. issued' = Append(issued, 1) /\ Due' = 2
      <3>1. Len(issued') = Len(issued) + 1 BY <1>3, <2>3
      <3>2. Due' = Due + 1 BY <1>3, <3>1, DueMoves
      <3>3. Due = 1 BY <2>3
      <3>4. issued' = Append(issued, 1) BY <1>3, <2>3
      <3>5. Due' = 2 BY <3>2, <3>3
      <3> QED BY <3>4, <3>5
    <2>5. rows' = {x} /\ next'[x] = 2 BY <1>3, <2>1, <2>3 DEF Consecutive, SequenceTypeOK
    <2>6. \A p \in Callers : call'[p].pc # "take"
      <3> SUFFICES ASSUME NEW p \in Callers, call'[p].pc = "take" PROVE FALSE
          OBVIOUS
      <3>1. p # r /\ call[p].pc = "take" BY <1>4
      <3> QED BY <2>1, <3>1 DEF Consecutive, InRows
    <2>7. \A p \in Callers : call'[p].pc \in {"create", "create configured"} => call'[p].value = 1
          BY <1>4, <2>2 DEF Undisturbed
    <2>8. \A y \in rows' : next'[y] = Due' BY <2>4, <2>5
    <2>9. Undisturbed' BY <2>5, <2>6, <2>7, <2>8 DEF Undisturbed
    <2> QED BY <2>3, <2>4, <2>9
  <1> QED BY <1>4, <1>5, <1>6 DEF Consecutive

LEMMA CreateConfiguredKeeps ==
    ASSUME Consecutive, NEW r \in Callers, NEW x \in Rows, CreateConfigured(r, x)
    PROVE  Consecutive'
  <1> PICK q : q = call[r] OBVIOUS
  <1>1. q \in Creating BY ReqByPc DEF CreateConfigured, Consecutive
  <1>9. PICK n \in NextValues \cup {q.value}, isActive \in BOOLEAN :
            InsertRow(x, n, isActive) /\ StartAt(n)
        BY DEF CreateConfigured
  <1>2. n \in Nat \ {0} BY <1>1, SequenceAssumption DEF Creating
  <1>3. /\ x \notin rows
        /\ rows' = rows \cup {x}
        /\ active' \subseteq rows'
        /\ next' = [next EXCEPT ![x] = n]
        /\ disturbed' = (disturbed \/ rows # {})
        /\ issued' = issued
        /\ start' = [from |-> n, at |-> Len(issued)]
        BY <1>9 DEF CreateConfigured, InsertRow, StartAt, Consecutive, SequenceTypeOK
  <1>4. /\ call' \in [Callers -> {NoCall} \cup Taking \cup Creating \cup Configuring]
        /\ Exclusive' /\ InRows'
        /\ call'[r].pc = "idle" /\ \A p \in Callers \ {r} : call'[p] = call[p]
        BY <1>3, EndKeeps DEF CreateConfigured
  <1>5. SequenceTypeOK'
    <2>1. next' \in [Rows -> Nat \ {0}] BY <1>2, <1>3 DEF Consecutive, SequenceTypeOK
    <2>2. rows' \subseteq Rows BY <1>3 DEF Consecutive, SequenceTypeOK
    <2>3. disturbed' \in BOOLEAN BY <1>3
    <2>4. start' \in [from : Nat \ {0}, at : Nat] BY <1>2, <1>3 DEF Consecutive, SequenceTypeOK
    <2> QED BY <1>3, <1>4, <2>1, <2>2, <2>3, <2>4 DEF SequenceTypeOK, Consecutive
  <1>6. ASSUME disturbed' = FALSE PROVE Undisturbed'
    <2>1. disturbed = FALSE /\ rows = {} BY <1>3, <1>6 DEF Consecutive, SequenceTypeOK
    <2>2. Undisturbed BY <2>1, Zenon DEF Consecutive
    <2>3. Due' = n
      <3>1. Len(issued') = Len(issued) /\ Len(issued) \in Nat
            BY <1>3 DEF Consecutive, SequenceTypeOK
      <3> QED BY <1>2, <1>3, <3>1 DEF Due
    <2>5. rows' = {x} /\ next'[x] = n BY <1>3, <2>1 DEF Consecutive, SequenceTypeOK
    <2>6. \A p \in Callers : call'[p].pc # "take"
      <3> SUFFICES ASSUME NEW p \in Callers, call'[p].pc = "take" PROVE FALSE
          OBVIOUS
      <3>1. p # r /\ call[p].pc = "take" BY <1>4
      <3> QED BY <2>1, <3>1 DEF Consecutive, InRows
    <2>7. \A p \in Callers : call'[p].pc \in {"create", "create configured"} => call'[p].value = 1
          BY <1>4, <2>2 DEF Undisturbed
    <2>8. \A y \in rows' : next'[y] = Due' BY <2>3, <2>5
    <2> QED BY <2>5, <2>6, <2>7, <2>8 DEF Undisturbed
  <1> QED BY <1>4, <1>5, <1>6 DEF Consecutive

LEMMA ConfigureKeeps == ASSUME Consecutive, NEW r \in Callers, Configure(r) PROVE Consecutive'
  <1> PICK q : q = call[r] OBVIOUS
  <1>1. q \in Configuring /\ q.row \in rows /\ q.row \in Rows
        BY ReqByPc DEF Configure, Consecutive, InRows, SequenceTypeOK
  <1>2. PICK n \in Nat \ {0} :
            /\ next' = [next EXCEPT ![q.row] = n]
            /\ \/ /\ n = q.value /\ disturbed' = (disturbed \/ next[q.row] # n)
                  /\ start' = start
               \/ start' = [from |-> n, at |-> Len(issued)] /\ disturbed' = disturbed
    <2>1. q.value \in Nat \ {0} BY <1>1 DEF Configuring
    <2> QED BY <2>1, SequenceAssumption DEF Configure, StartAt
  <1>3. UNCHANGED <<rows, issued>> BY DEF Configure
  <1>4. active' \subseteq rows BY <1>1 DEF Configure, Consecutive, SequenceTypeOK
  <1>5. /\ call' \in [Callers -> {NoCall} \cup Taking \cup Creating \cup Configuring]
        /\ Exclusive' /\ InRows'
        /\ call'[r].pc = "idle" /\ \A p \in Callers \ {r} : call'[p] = call[p]
        BY <1>3, EndKeeps DEF Configure
  <1>6. SequenceTypeOK'
    <2>1. next' \in [Rows -> Nat \ {0}] BY <1>2 DEF Consecutive, SequenceTypeOK
    <2>2. disturbed' \in BOOLEAN BY <1>2 DEF Consecutive, SequenceTypeOK
    <2>3. start' \in [from : Nat \ {0}, at : Nat] BY <1>2 DEF Consecutive, SequenceTypeOK
    <2> QED BY <1>3, <1>4, <1>5, <2>1, <2>2, <2>3 DEF SequenceTypeOK, Consecutive
  <1>7. ASSUME disturbed' = FALSE PROVE Undisturbed'
    <2>1. disturbed = FALSE BY <1>2, <1>7 DEF Consecutive, SequenceTypeOK
    <2>2. Undisturbed BY <2>1, Zenon DEF Consecutive
    <2>3. rows = {q.row} BY <1>1, <2>2 DEF Undisturbed
    <2>4. next'[q.row] = n /\ next[q.row] = Due
          BY <1>1, <1>2, <2>2 DEF Undisturbed, Consecutive, SequenceTypeOK
    <2>5. Due' = n
      <3>1. Len(issued') = Len(issued) /\ Len(issued) \in Nat
            BY <1>3 DEF Consecutive, SequenceTypeOK
      <3>2. CASE start' = [from |-> n, at |-> Len(issued)] BY <3>1, <3>2 DEF Due
      <3>3. CASE start' = start /\ next[q.row] = n BY <1>3, <2>4, <3>3 DEF Due
      <3> QED BY <1>2, <1>7, <3>2, <3>3
    <2>6. \A x \in rows' : next'[x] = Due' BY <1>3, <2>3, <2>4, <2>5
    <2>7. ASSUME NEW p \in Callers
          PROVE  /\ call'[p].pc # "take"
                 /\ call'[p].pc \in {"create", "create configured"} => call'[p].value = 1
      <3>1. CASE p = r BY <1>5, <3>1
      <3>2. CASE p # r
        <4>1. call'[p] = call[p] BY <1>5, <3>2
        <4>2. call[p].pc = "take" => call[p].row = q.row BY <2>3 DEF Consecutive, InRows
        <4>3. call[p].pc # "take" BY <4>2 DEF Configure, Locks
        <4> QED BY <2>2, <4>1, <4>3 DEF Undisturbed
      <3> QED BY <3>1, <3>2
    <2> QED BY <1>3, <2>3, <2>6, <2>7 DEF Undisturbed
  <1> QED BY <1>5, <1>6, <1>7 DEF Consecutive

LEMMA FindKeeps == ASSUME Consecutive, NEW r \in Callers, NEW x \in Rows, Find(r, x)
                   PROVE  Consecutive'
  <1> DEFINE new == [pc |-> "take", row |-> x, value |-> next[x]]
  <1>1. x \in rows /\ new \in Taking BY DEF Find, Consecutive, SequenceTypeOK, Taking
  <1>2. new.pc = "take" /\ new.row = x /\ new.value = next[x] OBVIOUS
  <1>3. /\ call' = [call EXCEPT ![r] = new] /\ Free(r, x)
        /\ UNCHANGED <<sequences, issued, course>>
        BY DEF Find
  <1> HIDE DEF new
  <1> QED BY <1>1, <1>2, <1>3, BeginKeeps

LEMMA FindNoneKeeps == ASSUME Consecutive, NEW r \in Callers, FindNoRow(r)
                       PROVE  Consecutive'
  <1> DEFINE new == [pc |-> "create", value |-> First]
  <1>1. new \in Creating /\ new.pc = "create" /\ new.value = 1 BY DEF Creating, First
  <1>2. call' = [call EXCEPT ![r] = new] /\ UNCHANGED <<sequences, issued, course>>
        BY DEF FindNoRow
  <1> HIDE DEF new
  <1> QED BY <1>1, <1>2, BeginKeeps

LEMMA FindToConfigureKeeps == ASSUME Consecutive, NEW r \in Callers, FindToConfigure(r)
                              PROVE  Consecutive'
  <1>1. UNCHANGED <<sequences, issued, course>> BY DEF FindToConfigure
  <1>2. CASE call' = [call EXCEPT ![r] = [pc |-> "create configured", value |-> First]]
    <2> DEFINE new == [pc |-> "create configured", value |-> First]
    <2>1. new \in Creating /\ new.pc = "create configured" /\ new.value = 1
          BY DEF Creating, First
    <2>2. call' = [call EXCEPT ![r] = new] BY <1>2
    <2> HIDE DEF new
    <2> QED BY <1>1, <2>1, <2>2, BeginKeeps
  <1>3. CASE \E x \in rows :
                call' = [call EXCEPT ![r] = [pc |-> "configure", row |-> x, value |-> next[x]]]
    <2> PICK x \in rows :
            call' = [call EXCEPT ![r] = [pc |-> "configure", row |-> x, value |-> next[x]]]
        BY <1>3
    <2> DEFINE new == [pc |-> "configure", row |-> x, value |-> next[x]]
    <2>1. new \in Configuring BY DEF Configuring, Consecutive, SequenceTypeOK
    <2>2. new.pc = "configure" /\ new.row = x OBVIOUS
    <2>3. call' = [call EXCEPT ![r] = new] OBVIOUS
    <2> HIDE DEF new
    <2> QED BY <1>1, <2>1, <2>2, <2>3, BeginKeeps
  <1> QED BY <1>2, <1>3 DEF FindToConfigure

LEMMA FailKeeps == ASSUME Consecutive, NEW r \in Callers, Rollback(r) PROVE Consecutive'
  <1>1. call' = [call EXCEPT ![r] = NoCall] /\ UNCHANGED <<sequences, issued, course>>
        BY DEF Rollback
  <1>2. NoCall.pc = "idle" BY DEF NoCall
  <1> QED BY <1>1, <1>2, BeginKeeps

LEMMA ConsecutiveNext == Consecutive /\ [SequenceNext]_sequenceVars => Consecutive'
  <1> SUFFICES ASSUME Consecutive, [SequenceNext]_sequenceVars PROVE Consecutive'
      OBVIOUS
  <1>1. CASE UNCHANGED sequenceVars
    <2>1. UNCHANGED <<rows, next, active, call, issued, start, disturbed>>
          BY <1>1 DEF sequenceVars, sequences, course
    <2> QED BY <2>1 DEF Consecutive, SequenceTypeOK, Exclusive, Locks, InRows, Undisturbed, Due
  <1>2. CASE SequenceNext
    <2> PICK r \in Callers :
            \/ (\E x \in Rows : Find(r, x)) \/ FindNoRow(r) \/ FindToConfigure(r)
            \/ \E x \in Rows : Create(r, x) \/ CreateConfigured(r, x)
            \/ Take(r) \/ Configure(r) \/ Rollback(r)
        BY <1>2 DEF SequenceNext
    <2> QED BY FindKeeps, FindNoneKeeps, FindToConfigureKeeps, CreateKeeps,
               CreateConfiguredKeeps, TakeKeeps, ConfigureKeeps, FailKeeps
  <1> QED BY <1>1, <1>2

----------------------------------------------------------------------------
LEMMA AlwaysConsecutive == SequenceSpec => []Consecutive
  <1> QED BY ConsecutiveInit, ConsecutiveNext, PTL DEF SequenceSpec

(* The table, the requests and the numbers given out keep their types      *)
(* through every overlap of getNextNumber and configureSequence.           *)
THEOREM NumbersTypeCorrect == SequenceSpec => []SequenceTypeOK
  <1>1. Consecutive => SequenceTypeOK BY DEF Consecutive
  <1> QED BY <1>1, AlwaysConsecutive, PTL

(* Every step of getNextNumber or configureSequence gives out the number   *)
(* that comes next, says which one that is, changes neither, or is the     *)
(* insertion of a second row or the save of a counter that has moved.      *)
LEMMA StepIsPromised == Consecutive /\ [SequenceNext]_sequenceVars => [Promise!Next]_(Promise!vars)
  <1> SUFFICES ASSUME Consecutive, [SequenceNext]_sequenceVars PROVE [Promise!Next]_(Promise!vars)
      OBVIOUS
  <1> USE DEF Promise!vars, Promise!Next, Promise!Issue, Promise!Disturbed
  <1>1. CASE UNCHANGED <<issued, course>> BY <1>1 DEF course
  <1>2. CASE disturbed' = TRUE BY <1>2
  <1>3. ASSUME disturbed = FALSE, UNCHANGED course, issued' = Append(issued, Due)
        PROVE  [Promise!Next]_(Promise!vars)
        BY <1>3 DEF Promise!Promised, Due, course
  <1>11. ASSUME NEW n \in Nat \ {0}, StartAt(n), UNCHANGED <<issued, disturbed>>
         PROVE  [Promise!Next]_(Promise!vars)
    <2>1. Promise!Restart BY <1>11 DEF StartAt, Promise!Restart
    <2> QED BY <2>1
  <1>4. ASSUME NEW r \in Callers, Take(r) PROVE [Promise!Next]_(Promise!vars)
    <2>1. UNCHANGED course /\ issued' = Append(issued, call[r].value) BY <1>4 DEF Take
    <2>2. CASE disturbed = TRUE BY <1>2, <2>1, <2>2 DEF course
    <2>3. CASE disturbed = FALSE
      <3>1. Undisturbed BY <2>3, Zenon DEF Consecutive
      <3>2. call[r].pc = "take" /\ call[r].row \in rows BY <1>4 DEF Take, Consecutive, InRows
      <3>3. call[r].value = Due BY <3>1, <3>2 DEF Undisturbed
      <3> QED BY <1>3, <2>1, <2>3, <3>3
    <2> QED BY <2>2, <2>3 DEF Consecutive, SequenceTypeOK
  <1>5. ASSUME NEW r \in Callers, NEW x \in Rows, Create(r, x)
        PROVE  [Promise!Next]_(Promise!vars)
    <2>1. disturbed' = (disturbed \/ rows # {}) /\ start' = start
          BY <1>5 DEF Create, InsertRow
    <2>2. CASE disturbed' = FALSE
      <3>1. disturbed = FALSE BY <2>1, <2>2 DEF Consecutive, SequenceTypeOK
      <3>2. issued' = Append(issued, Due) BY <1>5, <2>2, CreateKeeps
      <3> QED BY <1>3, <2>1, <2>2, <3>1, <3>2 DEF course
    <2> QED BY <1>2, <2>1, <2>2
  <1>6. ASSUME NEW r \in Callers, Configure(r) PROVE [Promise!Next]_(Promise!vars)
    <2>1. issued' = issued BY <1>6 DEF Configure
    <2>2. CASE disturbed' = (disturbed \/ next[call[r].row] # call[r].value) /\ start' = start
          BY <1>1, <1>2, <2>1, <2>2 DEF Consecutive, SequenceTypeOK, course
    <2>3. CASE \E n \in NextValues : StartAt(n) /\ disturbed' = disturbed
          BY <1>11, <2>1, <2>3, SequenceAssumption
    <2> QED BY <1>6, <2>2, <2>3 DEF Configure
  <1>7. ASSUME NEW r \in Callers, NEW x \in Rows, CreateConfigured(r, x)
        PROVE  [Promise!Next]_(Promise!vars)
    <2>1. disturbed' = (disturbed \/ rows # {}) /\ issued' = issued
          BY <1>7 DEF CreateConfigured, InsertRow
    <2>2. PICK n \in NextValues \cup {call[r].value} : StartAt(n)
          BY <1>7 DEF CreateConfigured
    <2>3. call[r].value \in Nat \ {0}
          BY <1>7, ReqByPc DEF CreateConfigured, Consecutive, Creating
    <2>4. n \in Nat \ {0} BY <2>3, SequenceAssumption
    <2> QED BY <1>2, <1>11, <2>1, <2>2, <2>4 DEF Consecutive, SequenceTypeOK
  <1>8. ASSUME NEW r \in Callers,
               \/ \E x \in Rows : Find(r, x)
               \/ FindNoRow(r) \/ FindToConfigure(r) \/ Rollback(r)
        PROVE  [Promise!Next]_(Promise!vars)
    <2>1. UNCHANGED <<issued, course>>
          BY <1>8 DEF Find, FindNoRow, FindToConfigure, Rollback
    <2> QED BY <1>1, <2>1
  <1>9. CASE UNCHANGED sequenceVars BY <1>1, <1>9 DEF sequenceVars
  <1>10. CASE SequenceNext
    <2> PICK r \in Callers :
            \/ (\E x \in Rows : Find(r, x)) \/ FindNoRow(r) \/ FindToConfigure(r)
            \/ \E x \in Rows : Create(r, x) \/ CreateConfigured(r, x)
            \/ Take(r) \/ Configure(r) \/ Rollback(r)
        BY <1>10 DEF SequenceNext
    <2> QED BY <1>4, <1>5, <1>6, <1>7, <1>8
  <1> QED BY <1>9, <1>10

(* getNextNumber gives out 1, 2, 3, ..., or the numbers that follow the    *)
(* nextValue of the last configureSequence that named one, whatever        *)
(* transactions overlap or fail, until a second row is inserted or         *)
(* configureSequence writes a counter back that has moved.                 *)
THEOREM NumbersAreConsecutive == SequenceSpec => IsConsecutive
  <1>1. SequenceInit => Promise!Init
        BY DEF SequenceInit, Promise!Init, Promise!StartAt, First
  <1> QED BY <1>1, AlwaysConsecutive, StepIsPromised, PTL
          DEF SequenceSpec, IsConsecutive, Promise!Spec

----------------------------------------------------------------------------
(* Bank reconciliation.                                                    *)

(* What two requests have decided to save is known to be shared.           *)
SharedSeen ==
    \A r, p \in Matchers : r # p => Decided(r) \cap Decided(p) \subseteq shared

(* What a request has read of the rows that only it has decided to save.   *)
StillOpen(r) ==
    LET q == matching[r] IN
    /\ q.pc = "save" => \A l \in q.lines :
          EntryOf[l] = q.entry /\ (l \notin reconciled \/ l \in shared)
    /\ q.pc = "save" /\ ~q.writes => matched[q.trx] = q.entry \/ q.trx \in shared
    /\ q.pc \in {"checked", "match"} =>
          /\ matched[q.trx] = None \/ q.trx \in shared
          /\ q.line \notin reconciled \/ q.line \in shared
    /\ q.pc \in {"pick", "match"} => \A t \in q.rest : matched[t] = None \/ t \in shared
    /\ q.pc = "match" => q.trx \notin q.rest

(* A reconciled transaction is the one its line was reconciled with.       *)
HasLine ==
    \A t \in Transactions \ (shared \cup unlined) :
        /\ matched[t] # None
        /\ \A l \in Lines : EntryOf[l] = matched[t] => l \notin shared
        => \E l \in reconciled : EntryOf[l] = matched[t] /\ marks[l] = t

Reconciling ==
    /\ BankTypeOK
    /\ SharedSeen
    /\ \A r \in Matchers : StillOpen(r)
    /\ \A l \in reconciled : marks[l] \in Transactions
    /\ MarkedIsMatched
    /\ HasLine

(* The fields of a request by its pc, and the rows it has decided to save. *)
LEMMA MatchingFields ==
    ASSUME NEW q \in Matching
    PROVE  /\ q.pc \in {"idle", "load", "save", "pick", "match", "checked"}
           /\ q.pc = "idle" => q = NotMatching
           /\ q.pc = "load" => q.trx \in Transactions /\ q.entry \in Entries
           /\ q.pc = "save" => /\ q.trx \in Transactions /\ q.entry \in Entries
                               /\ q.lines \subseteq Lines /\ q.writes \in BOOLEAN
           /\ q.pc = "pick" => q.rest \subseteq Transactions
           /\ q.pc = "match" => /\ q.rest \subseteq Transactions
                                /\ q.trx \in Transactions /\ q.line \in Lines
           /\ q.pc = "checked" => q.trx \in Transactions /\ q.line \in Lines
  <1> QED BY DEF Matching, NotMatching

(* A request changes only what it has decided to save, and decides on rows *)
(* that are free or known to be shared: nobody else's memory goes stale.   *)
LEMMA OthersStillOpen ==
    ASSUME Reconciling, NEW r \in Matchers, NEW new \in Matching,
           matching' = [matching EXCEPT ![r] = new],
           shared \subseteq shared',
           \A k \in Decided(r)' : \/ k \in Decided(r)
                                  \/ \A p \in Matchers \ {r} : k \in Decided(p) => k \in shared',
           \A t \in Transactions : matched'[t] # matched[t] => t \in Decided(r),
           \A l \in reconciled' : l \in reconciled \/ l \in Decided(r)
    PROVE  /\ matching' \in [Matchers -> Matching]
           /\ SharedSeen'
           /\ matching'[r] = new
           /\ \A p \in Matchers \ {r} : StillOpen(p)'
  <1>1. /\ matching \in [Matchers -> Matching]
        /\ matching' \in [Matchers -> Matching]
        /\ matching'[r] = new /\ \A p \in Matchers \ {r} : matching'[p] = matching[p]
    BY DEF Reconciling, BankTypeOK
  <1>2. \A p \in Matchers \ {r} : Decided(p)' = Decided(p) BY <1>1 DEF Decided
  <1>3. SharedSeen'
    <2> SUFFICES ASSUME NEW p \in Matchers, NEW o \in Matchers, p # o,
                        NEW k, k \in Decided(p)', k \in Decided(o)'
                 PROVE  k \in shared'
      BY DEF SharedSeen
    <2>1. CASE p # r /\ o # r BY <1>2, <2>1 DEF Reconciling, SharedSeen
    <2>2. CASE p = r /\ o # r BY <1>2, <2>2 DEF Reconciling, SharedSeen
    <2>3. CASE p # r /\ o = r BY <1>2, <2>3 DEF Reconciling, SharedSeen
    <2> QED BY <2>1, <2>2, <2>3
  <1>4. ASSUME NEW p \in Matchers \ {r} PROVE StillOpen(p)'
    <2> DEFINE q == matching[p]
    <2>1. q \in Matching /\ matching'[p] = q BY <1>1
    <2>2. StillOpen(p) BY DEF Reconciling
    <2>3. \A k \in Decided(p) : k \in Decided(r) => k \in shared'
      BY DEF Reconciling, SharedSeen
    <2>4. /\ q.pc = "save" => q.trx \in Decided(p) /\ q.lines \subseteq Decided(p)
          /\ q.pc = "pick" => q.rest \subseteq Decided(p)
          /\ q.pc = "match" => /\ q.rest \subseteq Decided(p)
                               /\ q.trx \in Decided(p) /\ q.line \in Decided(p)
          /\ q.pc = "checked" => q.trx \in Decided(p) /\ q.line \in Decided(p)
      BY <2>1 DEF Decided
    <2> HIDE DEF q
    <2>5. \A t \in Transactions \cap Decided(p) : matched'[t] = matched[t] \/ t \in shared'
      BY <2>3
    <2>6. \A l \in Decided(p) : l \notin reconciled => l \notin reconciled' \/ l \in shared'
      BY <2>3
    <2>7. \/ q.pc \notin {"save", "pick", "match", "checked"}
          \/ q.pc = "save" \/ q.pc = "pick" \/ q.pc = "match" \/ q.pc = "checked"
      OBVIOUS
    <2>8. CASE q.pc = "save"
      BY <2>1, <2>2, <2>4, <2>5, <2>6, <2>8, MatchingFields DEF StillOpen, q
    <2>9. CASE q.pc = "pick"
      BY <2>1, <2>2, <2>4, <2>5, <2>6, <2>9, MatchingFields DEF StillOpen, q
    <2>10. CASE q.pc = "match"
      BY <2>1, <2>2, <2>4, <2>5, <2>6, <2>10, MatchingFields DEF StillOpen, q
    <2>11. CASE q.pc = "checked"
      BY <2>1, <2>2, <2>4, <2>5, <2>6, <2>11, MatchingFields DEF StillOpen, q
    <2>12. CASE q.pc \notin {"save", "pick", "match", "checked"}
      BY <2>1, <2>12 DEF StillOpen, q
    <2> QED BY <2>7, <2>8, <2>9, <2>10, <2>11, <2>12
  <1> QED BY <1>1, <1>3, <1>4

(* A step that saves nothing: only what the request has in memory changes. *)
LEMMA DecideKeeps ==
    ASSUME Reconciling, NEW r \in Matchers, NEW new \in Matching,
           matching' = [matching EXCEPT ![r] = new],
           shared \subseteq shared', shared' \subseteq Transactions \cup Lines,
           \A k \in Decided(r)' : \/ k \in Decided(r)
                                  \/ \A p \in Matchers \ {r} : k \in Decided(p) => k \in shared',
           StillOpen(r)', started' \in Nat,
           UNCHANGED <<imported, matched, reconciled, unlined, rematched, marks>>
    PROVE  Reconciling'
  <1>1. /\ matching' \in [Matchers -> Matching]
        /\ SharedSeen'
        /\ \A p \in Matchers \ {r} : StillOpen(p)'
    BY OthersStillOpen
  <1>2. BankTypeOK' BY <1>1 DEF Reconciling, BankTypeOK
  <1>3. MarkedIsMatched' BY DEF Reconciling, MarkedIsMatched
  <1>4. HasLine' BY DEF Reconciling, HasLine
  <1> QED BY <1>1, <1>2, <1>3, <1>4 DEF Reconciling

(* Transaction t is matched with entry e and the lines are marked.         *)
LEMMA MatchKeeps ==
    ASSUME MatchAssumption, Reconciling, NEW r \in Matchers, NEW new \in Matching,
           matching' = [matching EXCEPT ![r] = new],
           NEW t \in Transactions \cap Decided(r), NEW e \in Entries \cup {None},
           NEW lines \in SUBSET (Lines \cap Decided(r)), Match(t, e, lines),
           new.pc \in {"idle", "pick"},
           new.pc = "pick" => \A u \in new.rest : u # t /\ u \in Decided(r)
                                                  /\ (matched[u] = None \/ u \in shared),
           \A l \in lines : l \notin reconciled \/ l \in shared,
           t \notin shared => \A l \in lines : EntryOf[l] = e,
           unlined \subseteq unlined', unlined' \subseteq Transactions,
           rematched \subseteq rematched', rematched' \subseteq Transactions,
           lines = {} => t \in unlined',
           matched[t] # None => t \in rematched' \cup shared,
           UNCHANGED <<imported, started, shared>>
    PROVE  Reconciling'
  <1>1. /\ matched \in [Transactions -> Entries \cup {None}]
        /\ reconciled \subseteq Lines /\ marks \in [Lines -> Transactions \cup {None}]
    BY DEF Reconciling, BankTypeOK
  <1>2. /\ matched'[t] = e /\ \A u \in Transactions \ {t} : matched'[u] = matched[u]
        /\ reconciled' = reconciled \cup lines
        /\ \A l \in lines : marks'[l] = t
        /\ \A l \in Lines \ lines : marks'[l] = marks[l]
    BY <1>1 DEF Match
  <1>3. /\ matching' \in [Matchers -> Matching]
        /\ SharedSeen' /\ matching'[r] = new
        /\ \A p \in Matchers \ {r} : StillOpen(p)'
    <2>1. matching'[r] = new BY DEF Reconciling, BankTypeOK
    <2>2. Decided(r)' \subseteq Decided(r) BY <2>1 DEF Decided
    <2>3. \A u \in Transactions : matched'[u] # matched[u] => u \in Decided(r) BY <1>2
    <2>4. \A l \in reconciled' : l \in reconciled \/ l \in Decided(r) BY <1>2
    <2> QED BY <2>2, <2>3, <2>4, OthersStillOpen
  <1>4. StillOpen(r)'
    <2>1. new.pc = "pick" => \A u \in new.rest : matched'[u] = None \/ u \in shared'
      BY <1>2, MatchingFields
    <2> QED BY <1>3, <2>1 DEF StillOpen
  <1>5. BankTypeOK'
    <2>1. matched' \in [Transactions -> Entries \cup {None}] BY <1>1 DEF Match
    <2>2. marks' \in [Lines -> Transactions \cup {None}] BY <1>1 DEF Match
    <2> QED BY <1>2, <1>3, <2>1, <2>2 DEF Reconciling, BankTypeOK
  <1>6. \A l \in reconciled' : marks'[l] \in Transactions
    BY <1>1, <1>2 DEF Reconciling
  <1>7. MarkedIsMatched'
    <2> SUFFICES ASSUME NEW l \in reconciled', marks'[l] \notin shared \cup rematched'
                 PROVE  matched'[marks'[l]] = EntryOf[l]
      BY DEF MarkedIsMatched
    <2>1. CASE l \in lines BY <1>2, <2>1
    <2>2. CASE l \notin lines
      <3>1. l \in reconciled /\ l \in Lines /\ marks'[l] = marks[l] BY <1>1, <1>2, <2>2
      <3>2. matched[marks[l]] = EntryOf[l] BY <3>1 DEF Reconciling, MarkedIsMatched
      <3>3. EntryOf[l] \in Entries /\ EntryOf[l] # None BY <3>1 DEF MatchAssumption
      <3>4. marks[l] # t BY <3>1, <3>2, <3>3
      <3> QED BY <1>2, <1>6, <3>1, <3>2, <3>4
    <2> QED BY <2>1, <2>2
  <1>8. HasLine'
    <2> SUFFICES ASSUME NEW u \in Transactions \ (shared \cup unlined'), matched'[u] # None,
                        \A l \in Lines : EntryOf[l] = matched'[u] => l \notin shared
                 PROVE  \E l \in reconciled' : EntryOf[l] = matched'[u] /\ marks'[l] = u
      BY DEF HasLine
    <2>1. CASE u = t
      <3>1. PICK l \in lines : TRUE BY <2>1
      <3> QED BY <1>2, <2>1, <3>1
    <2>2. CASE u # t
      <3>1. matched'[u] = matched[u] BY <1>2, <2>2
      <3>2. PICK l \in reconciled : EntryOf[l] = matched[u] /\ marks[l] = u
        BY <3>1 DEF Reconciling, HasLine
      <3>3. l \notin lines BY <1>1, <3>1, <3>2
      <3> QED BY <1>1, <1>2, <3>1, <3>2, <3>3
    <2> QED BY <2>1, <2>2
  <1> QED BY <1>3, <1>4, <1>5, <1>6, <1>7, <1>8 DEF Reconciling

(* Of a request that picks, a step that changes what is left to look at    *)
(* changes no more.                                                        *)
LEMMA RestLess ==
    ASSUME NEW q \in [pc : {"pick"}, rest : SUBSET Transactions], NEW u \in SUBSET Transactions
    PROVE  [q EXCEPT !.rest = u] = [pc |-> "pick", rest |-> u]
  <1> DEFINE Picking == [pc : {"pick"}, rest : SUBSET Transactions]
  <1>1. [q EXCEPT !.rest = u] \in Picking /\ [pc |-> "pick", rest |-> u] \in Picking
    OBVIOUS
  <1>2. [q EXCEPT !.rest = u].rest = u /\ [q EXCEPT !.rest = u].pc = "pick"
    OBVIOUS
  <1>3. \A a, b \in Picking : a.rest = b.rest /\ a.pc = b.pc => a = b
    OBVIOUS
  <1> QED BY <1>1, <1>2, <1>3

LEMMA ReconcilingInit == MatchAssumption /\ BankInit => Reconciling
  <1> SUFFICES ASSUME MatchAssumption, BankInit PROVE Reconciling
    OBVIOUS
  <1>1. matching \in [Matchers -> Matching] BY DEF BankInit, Matching
  <1>2. BankTypeOK BY <1>1 DEF BankInit, BankTypeOK
  <1>3. \A r \in Matchers : matching[r].pc = "idle" BY DEF BankInit, NotMatching
  <1>4. SharedSeen BY <1>3 DEF SharedSeen, Decided
  <1>5. \A r \in Matchers : StillOpen(r) BY <1>3 DEF StillOpen
  <1>6. HasLine BY DEF HasLine, BankInit
  <1>7. reconciled = {} BY DEF BankInit
  <1> QED BY <1>2, <1>4, <1>5, <1>6, <1>7 DEF Reconciling, MarkedIsMatched

(* A request that starts decides on some rows and notes who has them too.  *)
LEMMA StartMatchingKeeps ==
    ASSUME Reconciling, NEW r \in Matchers, NEW new \in Matching,
           NEW toSave \in SUBSET (Transactions \cup Lines), StartMatching(r, new, toSave),
           matching'[r] = new => Decided(r)' \subseteq toSave /\ StillOpen(r)'
    PROVE  Reconciling'
  <1>1. matching'[r] = new BY DEF StartMatching, Reconciling, BankTypeOK
  <1>2. shared' = shared \cup {k \in toSave : \E p \in Matchers \ {r} : k \in Decided(p)}
    BY DEF StartMatching, Shared
  <1>3. shared' \subseteq Transactions \cup Lines BY <1>2 DEF Reconciling, BankTypeOK
  <1>4. started' \in Nat BY DEF StartMatching, Reconciling, BankTypeOK
  <1>5. \A k \in Decided(r)' : \A p \in Matchers \ {r} : k \in Decided(p) => k \in shared'
    BY <1>1, <1>2
  <1> QED BY <1>1, <1>2, <1>3, <1>4, <1>5, DecideKeeps DEF StartMatching

(* Each action of a matcher keeps the invariant.                           *)
LEMMA LoadToReconcileKeeps ==
    ASSUME Reconciling, NEW r \in Matchers, NEW t \in Transactions, NEW e \in Entries,
           LoadToReconcile(r, t, e)
    PROVE  Reconciling'
  <1> DEFINE new == [pc |-> "load", trx |-> t, entry |-> e]
  <1>1. new \in Matching BY DEF Matching
  <1>2. StartMatching(r, new, {t}) BY DEF LoadToReconcile
  <1>3. matching'[r] = new => Decided(r)' \subseteq {t} /\ StillOpen(r)'
    BY DEF Decided, StillOpen
  <1> HIDE DEF new
  <1> QED BY <1>1, <1>2, <1>3, StartMatchingKeeps

LEMMA CheckBothKeeps ==
    ASSUME Reconciling, NEW r \in Matchers, NEW t \in Transactions, NEW l \in Lines,
           CheckBoth(r, t, l)
    PROVE  Reconciling'
  <1> DEFINE new == [pc |-> "checked", trx |-> t, line |-> l]
  <1>1. new \in Matching BY DEF Matching
  <1>2. StartMatching(r, new, {t, l}) /\ matched[t] = None /\ l \notin reconciled
    BY DEF CheckBoth, Unmatched
  <1>3. UNCHANGED <<matched, reconciled>> BY <1>2 DEF StartMatching
  <1>4. matching'[r] = new => Decided(r)' \subseteq {t, l} /\ StillOpen(r)'
    BY <1>2, <1>3 DEF Decided, StillOpen
  <1> HIDE DEF new
  <1> QED BY <1>1, <1>2, <1>4, StartMatchingKeeps

LEMMA FindUnreconciledKeeps ==
    ASSUME Reconciling, NEW r \in Matchers, FindUnreconciled(r)
    PROVE  Reconciling'
  <1> DEFINE found == {t \in imported : matched[t] = None}
             new == [pc |-> "pick", rest |-> found]
  <1>1. found \subseteq Transactions BY DEF Reconciling, BankTypeOK
  <1>2. new \in Matching BY <1>1 DEF Matching
  <1>3. StartMatching(r, new, found) BY DEF FindUnreconciled
  <1>4. UNCHANGED matched BY <1>3 DEF StartMatching
  <1>5. \A t \in found : matched'[t] = None BY <1>4
  <1>6. new.pc = "pick" /\ new.rest = found OBVIOUS
  <1> HIDE DEF new, found
  <1>7. matching'[r] = new => Decided(r)' \subseteq found /\ StillOpen(r)'
    BY <1>5, <1>6 DEF Decided, StillOpen
  <1> QED BY <1>1, <1>2, <1>3, <1>7, StartMatchingKeeps

LEMMA FindLineKeeps ==
    ASSUME Reconciling, NEW r \in Matchers, FindLine(r)
    PROVE  Reconciling'
  <1> DEFINE q == matching[r]
             writes == matched[q.trx] # q.entry
  <1>1. q \in Matching /\ q.pc = "load" BY DEF FindLine, Reconciling, BankTypeOK
  <1>2. q.trx \in Transactions /\ q.entry \in Entries BY <1>1, MatchingFields
  <1>3. PICK lines \in IF OpenLines(q.entry) = {} THEN {{}}
                       ELSE {{l} : l \in OpenLines(q.entry)} :
            /\ matching' = [matching EXCEPT ![r] =
                              [pc |-> "save", trx |-> q.trx, entry |-> q.entry,
                               lines |-> lines, writes |-> writes]]
            /\ shared' = Shared(r, lines)
    BY DEF FindLine
  <1>4. lines \subseteq Lines /\ \A l \in lines : EntryOf[l] = q.entry /\ l \notin reconciled
    <2>1. lines \subseteq OpenLines(q.entry) BY <1>3
    <2> QED BY <2>1 DEF OpenLines
  <1>5. UNCHANGED <<imported, matched, reconciled, started, unlined, rematched, marks>>
    BY DEF FindLine
  <1> DEFINE new == [pc |-> "save", trx |-> q.trx, entry |-> q.entry,
                     lines |-> lines, writes |-> writes]
  <1>6. /\ new.pc = "save" /\ new.trx = q.trx /\ new.entry = q.entry
        /\ new.lines = lines /\ new.writes = writes
    OBVIOUS
  <1>7. new \in Matching BY <1>2, <1>4 DEF Matching
  <1>8. matching' = [matching EXCEPT ![r] = new] BY <1>3
  <1>9. matching'[r] = new BY <1>8 DEF Reconciling, BankTypeOK
  <1>10. q.trx \in Decided(r) BY <1>1 DEF Decided
  <1> HIDE DEF new
  <1>11. Decided(r)' = {q.trx} \cup lines BY <1>6, <1>9 DEF Decided
  <1>12. shared' = shared \cup {k \in lines : \E p \in Matchers \ {r} : k \in Decided(p)}
    BY <1>3 DEF Shared
  <1>13. StillOpen(r)' BY <1>4, <1>5, <1>6, <1>9 DEF StillOpen
  <1>14. shared' \subseteq Transactions \cup Lines /\ started' \in Nat
    BY <1>4, <1>5, <1>12 DEF Reconciling, BankTypeOK
  <1>15. \A k \in Decided(r)' : \/ k \in Decided(r)
                                \/ \A p \in Matchers \ {r} : k \in Decided(p) => k \in shared'
    BY <1>10, <1>11, <1>12
  <1> QED BY <1>5, <1>7, <1>8, <1>12, <1>13, <1>14, <1>15, DecideKeeps

LEMMA PickBestKeeps ==
    ASSUME Reconciling, NEW r \in Matchers, NEW t \in Transactions, PickBest(r, t)
    PROVE  Reconciling'
  <1> DEFINE q == matching[r]
  <1>1. q \in Matching /\ q.pc = "pick" /\ t \in q.rest
    BY DEF PickBest, Reconciling, BankTypeOK
  <1>2. q.rest \subseteq Transactions BY <1>1, MatchingFields
  <1>3. PICK l \in Candidates(t) :
            /\ matching' = [matching EXCEPT ![r] = [pc |-> "match", rest |-> q.rest \ {t},
                                                    trx |-> t, line |-> l]]
            /\ shared' = Shared(r, {l})
    BY DEF PickBest
  <1>4. l \in Lines /\ l \notin reconciled BY DEF Candidates
  <1>5. UNCHANGED <<imported, matched, reconciled, started, unlined, rematched, marks>>
    BY DEF PickBest
  <1> DEFINE new == [pc |-> "match", rest |-> q.rest \ {t}, trx |-> t, line |-> l]
  <1>6. new.pc = "match" /\ new.rest = q.rest \ {t} /\ new.trx = t /\ new.line = l OBVIOUS
  <1>7. new \in Matching BY <1>2, <1>4 DEF Matching
  <1>8. matching' = [matching EXCEPT ![r] = new] BY <1>3
  <1>9. matching'[r] = new BY <1>8 DEF Reconciling, BankTypeOK
  <1>10. q.rest = Decided(r) BY <1>1 DEF Decided
  <1> HIDE DEF new
  <1>11. Decided(r)' = (q.rest \ {t}) \cup {t, l} BY <1>6, <1>9 DEF Decided
  <1>12. shared' = shared \cup {k \in {l} : \E p \in Matchers \ {r} : k \in Decided(p)}
    BY <1>3 DEF Shared
  <1>13. \A u \in q.rest : matched[u] = None \/ u \in shared
    BY <1>1 DEF Reconciling, StillOpen
  <1>14. StillOpen(r)' BY <1>1, <1>4, <1>5, <1>6, <1>9, <1>12, <1>13 DEF StillOpen
  <1>15. shared' \subseteq Transactions \cup Lines /\ started' \in Nat
    BY <1>4, <1>5, <1>12 DEF Reconciling, BankTypeOK
  <1>16. \A k \in Decided(r)' : \/ k \in Decided(r)
                                \/ \A p \in Matchers \ {r} : k \in Decided(p) => k \in shared'
    BY <1>1, <1>10, <1>11, <1>12
  <1> QED BY <1>5, <1>7, <1>8, <1>12, <1>14, <1>15, <1>16, DecideKeeps

(* A request that goes on with less, or ends.                              *)
LEMMA LessKeeps ==
    ASSUME Reconciling, NEW r \in Matchers, NEW new \in Matching,
           matching' = [matching EXCEPT ![r] = new],
           \/ new.pc = "idle"
           \/ matching[r].pc = "pick" /\ new.pc = "pick" /\ new.rest \subseteq matching[r].rest,
           UNCHANGED <<imported, matched, reconciled, started, matchHistory>>
    PROVE  Reconciling'
  <1>1. matching'[r] = new /\ started \in Nat /\ shared \subseteq Transactions \cup Lines
    BY DEF Reconciling, BankTypeOK
  <1>2. UNCHANGED <<shared, unlined, rematched, marks>> BY DEF matchHistory
  <1>3. Decided(r)' \subseteq Decided(r) BY <1>1 DEF Decided
  <1>4. StillOpen(r)' BY <1>1, <1>2 DEF StillOpen, Reconciling
  <1> QED BY <1>1, <1>2, <1>3, <1>4, DecideKeeps

LEMMA CommitReconciledKeeps ==
    ASSUME MatchAssumption, Reconciling, NEW r \in Matchers, CommitReconciled(r)
    PROVE  Reconciling'
  <1> DEFINE q == matching[r]
             e == IF q.writes THEN q.entry ELSE matched[q.trx]
  <1>1. q \in Matching /\ q.pc = "save" BY DEF CommitReconciled, Reconciling, BankTypeOK
  <1>2. /\ q.trx \in Transactions /\ q.entry \in Entries
        /\ q.lines \subseteq Lines /\ q.writes \in BOOLEAN
    BY <1>1, MatchingFields
  <1>3. q.trx \in Decided(r) /\ q.lines \subseteq Decided(r) BY <1>1 DEF Decided
  <1>4. /\ matching' = [matching EXCEPT ![r] = NotMatching]
        /\ Match(q.trx, e, q.lines)
        /\ unlined' = IF q.lines = {} THEN unlined \cup {q.trx} ELSE unlined
        /\ rematched' = IF matched[q.trx] # None THEN rematched \cup {q.trx} ELSE rematched
        /\ UNCHANGED <<imported, started, shared>>
    BY DEF CommitReconciled
  <1>5. NotMatching \in Matching /\ NotMatching.pc = "idle" BY DEF NotMatching, Matching
  <1>6. e \in Entries \cup {None} BY <1>2 DEF Reconciling, BankTypeOK
  <1>7. /\ \A l \in q.lines : EntryOf[l] = q.entry /\ (l \notin reconciled \/ l \in shared)
        /\ ~q.writes => matched[q.trx] = q.entry \/ q.trx \in shared
    BY <1>1 DEF Reconciling, StillOpen
  <1>8. q.trx \notin shared => e = q.entry BY <1>2, <1>7
  <1>9. /\ unlined \subseteq unlined' /\ unlined' \subseteq Transactions
        /\ rematched \subseteq rematched' /\ rematched' \subseteq Transactions
    BY <1>2, <1>4 DEF Reconciling, BankTypeOK
  <1> HIDE DEF q, e
  <1> QED BY <1>2, <1>3, <1>4, <1>5, <1>6, <1>7, <1>8, <1>9, MatchKeeps

LEMMA CommitCheckedKeeps ==
    ASSUME MatchAssumption, Reconciling, NEW r \in Matchers, CommitChecked(r)
    PROVE  Reconciling'
  <1> DEFINE q == matching[r]
  <1>1. q \in Matching /\ q.pc = "checked" BY DEF CommitChecked, Reconciling, BankTypeOK
  <1>2. q.trx \in Transactions /\ q.line \in Lines BY <1>1, MatchingFields
  <1>3. q.trx \in Decided(r) /\ q.line \in Decided(r) BY <1>1 DEF Decided
  <1>4. /\ matching' = [matching EXCEPT ![r] = NotMatching]
        /\ Match(q.trx, EntryOf[q.line], {q.line})
        /\ UNCHANGED <<imported, started, shared, unlined, rematched>>
    BY DEF CommitChecked, MatchedBy
  <1>5. NotMatching \in Matching /\ NotMatching.pc = "idle" BY DEF NotMatching, Matching
  <1>6. EntryOf[q.line] \in Entries BY <1>2 DEF MatchAssumption
  <1>7. /\ matched[q.trx] = None \/ q.trx \in shared
        /\ q.line \notin reconciled \/ q.line \in shared
    BY <1>1 DEF Reconciling, StillOpen
  <1>8. unlined \subseteq Transactions /\ rematched \subseteq Transactions
    BY DEF Reconciling, BankTypeOK
  <1> DEFINE lines == {q.line}
  <1>9. /\ lines \in SUBSET (Lines \cap Decided(r)) /\ lines # {}
        /\ \A l \in lines : EntryOf[l] = EntryOf[q.line] /\ (l \notin reconciled \/ l \in shared)
    BY <1>2, <1>3, <1>7
  <1>10. Match(q.trx, EntryOf[q.line], lines) BY <1>4
  <1> HIDE DEF q, lines
  <1> QED BY <1>2, <1>3, <1>4, <1>5, <1>6, <1>7, <1>8, <1>9, <1>10, MatchKeeps

LEMMA CommitMatchKeeps ==
    ASSUME MatchAssumption, Reconciling, NEW r \in Matchers, CommitMatch(r)
    PROVE  Reconciling'
  <1> DEFINE q == matching[r]
             new == [pc |-> "pick", rest |-> q.rest]
  <1>1. q \in Matching /\ q.pc = "match" BY DEF CommitMatch, Reconciling, BankTypeOK
  <1>2. q.trx \in Transactions /\ q.line \in Lines /\ q.rest \subseteq Transactions
    BY <1>1, MatchingFields
  <1>3. q.trx \in Decided(r) /\ q.line \in Decided(r) /\ q.rest \subseteq Decided(r)
    BY <1>1 DEF Decided
  <1>4. /\ matching' = [matching EXCEPT ![r] = new]
        /\ Match(q.trx, EntryOf[q.line], {q.line})
        /\ UNCHANGED <<imported, started, shared, unlined, rematched>>
    BY DEF CommitMatch, MatchedBy
  <1>5. new \in Matching /\ new.pc = "pick" /\ new.rest = q.rest BY <1>2 DEF Matching
  <1>6. EntryOf[q.line] \in Entries BY <1>2 DEF MatchAssumption
  <1>7. /\ matched[q.trx] = None \/ q.trx \in shared
        /\ q.line \notin reconciled \/ q.line \in shared
        /\ q.trx \notin q.rest
        /\ \A u \in q.rest : matched[u] = None \/ u \in shared
    BY <1>1 DEF Reconciling, StillOpen
  <1>8. unlined \subseteq Transactions /\ rematched \subseteq Transactions
    BY DEF Reconciling, BankTypeOK
  <1> DEFINE lines == {q.line}
  <1>9. \A u \in new.rest : u # q.trx /\ u \in Decided(r) /\ (matched[u] = None \/ u \in shared)
    BY <1>3, <1>5, <1>7
  <1>10. /\ lines \in SUBSET (Lines \cap Decided(r)) /\ lines # {}
         /\ \A l \in lines : EntryOf[l] = EntryOf[q.line] /\ (l \notin reconciled \/ l \in shared)
    BY <1>2, <1>3, <1>7
  <1>11. Match(q.trx, EntryOf[q.line], lines) BY <1>4
  <1> HIDE DEF q, new, lines
  <1> QED BY <1>2, <1>3, <1>4, <1>5, <1>6, <1>7, <1>8, <1>9, <1>10, <1>11, MatchKeeps

LEMMA ReconcilingNext ==
    ASSUME MatchAssumption, Reconciling, [BankNext]_bankVars
    PROVE  Reconciling'
  <1>1. ASSUME NEW t \in Transactions, ImportTransaction(t) PROVE Reconciling'
    <2>1. /\ UNCHANGED <<matched, reconciled, matching, started, shared, unlined, rematched, marks>>
          /\ imported' \subseteq Transactions
      BY <1>1 DEF ImportTransaction, matchHistory, Reconciling, BankTypeOK
    <2>2. BankTypeOK' BY <2>1 DEF Reconciling, BankTypeOK
    <2>3. SharedSeen' BY <2>1 DEF Reconciling, SharedSeen, Decided
    <2>4. (\A r \in Matchers : StillOpen(r))' BY <2>1 DEF Reconciling, StillOpen
    <2>5. MarkedIsMatched' /\ HasLine' BY <2>1 DEF Reconciling, MarkedIsMatched, HasLine
    <2> QED BY <2>1, <2>2, <2>3, <2>4, <2>5 DEF Reconciling
  <1>2. CASE UNCHANGED bankVars
    <2>1. UNCHANGED <<imported, matched, reconciled, matching, started, shared, unlined,
                      rematched, marks>>
      BY <1>2 DEF bankVars, matchHistory
    <2>2. BankTypeOK' BY <2>1 DEF Reconciling, BankTypeOK
    <2>3. SharedSeen' BY <2>1 DEF Reconciling, SharedSeen, Decided
    <2>4. (\A r \in Matchers : StillOpen(r))' BY <2>1 DEF Reconciling, StillOpen
    <2>5. MarkedIsMatched' /\ HasLine' BY <2>1 DEF Reconciling, MarkedIsMatched, HasLine
    <2> QED BY <2>1, <2>2, <2>3, <2>4, <2>5 DEF Reconciling
  <1>3. ASSUME NEW r \in Matchers, NEW t \in Transactions, PickNone(r, t) PROVE Reconciling'
    <2>1. matching[r] \in Matching /\ matching[r].pc = "pick"
      BY <1>3 DEF PickNone, Reconciling, BankTypeOK
    <2> DEFINE new == [pc |-> "pick", rest |-> matching[r].rest \ {t}]
    <2>2. PICK s \in SUBSET Transactions : matching[r] = [pc |-> "pick", rest |-> s]
      <3>1. matching[r] \in [pc : {"pick"}, rest : SUBSET Transactions]
        BY <2>1 DEF Matching, NotMatching
      <3> QED BY <3>1
    <2>3. new \in Matching BY <2>2 DEF Matching
    <2>4. matching' = [matching EXCEPT ![r] = new]
      <3>1. matching' = [matching EXCEPT ![r].rest = matching[r].rest \ {t}]
        BY <1>3 DEF PickNone
      <3>2. [matching[r] EXCEPT !.rest = matching[r].rest \ {t}] = new
        <4>1. matching[r] \in [pc : {"pick"}, rest : SUBSET Transactions] BY <2>2
        <4>2. matching[r].rest \ {t} \in SUBSET Transactions BY <2>2
        <4> QED BY <4>1, <4>2, RestLess
      <3> QED BY <3>1, <3>2
    <2>5. new.pc = "pick" /\ new.rest \subseteq matching[r].rest OBVIOUS
    <2> HIDE DEF new
    <2> QED BY <1>3, <2>1, <2>3, <2>4, <2>5, LessKeeps DEF PickNone
  <1>4. ASSUME NEW r \in Matchers, FinishMatching(r) \/ FailMatching(r) PROVE Reconciling'
    <2>1. NotMatching \in Matching /\ NotMatching.pc = "idle" BY DEF NotMatching, Matching
    <2> QED BY <1>4, <2>1, LessKeeps DEF FinishMatching, FailMatching
  <1>5. CASE BankNext
    <2>1. CASE \E t \in Transactions : ImportTransaction(t) BY <1>1, <2>1
    <2>2. CASE ~\E t \in Transactions : ImportTransaction(t)
      <3> PICK r \in Matchers :
              \/ \E t \in Transactions : \/ \E e \in Entries : LoadToReconcile(r, t, e)
                                         \/ \E l \in Lines : CheckBoth(r, t, l)
              \/ FindUnreconciled(r) \/ MatchStep(r) \/ FailMatching(r)
        BY <1>5, <2>2 DEF BankNext
      <3>1. CASE MatchStep(r)
        BY <1>3, <1>4, <3>1, FindLineKeeps, CommitReconciledKeeps, CommitCheckedKeeps,
           PickBestKeeps, CommitMatchKeeps DEF MatchStep
      <3>2. CASE ~MatchStep(r)
        BY <1>4, <3>2, LoadToReconcileKeeps, CheckBothKeeps, FindUnreconciledKeeps
      <3> QED BY <3>1, <3>2
    <2> QED BY <2>1, <2>2
  <1> QED BY <1>2, <1>5

LEMMA AlwaysReconciling == BankSpec => []Reconciling
  <1>1. BankInit => Reconciling BY ReconcilingInit, MatchAssumption
  <1>2. Reconciling /\ [BankNext]_bankVars => Reconciling' BY ReconcilingNext, MatchAssumption
  <1> QED BY <1>1, <1>2, PTL DEF BankSpec

(* Transactions, lines and requests keep their types through every overlap *)
(* of the three ways to match.                                             *)
THEOREM BankTypeCorrect == BankSpec => []BankTypeOK
  <1>1. Reconciling => BankTypeOK BY DEF Reconciling
  <1> QED BY <1>1, AlwaysReconciling, PTL

(* For any transactions, lines and requests: a reconciled line has the     *)
(* entry of the transaction it was reconciled with, unless that was        *)
(* matched again by hand or was held by two requests.                      *)
THEOREM MarkedLinesAreMatched == BankSpec => []MarkedIsMatched
  <1>1. Reconciling => MarkedIsMatched BY DEF Reconciling
  <1> QED BY <1>1, AlwaysReconciling, PTL

(* For any transactions, lines and requests: an entry has a reconciled     *)
(* line for each of its transactions, unless a match by hand found no line *)
(* or two requests held one of them.                                       *)
THEOREM OwnLineForEach == BankSpec => []OwnLine
  <1>1. ASSUME Reconciling PROVE OwnLine
    <2> SUFFICES ASSUME NEW e \in Entries,
                        NEW ts, ts = {t \in Transactions : matched[t] = e},
                        NEW ls, ls = {l \in Lines : EntryOf[l] = e},
                        (ts \cup ls) \cap (shared \cup unlined) = {}
                 PROVE  Cardinality(ts) <= Cardinality(ls \cap reconciled)
      BY DEF OwnLine
    <2>1. \A t \in ts : \E l \in ls \cap reconciled : marks[l] = t
      <3> SUFFICES ASSUME NEW t \in ts PROVE \E l \in ls \cap reconciled : marks[l] = t
        OBVIOUS
      <3>1. t \in Transactions \ (shared \cup unlined) /\ matched[t] = e OBVIOUS
      <3>2. matched[t] # None BY <3>1, MatchAssumption DEF MatchAssumption
      <3>3. \A l \in Lines : EntryOf[l] = matched[t] => l \notin shared BY <3>1
      <3>4. \E l \in reconciled : EntryOf[l] = matched[t] /\ marks[l] = t
        BY <1>1, <3>1, <3>2, <3>3 DEF Reconciling, HasLine
      <3> QED BY <1>1, <3>1, <3>4 DEF Reconciling, BankTypeOK
    <2> DEFINE f == [t \in ts |-> CHOOSE l \in ls \cap reconciled : marks[l] = t]
    <2>2. \A t \in ts : f[t] \in ls \cap reconciled /\ marks[f[t]] = t BY <2>1
    <2>3. f \in [ts -> ls \cap reconciled] BY <2>2
    <2>4. \A t, u \in ts : f[t] = f[u] => t = u BY <2>2
    <2> HIDE DEF f
    <2>5. f \in Injection(ts, ls \cap reconciled) BY <2>3, <2>4 DEF Injection, IsInjective
    <2>6. IsFiniteSet(ls \cap reconciled)
      BY FS_Subset, MatchAssumption DEF MatchAssumption
    <2> QED BY <2>5, <2>6, FS_Injection
  <1> QED BY <1>1, AlwaysReconciling, PTL

----------------------------------------------------------------------------
(* Leave.                                                                  *)

(* The statuses of a request that has a leave to decide in memory.         *)
Deciding == {"find", "decide", "charge", "settle"}

(* The rows a request has in memory are in the table and have not changed  *)
(* their account.                                                          *)
Existing(r) ==
    LET q == req[r] IN
    /\ q.pc \in {"charge", "settle", "grant", "record"} => balances[q.balance] # NoRow
    /\ q.pc \in {"charge", "grant"} =>
          /\ q.row.account = balances[q.balance].account
          /\ q.row.year = balances[q.balance].year
    /\ q.pc = "open" => q.account \in Comp

LeaveTyped == TypeOK /\ \A r \in Requests : Existing(r)

(* Balances are not removed and keep what identifies them; leaves keep     *)
(* their days.                                                             *)
RowsStay ==
    /\ \A b \in Balances : balances[b] # NoRow =>
          /\ balances'[b] # NoRow
          /\ balances'[b].account = balances[b].account
          /\ balances'[b].year = balances[b].year
    /\ \A l \in Leaves : leaves'[l].days = leaves[l].days

(* Request r applies for leave l: it is pending, and who else has it or    *)
(* has approved it is noted.                                               *)
Resubmitted(r, l) ==
    /\ leaves'[l].status = "PENDING"
    /\ leaves[l].status = "APPROVED" => l \in reopened'
    /\ \A p \in Requests \ {r} : l \in Holds(p) => l \in raced'

(* What every step of request r does: it writes the rows it has in memory, *)
(* or a leave it applies for, and notes who else has those it reads.       *)
OwnStep(r) ==
    /\ req'[r] \in Request /\ \A p \in Requests \ {r} : req'[p] = req[p]
    /\ TypeOK' /\ RowsStay /\ Existing(r)'
    /\ raced \subseteq raced' /\ broken \subseteq broken' /\ contested \subseteq contested'
    /\ reopened \subseteq reopened' /\ uncharged \subseteq uncharged'
    /\ \A k \in Holds(r)' : \/ k \in Holds(r)
                            \/ \A p \in Requests \ {r} : k \in Holds(p) => k \in raced'
    /\ \A b \in Balances : balances[b] # NoRow /\ b \notin Holds(r) => balances'[b] = balances[b]
    /\ \A l \in Leaves : l \notin Holds(r) => leaves'[l] = leaves[l] \/ Resubmitted(r, l)
    /\ \A l \in Leaves : l \notin Holds(r) => charges'[l] = charges[l]

(* The fields of a row.                                                    *)
LEMMA LeaveRows ==
    /\ \A x \in BalanceRow : /\ x # NoRow /\ x.account \in Accounts /\ x.year \in Years
                             /\ x.total \in Nat /\ x.used \in Nat
    /\ \A x \in LeaveRow : x.account \in Accounts /\ x.days \in Nat /\ x.status \in LeaveStatus
  <1>1. \A x \in BalanceRow : /\ x.account \in Accounts /\ x.year \in Years
                              /\ x.total \in Nat /\ x.used \in Nat
    BY DEF BalanceRow
  <1>2. \A x \in LeaveRow : x.account \in Accounts /\ x.days \in Nat /\ x.status \in LeaveStatus
    BY DEF LeaveRow
  <1>3. NoRow \notin BalanceRow BY DEF NoRow, BalanceRow
  <1> QED BY <1>1, <1>2, <1>3

(* The fields of a request by its pc.                                      *)
LEMMA RequestFields ==
    ASSUME NEW q \in Request
    PROVE  /\ q.pc \in {"idle", "create", "open", "initialize", "submit", "grant", "record",
                        "find", "decide", "charge", "settle"}
           /\ q.pc = "idle" <=> q = Idle
           /\ q.pc \in {"create", "open", "initialize"} =>
                 q.account \in Accounts /\ q.year \in Years
           /\ q.pc = "open" => q.days \in Nat
           /\ q.pc \in {"create", "submit"} => q.leave \in Leaves
           /\ q.pc = "submit" => q.account \in Accounts
           /\ q.pc \in {"grant", "record"} =>
                 q.balance \in Balances /\ q.row \in BalanceRow /\ q.days \in Nat
           /\ q.pc \in Deciding => /\ q.leave \in Leaves /\ q.account \in Accounts
                                    /\ q.status \in LeaveStatus
           /\ q.pc \in {"charge", "settle"} => q.balance \in Balances /\ q.row \in BalanceRow
  <1>1. CASE q = Idle BY <1>1 DEF Idle, Deciding
  <1>2. CASE q \in [pc : {"create"}, account : Accounts, leave : Leaves, year : Years]
    BY <1>2 DEF Idle, Deciding
  <1>3. CASE q \in [pc : {"initialize"}, account : Accounts, year : Years]
    BY <1>3 DEF Idle, Deciding
  <1>4. CASE q \in [pc : {"submit"}, account : Accounts, leave : Leaves]
    BY <1>4 DEF Idle, Deciding
  <1>5. CASE q \in [pc : {"grant", "record"}, balance : Balances, row : BalanceRow, days : Nat]
    BY <1>5 DEF Idle, Deciding
  <1>6. CASE q \in [pc : {"find", "decide"}, leave : Leaves, account : Accounts,
                    status : LeaveStatus]
    BY <1>6 DEF Idle, Deciding
  <1>7. CASE q \in [pc : {"charge", "settle"}, leave : Leaves, account : Accounts,
                    status : LeaveStatus, balance : Balances, row : BalanceRow]
    BY <1>7 DEF Idle, Deciding
  <1>8. CASE q \in [pc : {"open"}, account : Accounts, days : Nat, year : Years]
    BY <1>8 DEF Idle, Deciding
  <1> QED BY <1>1, <1>2, <1>3, <1>4, <1>5, <1>6, <1>7, <1>8 DEF Request

(* The requests that actions make of others.                               *)
LEMMA RequestMade ==
    /\ Idle \in Request /\ Idle.pc = "idle"
    /\ \A q \in Request : q.pc = "find" =>
          LET new == [q EXCEPT !.pc = "decide"] IN
          /\ new \in Request
          /\ new.pc = "decide" /\ new.leave = q.leave /\ new.status = q.status
    /\ \A q \in Request : q.pc = "charge" =>
          LET new == [q EXCEPT !.pc = "settle"] IN
          /\ new \in Request
          /\ new.pc = "settle" /\ new.leave = q.leave /\ new.status = q.status
          /\ new.balance = q.balance
    /\ \A q \in Request : q.pc = "grant" =>
          LET new == [q EXCEPT !.pc = "record"] IN
          /\ new \in Request
          /\ new.pc = "record" /\ new.balance = q.balance /\ new.days = q.days
  <1>1. Idle \in Request /\ Idle.pc = "idle" BY DEF Idle, Request
  <1>2. \A q \in Request : q.pc = "find" =>
           q \in [pc : {"find", "decide"}, leave : Leaves, account : Accounts,
                  status : LeaveStatus]
    BY DEF Request, Idle
  <1>3. \A q \in [pc : {"find", "decide"}, leave : Leaves, account : Accounts,
                  status : LeaveStatus] :
           LET new == [q EXCEPT !.pc = "decide"] IN
           /\ new \in [pc : {"find", "decide"}, leave : Leaves, account : Accounts,
                       status : LeaveStatus]
           /\ new.pc = "decide" /\ new.leave = q.leave /\ new.status = q.status
    OBVIOUS
  <1>4. \A q \in Request : q.pc = "charge" =>
           q \in [pc : {"charge", "settle"}, leave : Leaves, account : Accounts,
                  status : LeaveStatus, balance : Balances, row : BalanceRow]
    BY DEF Request, Idle
  <1>5. \A q \in [pc : {"charge", "settle"}, leave : Leaves, account : Accounts,
                  status : LeaveStatus, balance : Balances, row : BalanceRow] :
           LET new == [q EXCEPT !.pc = "settle"] IN
           /\ new \in [pc : {"charge", "settle"}, leave : Leaves, account : Accounts,
                       status : LeaveStatus, balance : Balances, row : BalanceRow]
           /\ new.pc = "settle" /\ new.leave = q.leave /\ new.status = q.status
           /\ new.balance = q.balance
    OBVIOUS
  <1>6. \A q \in Request : q.pc = "grant" =>
           q \in [pc : {"grant", "record"}, balance : Balances, row : BalanceRow, days : Nat]
    BY DEF Request, Idle
  <1>7. \A q \in [pc : {"grant", "record"}, balance : Balances, row : BalanceRow, days : Nat] :
           LET new == [q EXCEPT !.pc = "record"] IN
           /\ new \in [pc : {"grant", "record"}, balance : Balances, row : BalanceRow, days : Nat]
           /\ new.pc = "record" /\ new.balance = q.balance /\ new.days = q.days
    OBVIOUS
  <1> QED BY <1>1, <1>2, <1>3, <1>4, <1>5, <1>6, <1>7 DEF Request

(* A step that saves no row.                                               *)
LEMMA ReadStep ==
    ASSUME LeaveTyped, NEW r \in Requests, NEW new \in Request,
           req' = [req EXCEPT ![r] = new],
           UNCHANGED <<table, charges, taken>>,
           calls' \in Nat,
           raced \subseteq raced', raced' \subseteq Balances \cup Leaves,
           broken \subseteq broken', broken' \subseteq Balances \cup Leaves,
           contested \subseteq contested', contested' \subseteq Accounts \X Years,
           reopened \subseteq reopened', reopened' \subseteq Leaves,
           uncharged \subseteq uncharged', uncharged' \subseteq Leaves,
           req'[r] = new => Existing(r)',
           req'[r] = new =>
              \A k \in Holds(r)' : \/ k \in Holds(r)
                                   \/ \A p \in Requests \ {r} : k \in Holds(p) => k \in raced'
    PROVE  OwnStep(r)
  <1>1. /\ req'[r] = new /\ \A p \in Requests \ {r} : req'[p] = req[p]
        /\ req' \in [Requests -> Request]
    BY DEF LeaveTyped, TypeOK
  <1>2. UNCHANGED <<balances, leaves, granted, year>> BY DEF table
  <1>3. TypeOK' BY <1>1, <1>2 DEF LeaveTyped, TypeOK
  <1>4. RowsStay BY <1>2 DEF RowsStay
  <1> QED BY <1>1, <1>2, <1>3, <1>4 DEF OwnStep

(* A request that starts and has no row in memory that it may save.        *)
LEMMA BeginStep ==
    ASSUME LeaveTyped, NEW r \in Requests, NEW new \in Request, Begin(r, new),
           raced \subseteq raced', raced' \subseteq Balances \cup Leaves,
           contested \subseteq contested', contested' \subseteq Accounts \X Years,
           reopened \subseteq reopened', reopened' \subseteq Leaves,
           req'[r] = new => Existing(r)',
           req'[r] = new =>
              \A k \in Holds(r)' : \A p \in Requests \ {r} : k \in Holds(p) => k \in raced'
    PROVE  OwnStep(r)
  <1>1. /\ req' = [req EXCEPT ![r] = new] /\ calls' = calls + 1
        /\ UNCHANGED <<table, broken, charges, taken, uncharged>>
    BY DEF Begin
  <1>2. /\ calls' \in Nat /\ broken \subseteq Balances \cup Leaves
        /\ uncharged \subseteq Leaves
    BY <1>1 DEF LeaveTyped, TypeOK
  <1> QED BY <1>1, <1>2, ReadStep

(* Each action of a request is an OwnStep.                                 *)
LEMMA FindToApplyOwn ==
    ASSUME LeaveAssumption, LeaveTyped, NEW r \in Requests, NEW a \in Accounts, NEW l \in Leaves,
           NEW b \in Balances, FindToApply(r, a, l, b)
    PROVE  OwnStep(r)
  <1> DEFINE new == [pc |-> "submit", account |-> a, leave |-> l]
  <1>1. new \in Request BY DEF Request
  <1>2. Begin(r, new) /\ UNCHANGED <<raced, contested, reopened>> BY DEF FindToApply
  <1>3. new.pc = "submit" OBVIOUS
  <1> HIDE DEF new
  <1>4. req'[r] = new => Existing(r)' BY <1>3 DEF Existing
  <1>5. req'[r] = new => Holds(r)' = {} BY <1>3 DEF Holds
  <1>6. /\ raced \subseteq Balances \cup Leaves /\ contested \subseteq Accounts \X Years
        /\ reopened \subseteq Leaves
    BY DEF LeaveTyped, TypeOK
  <1> QED BY <1>1, <1>2, <1>4, <1>5, <1>6, BeginStep

(* A request that is about to insert a balance.                            *)
LEMMA OpenStep ==
    ASSUME LeaveTyped, NEW r \in Requests, NEW a \in Accounts, NEW new \in Request,
           new.pc \in {"create", "open", "initialize"}, new.pc = "open" => new.account \in Comp,
           Open(r, a, new)
    PROVE  OwnStep(r)
  <1>1. Begin(r, new) /\ UNCHANGED <<raced, reopened>> BY DEF Open
  <1>2. contested \subseteq contested' /\ contested' \subseteq Accounts \X Years
    BY DEF Open, LeaveTyped, TypeOK
  <1>3. raced \subseteq Balances \cup Leaves /\ reopened \subseteq Leaves
    BY DEF LeaveTyped, TypeOK
  <1>4. req'[r] = new => Existing(r)' BY DEF Existing, Deciding
  <1>5. req'[r] = new => Holds(r)' = {} BY DEF Holds
  <1> QED BY <1>1, <1>2, <1>3, <1>4, <1>5, BeginStep

LEMMA FindNoneOwn ==
    ASSUME LeaveAssumption, LeaveTyped, NEW r \in Requests, NEW a \in Accounts,
           \/ \E l \in Leaves : FindNoneToApply(r, a, l)
           \/ FindNoneToInitialize(r, a)
           \/ a \in Comp /\ \E n \in Days : FindNoneToGrant(r, a, n)
    PROVE  OwnStep(r)
  <1>1. year \in Years BY DEF LeaveTyped, TypeOK
  <1>2. ASSUME NEW l \in Leaves, FindNoneToApply(r, a, l) PROVE OwnStep(r)
    <2> DEFINE new == [pc |-> "create", account |-> a, leave |-> l, year |-> year]
    <2>1. new \in Request BY <1>1 DEF Request
    <2>2. Open(r, a, new) BY <1>2 DEF FindNoneToApply, FindNone
    <2>3. new.pc = "create" OBVIOUS
    <2> HIDE DEF new
    <2> QED BY <2>1, <2>2, <2>3, OpenStep
  <1>3. ASSUME FindNoneToInitialize(r, a) PROVE OwnStep(r)
    <2> DEFINE new == [pc |-> "initialize", account |-> a, year |-> year]
    <2>1. new \in Request BY <1>1 DEF Request
    <2>2. Open(r, a, new) BY <1>3 DEF FindNoneToInitialize, FindNone
    <2>3. new.pc = "initialize" OBVIOUS
    <2> HIDE DEF new
    <2> QED BY <2>1, <2>2, <2>3, OpenStep
  <1>4. ASSUME a \in Comp, NEW n \in Days, FindNoneToGrant(r, a, n) PROVE OwnStep(r)
    <2> DEFINE new == [pc |-> "open", account |-> a, days |-> n, year |-> year]
    <2>1. n \in Nat BY DEF LeaveAssumption
    <2>2. new \in Request BY <1>1, <2>1 DEF Request
    <2>3. Open(r, a, new) BY <1>4 DEF FindNoneToGrant, FindNone
    <2>4. new.pc = "open" /\ new.account \in Comp BY <1>4
    <2> HIDE DEF new
    <2> QED BY <2>2, <2>3, <2>4, OpenStep
  <1> QED BY <1>2, <1>3, <1>4

LEMMA LoadToDecideOwn ==
    ASSUME LeaveAssumption, LeaveTyped, NEW r \in Requests, NEW l \in Leaves, NEW s \in Decisions,
           LoadToDecide(r, l, s)
    PROVE  OwnStep(r)
  <1> DEFINE new == [pc |-> IF Deducts(s) THEN "find" ELSE "decide",
                     leave |-> l, account |-> leaves[l].account, status |-> s]
  <1>1. s \in LeaveStatus /\ leaves[l].account \in Accounts
    BY LeaveRows DEF LeaveAssumption, LeaveTyped, TypeOK
  <1>2. new \in Request BY <1>1 DEF Request
  <1>3. new.pc \in {"find", "decide"} /\ new.leave = l OBVIOUS
  <1>4. Begin(r, new) BY DEF LoadToDecide
  <1> HIDE DEF new
  <1>6. raced' = raced \cup {k \in {l} : \E p \in Requests \ {r} : k \in Holds(p)}
    BY DEF LoadToDecide, Raced
  <1>7. reopened \subseteq reopened' /\ reopened' \subseteq Leaves
    BY DEF LoadToDecide, Reopened, LeaveTyped, TypeOK
  <1>8. UNCHANGED contested /\ contested \subseteq Accounts \X Years
    BY DEF LoadToDecide, LeaveTyped, TypeOK
  <1>9. raced' \subseteq Balances \cup Leaves BY <1>6 DEF LeaveTyped, TypeOK
  <1>10. req'[r] = new => Existing(r)' BY <1>3 DEF Existing
  <1>11. req'[r] = new => Holds(r)' = {l} BY <1>3 DEF Holds
  <1> QED BY <1>2, <1>4, <1>6, <1>7, <1>8, <1>9, <1>10, <1>11, BeginStep

LEMMA FindToGrantOwn ==
    ASSUME LeaveAssumption, LeaveTyped, NEW r \in Requests, NEW a \in Accounts, NEW n \in Days,
           NEW b \in Balances, FindToGrant(r, a, n, b)
    PROVE  OwnStep(r)
  <1> DEFINE new == [pc |-> "grant", balance |-> b, row |-> balances[b], days |-> n]
  <1>1. balances[b] # NoRow /\ balances[b] \in BalanceRow
    BY DEF FindToGrant, Found, LeaveTyped, TypeOK
  <1>2. n \in Nat BY DEF LeaveAssumption
  <1>3. new \in Request BY <1>1, <1>2 DEF Request
  <1>4. Begin(r, new) /\ UNCHANGED <<contested, reopened>> BY DEF FindToGrant
  <1>5. UNCHANGED balances BY <1>4 DEF Begin, table
  <1>6. new.pc = "grant" /\ new.balance = b /\ new.row = balances[b] OBVIOUS
  <1> HIDE DEF new
  <1>7. req'[r] = new => Existing(r)' BY <1>1, <1>5, <1>6 DEF Existing, Deciding
  <1>8. req'[r] = new => Holds(r)' = {b} BY <1>6 DEF Holds
  <1>9. raced' = raced \cup {k \in {b} : \E p \in Requests \ {r} : k \in Holds(p)}
    BY DEF FindToGrant, Raced
  <1>10. /\ raced' \subseteq Balances \cup Leaves /\ contested \subseteq Accounts \X Years
         /\ reopened \subseteq Leaves
    BY <1>9 DEF LeaveTyped, TypeOK
  <1> QED BY <1>3, <1>4, <1>7, <1>8, <1>9, <1>10, BeginStep

LEMMA FindToChargeOwn ==
    ASSUME LeaveTyped, NEW r \in Requests, NEW b \in Balances, FindToCharge(r, b)
    PROVE  OwnStep(r)
  <1> DEFINE q == req[r]
             new == [pc |-> "charge", leave |-> q.leave, account |-> q.account,
                     status |-> q.status, balance |-> b, row |-> balances[b]]
  <1>1. q \in Request /\ q.pc = "find" BY DEF FindToCharge, LeaveTyped, TypeOK
  <1>2. q.leave \in Leaves /\ q.account \in Accounts /\ q.status \in LeaveStatus
    BY <1>1, RequestFields DEF Deciding
  <1>3. balances[b] # NoRow /\ balances[b] \in BalanceRow
    BY DEF FindToCharge, Found, LeaveTyped, TypeOK
  <1>5. new \in Request BY <1>2, <1>3 DEF Request
  <1>6. /\ req' = [req EXCEPT ![r] = new] /\ raced' = Raced(r, {b})
        /\ UNCHANGED <<table, calls, contested, broken, charges, taken, reopened,
                       uncharged>>
    BY DEF FindToCharge
  <1>7. UNCHANGED balances BY <1>6 DEF table
  <1>8. /\ new.pc = "charge" /\ new.leave = q.leave
        /\ new.balance = b /\ new.row = balances[b]
    OBVIOUS
  <1>9. q.leave \in Holds(r) BY <1>1 DEF Holds
  <1> HIDE DEF new
  <1>10. req'[r] = new => Existing(r)'
    BY <1>3, <1>7, <1>8 DEF Existing
  <1>11. req'[r] = new => Holds(r)' = {q.leave, b} BY <1>8 DEF Holds
  <1>12. raced' = raced \cup {k \in {b} : \E p \in Requests \ {r} : k \in Holds(p)}
    BY <1>6 DEF Raced
  <1>13. /\ raced' \subseteq Balances \cup Leaves /\ contested \subseteq Accounts \X Years
         /\ broken \subseteq Balances \cup Leaves /\ reopened \subseteq Leaves
         /\ uncharged \subseteq Leaves /\ calls \in Nat
    BY <1>12 DEF LeaveTyped, TypeOK
  <1>14. req'[r] = new =>
            \A k \in Holds(r)' : \/ k \in Holds(r)
                                 \/ \A p \in Requests \ {r} : k \in Holds(p) => k \in raced'
    BY <1>9, <1>11, <1>12
  <1> HIDE DEF q
  <1> QED BY <1>5, <1>6, <1>10, <1>12, <1>13, <1>14, ReadStep

LEMMA FindNoneToChargeOwn ==
    ASSUME LeaveTyped, NEW r \in Requests, FindNoneToCharge(r)
    PROVE  OwnStep(r)
  <1> DEFINE q == req[r]
             new == [q EXCEPT !.pc = "decide"]
  <1>1. q \in Request /\ q.pc = "find" BY DEF FindNoneToCharge, LeaveTyped, TypeOK
  <1>2. q.leave \in Leaves BY <1>1, RequestFields DEF Deciding
  <1>4. new \in Request /\ new.pc = "decide" /\ new.leave = q.leave BY <1>1, RequestMade
  <1>5. /\ req' = [req EXCEPT ![r] = new] /\ uncharged' = uncharged \cup {q.leave}
        /\ UNCHANGED <<table, calls, raced, contested, broken, charges, taken, reopened>>
    BY DEF FindNoneToCharge
  <1>7. q.leave \in Holds(r) BY <1>1 DEF Holds
  <1> HIDE DEF new
  <1>8. req'[r] = new => Existing(r)' BY <1>4 DEF Existing
  <1>9. req'[r] = new => Holds(r)' = {q.leave} BY <1>4 DEF Holds
  <1>10. /\ raced \subseteq Balances \cup Leaves /\ contested \subseteq Accounts \X Years
         /\ broken \subseteq Balances \cup Leaves /\ reopened \subseteq Leaves
         /\ uncharged' \subseteq Leaves /\ calls \in Nat
    BY <1>2, <1>5 DEF LeaveTyped, TypeOK
  <1> HIDE DEF q
  <1> QED BY <1>4, <1>5, <1>7, <1>8, <1>9, <1>10, ReadStep

LEMMA FailOwn ==
    ASSUME LeaveTyped, NEW r \in Requests, Fail(r)
    PROVE  OwnStep(r)
  <1> DEFINE q == req[r]
  <1>1. q \in Request BY DEF LeaveTyped, TypeOK
  <1>2. /\ req' = [req EXCEPT ![r] = Idle]
        /\ UNCHANGED <<table, calls, raced, contested, charges, taken, reopened,
                       uncharged>>
    BY DEF Fail
  <1>3. broken' = broken \cup CASE q.pc = "settle" -> {q.leave}
                                [] q.pc = "record" -> {q.balance}
                                [] OTHER           -> {}
    BY DEF Fail
  <1>4. broken \subseteq broken' /\ broken' \subseteq Balances \cup Leaves
    <2>1. broken \subseteq Balances \cup Leaves BY DEF LeaveTyped, TypeOK
    <2>2. q.pc = "settle" => q.leave \in Leaves BY <1>1, RequestFields DEF Deciding
    <2>3. q.pc = "record" => q.balance \in Balances BY <1>1, RequestFields
    <2> QED BY <1>3, <2>1, <2>2, <2>3
  <1>5. Idle \in Request /\ Idle.pc = "idle" BY RequestMade
  <1>6. req'[r] = Idle => Existing(r)' BY <1>5 DEF Existing, Deciding
  <1>7. req'[r] = Idle => Holds(r)' = {} BY <1>5 DEF Holds
  <1>8. /\ raced \subseteq Balances \cup Leaves /\ contested \subseteq Accounts \X Years
        /\ reopened \subseteq Leaves /\ uncharged \subseteq Leaves /\ calls \in Nat
    BY DEF LeaveTyped, TypeOK
  <1> HIDE DEF q
  <1> QED BY <1>2, <1>4, <1>5, <1>6, <1>7, <1>8, ReadStep

(* A balance is inserted; the request goes on without a row it may save.   *)
LEMMA InsertStep ==
    ASSUME LeaveTyped, NEW r \in Requests, NEW new \in Request,
           NEW b \in Balances, NEW a \in Accounts, NEW looked, NEW total \in Nat,
           Insert(b, a, looked, total),
           req' = [req EXCEPT ![r] = new], new.pc \in {"idle", "submit", "record"},
           new.pc = "record" => new.balance = b,
           UNCHANGED <<leaves, granted, year, calls, raced, broken, charges, taken,
                       reopened, uncharged>>
    PROVE  OwnStep(r)
  <1> DEFINE row == [account |-> a, year |-> year, total |-> total, used |-> 0]
  <1>1. row \in BalanceRow /\ row # NoRow
    BY LeaveRows DEF BalanceRow, LeaveTyped, TypeOK
  <1>2. /\ balances[b] = NoRow /\ balances' = [balances EXCEPT ![b] = row]
        /\ contested \subseteq contested' /\ contested' \subseteq Accounts \X Years
    BY DEF Insert, LeaveTyped, TypeOK
  <1> HIDE DEF row
  <1>3. /\ balances' \in [Balances -> BalanceRow \cup {NoRow}] /\ balances'[b] = row
        /\ \A c \in Balances : c # b => balances'[c] = balances[c]
    BY <1>1, <1>2 DEF LeaveTyped, TypeOK
  <1>4. /\ req'[r] = new /\ \A p \in Requests \ {r} : req'[p] = req[p]
        /\ req' \in [Requests -> Request]
    BY DEF LeaveTyped, TypeOK
  <1>5. TypeOK' BY <1>2, <1>3, <1>4 DEF LeaveTyped, TypeOK
  <1>6. RowsStay BY <1>2, <1>3 DEF RowsStay
  <1>7. Existing(r)' BY <1>1, <1>3, <1>4 DEF Existing, Deciding
  <1>8. Holds(r)' = {} BY <1>4 DEF Holds
  <1> QED BY <1>2, <1>3, <1>4, <1>5, <1>6, <1>7, <1>8 DEF OwnStep

LEMMA CreateOwn ==
    ASSUME LeaveAssumption, LeaveTyped, NEW r \in Requests, NEW b \in Balances,
           CreateToApply(r, b) \/ CreateToInitialize(r, b) \/ OpenToGrant(r, b)
    PROVE  OwnStep(r)
  <1> DEFINE q == req[r]
  <1>1. q \in Request BY DEF LeaveTyped, TypeOK
  <1>2. CASE CreateToApply(r, b)
    <2>1. q.account \in Accounts /\ q.leave \in Leaves
      BY <1>1, <1>2, RequestFields DEF CreateToApply
    <2>2. Quota[q.account] \in Nat BY <2>1 DEF LeaveAssumption
    <2> DEFINE submit == [pc |-> "submit", account |-> q.account, leave |-> q.leave]
    <2>3. submit \in Request BY <2>1 DEF Request
    <2>4. submit.pc = "submit" OBVIOUS
    <2>5. /\ Insert(b, q.account, q.year, Quota[q.account])
          /\ req' = [req EXCEPT ![r] = submit]
          /\ UNCHANGED <<leaves, granted, year, calls, raced, broken, charges, taken,
                         reopened, uncharged>>
      BY <1>2 DEF CreateToApply
    <2> HIDE DEF submit, q
    <2> QED BY <2>1, <2>2, <2>3, <2>4, <2>5, InsertStep
  <1>3. CASE CreateToInitialize(r, b)
    <2>1. q.account \in Accounts BY <1>1, <1>3, RequestFields DEF CreateToInitialize
    <2>2. Quota[q.account] \in Nat BY <2>1 DEF LeaveAssumption
    <2>3. /\ Insert(b, q.account, q.year, Quota[q.account]) /\ req' = [req EXCEPT ![r] = Idle]
          /\ UNCHANGED <<leaves, granted, year, calls, raced, broken, charges, taken,
                         reopened, uncharged>>
      BY <1>3 DEF CreateToInitialize
    <2>4. Idle \in Request /\ Idle.pc = "idle" BY RequestMade
    <2> HIDE DEF q
    <2> QED BY <2>1, <2>2, <2>3, <2>4, InsertStep
  <1>4. CASE OpenToGrant(r, b)
    <2>1. q.account \in Accounts /\ q.days \in Nat
      BY <1>1, <1>4, RequestFields DEF OpenToGrant
    <2> DEFINE new == [pc |-> "record", balance |-> b, row |-> balances'[b], days |-> q.days]
    <2>2. balances'[b] \in BalanceRow
      BY <1>4, <2>1 DEF OpenToGrant, Insert, BalanceRow, LeaveTyped, TypeOK
    <2>3. new \in Request BY <2>1, <2>2 DEF Request
    <2>4. new.pc = "record" /\ new.balance = b OBVIOUS
    <2>5. /\ Insert(b, q.account, q.year, q.days) /\ req' = [req EXCEPT ![r] = new]
          /\ UNCHANGED <<leaves, granted, year, calls, raced, broken, charges, taken,
                         reopened, uncharged>>
      BY <1>4 DEF OpenToGrant
    <2> HIDE DEF new, q
    <2> QED BY <2>1, <2>3, <2>4, <2>5, InsertStep
  <1> QED BY <1>2, <1>3, <1>4

(* A leave row with another account and status.                            *)
LEMMA SavedLeave ==
    ASSUME NEW row \in LeaveRow, NEW a \in Accounts, NEW s \in LeaveStatus
    PROVE  /\ Rewritten(row, a, s) \in LeaveRow
           /\ Rewritten(row, a, s).status = s /\ Rewritten(row, a, s).days = row.days
  <1>1. row.days \in Nat BY LeaveRows
  <1> QED BY <1>1 DEF Rewritten, LeaveRow

LEMMA SubmitOwn ==
    ASSUME LeaveTyped, NEW r \in Requests, Submit(r)
    PROVE  OwnStep(r)
  <1> DEFINE q == req[r]
             l == q.leave
             row == Rewritten(leaves[l], q.account, "PENDING")
  <1>1. q \in Request /\ q.pc = "submit" BY DEF Submit, LeaveTyped, TypeOK
  <1>2. l \in Leaves /\ q.account \in Accounts BY <1>1, RequestFields
  <1>3. leaves[l] \in LeaveRow /\ "PENDING" \in LeaveStatus
    BY <1>2 DEF LeaveTyped, TypeOK, LeaveStatus
  <1>4. row \in LeaveRow /\ row.status = "PENDING" /\ row.days = leaves[l].days
    BY <1>2, <1>3, SavedLeave
  <1>5. /\ leaves' = [leaves EXCEPT ![l] = row] /\ req' = [req EXCEPT ![r] = Idle]
        /\ raced' = raced \cup {k \in {l} : \E p \in Requests \ {r} : k \in Holds(p)}
        /\ reopened' = IF leaves[l].status = "APPROVED" THEN reopened \cup {l} ELSE reopened
        /\ UNCHANGED <<balances, granted, year, calls, contested, broken, charges, taken,
                       uncharged>>
    BY DEF Submit, Raced, Reopened
  <1> HIDE DEF q, l, row
  <1>6. /\ leaves' \in [Leaves -> LeaveRow] /\ leaves'[l] = row
        /\ \A m \in Leaves : m # l => leaves'[m] = leaves[m]
    BY <1>2, <1>4, <1>5 DEF LeaveTyped, TypeOK
  <1>7. Idle \in Request /\ Idle.pc = "idle" BY RequestMade
  <1>8. /\ req'[r] = Idle /\ \A p \in Requests \ {r} : req'[p] = req[p]
        /\ req' \in [Requests -> Request]
    BY <1>5, <1>7 DEF LeaveTyped, TypeOK
  <1>9. /\ raced \subseteq raced' /\ raced' \subseteq Balances \cup Leaves
        /\ reopened \subseteq reopened' /\ reopened' \subseteq Leaves
    BY <1>2, <1>5 DEF LeaveTyped, TypeOK
  <1>10. TypeOK' BY <1>5, <1>6, <1>8, <1>9 DEF LeaveTyped, TypeOK
  <1>11. RowsStay BY <1>4, <1>5, <1>6 DEF RowsStay
  <1>12. Existing(r)' BY <1>7, <1>8 DEF Existing
  <1>13. Holds(r)' = {} BY <1>7, <1>8 DEF Holds
  <1>14. Resubmitted(r, l) BY <1>4, <1>5, <1>6 DEF Resubmitted
  <1> QED BY <1>5, <1>6, <1>7, <1>8, <1>9, <1>10, <1>11, <1>12, <1>13, <1>14 DEF OwnStep

(* A balance is saved as it was read, with other days.                     *)
LEMMA SaveBalanceStep ==
    ASSUME LeaveTyped, NEW r \in Requests, NEW new \in Request, NEW b \in Balances,
           NEW row \in BalanceRow,
           balances' = [balances EXCEPT ![b] = row],
           b \in Holds(r), balances[b] # NoRow,
           row.account = balances[b].account, row.year = balances[b].year,
           req' = [req EXCEPT ![r] = new],
           new.pc \in {"settle", "record"}, new.balance = b,
           new.pc = "settle" => new.leave \in Holds(r),
           UNCHANGED <<leaves, granted, year, calls, raced, contested, broken, reopened,
                       uncharged>>,
           charges' \in [Leaves -> Nat], taken' \in [Balances -> Nat],
           \A l \in Leaves : l \notin Holds(r) => charges'[l] = charges[l]
    PROVE  OwnStep(r)
  <1>1. /\ balances' \in [Balances -> BalanceRow \cup {NoRow}] /\ balances'[b] = row
        /\ \A c \in Balances : c # b => balances'[c] = balances[c]
    BY DEF LeaveTyped, TypeOK
  <1>2. row # NoRow BY LeaveRows
  <1>3. /\ req'[r] = new /\ \A p \in Requests \ {r} : req'[p] = req[p]
        /\ req' \in [Requests -> Request]
    BY DEF LeaveTyped, TypeOK
  <1>4. TypeOK' BY <1>1, <1>3 DEF LeaveTyped, TypeOK
  <1>5. RowsStay BY <1>1, <1>2 DEF RowsStay
  <1>6. Existing(r)' BY <1>1, <1>2, <1>3 DEF Existing, Deciding
  <1>7. \A k \in Holds(r)' : k \in Holds(r) BY <1>3 DEF Holds
  <1> QED BY <1>1, <1>3, <1>4, <1>5, <1>6, <1>7 DEF OwnStep

(* What a save adds to the row it has read.                                *)
LEMMA SavedRows ==
    ASSUME NEW row \in BalanceRow, NEW n \in Nat
    PROVE  /\ Charged(row, n) \in BalanceRow /\ Raised(row, n) \in BalanceRow
           /\ Charged(row, n).account = row.account /\ Charged(row, n).year = row.year
           /\ Charged(row, n).used = row.used + n /\ Charged(row, n).total = row.total
           /\ Raised(row, n).account = row.account /\ Raised(row, n).year = row.year
           /\ Raised(row, n).used = row.used /\ Raised(row, n).total = row.total + n
  <1> PICK a \in Accounts, y \in Years, t \in Nat, u \in Nat :
             row = [account |-> a, year |-> y, total |-> t, used |-> u]
    BY DEF BalanceRow
  <1>1. Charged(row, n) = [account |-> a, year |-> y, total |-> t, used |-> u + n]
    BY DEF Charged
  <1>2. Raised(row, n) = [account |-> a, year |-> y, total |-> t + n, used |-> u]
    BY DEF Raised
  <1> QED BY <1>1, <1>2 DEF BalanceRow

(* What saving a charged balance does.                                     *)
LEMMA SaveChargedFields ==
    ASSUME LeaveTyped, NEW r \in Requests, SaveCharged(r)
    PROVE  LET q == req[r]
               n == leaves[q.leave].days
               new == [q EXCEPT !.pc = "settle"]
           IN  /\ q \in Request /\ q.pc = "charge" /\ n \in Nat
               /\ q.leave \in Leaves /\ q.balance \in Balances /\ q.row \in BalanceRow
               /\ balances[q.balance] # NoRow
               /\ q.row.account = balances[q.balance].account
               /\ q.row.year = balances[q.balance].year
               /\ balances' = [balances EXCEPT ![q.balance] = Charged(q.row, n)]
               /\ new \in Request /\ new.pc = "settle" /\ new.leave = q.leave
               /\ new.status = q.status /\ new.balance = q.balance
               /\ req' = [req EXCEPT ![r] = new]
               /\ charges' = [charges EXCEPT ![q.leave] = charges[q.leave] + 1]
               /\ taken' = [taken EXCEPT ![q.balance] = taken[q.balance] + n]
               /\ UNCHANGED <<leaves, granted, year, calls, raced, contested, broken, reopened, uncharged>>
  <1> DEFINE q == req[r]
  <1>1. q \in Request /\ q.pc = "charge" BY DEF SaveCharged, LeaveTyped, TypeOK
  <1>2. q.leave \in Leaves /\ q.balance \in Balances /\ q.row \in BalanceRow
    BY <1>1, RequestFields DEF Deciding
  <1>3. /\ balances[q.balance] # NoRow
        /\ q.row.account = balances[q.balance].account
        /\ q.row.year = balances[q.balance].year
    BY <1>1 DEF LeaveTyped, Existing
  <1>4. leaves[q.leave].days \in Nat BY <1>2, LeaveRows DEF LeaveTyped, TypeOK
  <1>5. /\ [q EXCEPT !.pc = "settle"] \in Request
        /\ [q EXCEPT !.pc = "settle"].pc = "settle"
        /\ [q EXCEPT !.pc = "settle"].leave = q.leave
        /\ [q EXCEPT !.pc = "settle"].status = q.status
        /\ [q EXCEPT !.pc = "settle"].balance = q.balance
    BY <1>1, RequestMade
  <1>6. /\ balances' = [balances EXCEPT ![q.balance] = Charged(q.row, leaves[q.leave].days)]
        /\ req' = [req EXCEPT ![r] = [q EXCEPT !.pc = "settle"]]
        /\ charges' = [charges EXCEPT ![q.leave] = charges[q.leave] + 1]
        /\ taken' = [taken EXCEPT ![q.balance] = taken[q.balance] + leaves[q.leave].days]
        /\ UNCHANGED <<leaves, granted, year, calls, raced, contested, broken, reopened, uncharged>>
    BY DEF SaveCharged
  <1> QED BY <1>1, <1>2, <1>3, <1>4, <1>5, <1>6

LEMMA SaveChargedOwn ==
    ASSUME LeaveTyped, NEW r \in Requests, SaveCharged(r)
    PROVE  OwnStep(r)
  <1> DEFINE q == req[r]
             n == leaves[q.leave].days
             new == [q EXCEPT !.pc = "settle"]
             row == Charged(q.row, n)
  <1>1. /\ q.pc = "charge" /\ q.leave \in Leaves /\ q.balance \in Balances
        /\ n \in Nat /\ q.row \in BalanceRow
        /\ balances[q.balance] # NoRow
        /\ q.row.account = balances[q.balance].account
        /\ q.row.year = balances[q.balance].year
        /\ balances' = [balances EXCEPT ![q.balance] = row]
        /\ new \in Request /\ new.pc = "settle" /\ new.leave = q.leave
        /\ new.balance = q.balance
        /\ req' = [req EXCEPT ![r] = new]
        /\ UNCHANGED <<leaves, granted, year, calls, raced, contested, broken, reopened, uncharged>>
    BY SaveChargedFields
  <1>2. /\ charges' = [charges EXCEPT ![q.leave] = charges[q.leave] + 1]
        /\ taken' = [taken EXCEPT ![q.balance] = taken[q.balance] + n]
    BY SaveChargedFields
  <1>3. q.leave \in Holds(r) /\ q.balance \in Holds(r) BY <1>1 DEF Holds
  <1>4. row \in BalanceRow /\ row.account = q.row.account /\ row.year = q.row.year
    BY <1>1, SavedRows
  <1> HIDE DEF q, n, new, row
  <1>5. /\ charges' \in [Leaves -> Nat] /\ taken' \in [Balances -> Nat]
        /\ \A l \in Leaves : l \notin Holds(r) => charges'[l] = charges[l]
    BY <1>1, <1>2, <1>3 DEF LeaveTyped, TypeOK
  <1> QED BY <1>1, <1>3, <1>4, <1>5, SaveBalanceStep

(* What saving a raised balance does.                                      *)
LEMMA SaveRaisedFields ==
    ASSUME LeaveTyped, NEW r \in Requests, SaveRaised(r)
    PROVE  LET q == req[r]
               new == [q EXCEPT !.pc = "record"]
           IN  /\ q \in Request /\ q.pc = "grant" /\ q.days \in Nat
               /\ q.balance \in Balances /\ q.row \in BalanceRow
               /\ balances[q.balance] # NoRow
               /\ q.row.account = balances[q.balance].account
               /\ q.row.year = balances[q.balance].year
               /\ balances' = [balances EXCEPT ![q.balance] = Raised(q.row, q.days)]
               /\ new \in Request /\ new.pc = "record"
               /\ new.days = q.days /\ new.balance = q.balance
               /\ req' = [req EXCEPT ![r] = new]
               /\ UNCHANGED <<leaves, granted, year, calls, raced, contested, broken, charges, taken, reopened, uncharged>>
  <1> DEFINE q == req[r]
  <1>1. q \in Request /\ q.pc = "grant" BY DEF SaveRaised, LeaveTyped, TypeOK
  <1>2. q.balance \in Balances /\ q.row \in BalanceRow /\ q.days \in Nat
    BY <1>1, RequestFields
  <1>3. /\ balances[q.balance] # NoRow
        /\ q.row.account = balances[q.balance].account
        /\ q.row.year = balances[q.balance].year
    BY <1>1 DEF LeaveTyped, Existing
  <1>4. /\ [q EXCEPT !.pc = "record"] \in Request
        /\ [q EXCEPT !.pc = "record"].pc = "record"
        /\ [q EXCEPT !.pc = "record"].days = q.days
        /\ [q EXCEPT !.pc = "record"].balance = q.balance
    BY <1>1, RequestMade
  <1>5. /\ balances' = [balances EXCEPT ![q.balance] = Raised(q.row, q.days)]
        /\ req' = [req EXCEPT ![r] = [q EXCEPT !.pc = "record"]]
        /\ UNCHANGED <<leaves, granted, year, calls, history>>
    BY DEF SaveRaised
  <1> QED BY <1>1, <1>2, <1>3, <1>4, <1>5 DEF history

LEMMA SaveRaisedOwn ==
    ASSUME LeaveTyped, NEW r \in Requests, SaveRaised(r)
    PROVE  OwnStep(r)
  <1> DEFINE q == req[r]
             new == [q EXCEPT !.pc = "record"]
             row == Raised(q.row, q.days)
  <1>1. /\ q.pc = "grant" /\ q.days \in Nat /\ q.balance \in Balances /\ q.row \in BalanceRow
        /\ balances[q.balance] # NoRow
        /\ q.row.account = balances[q.balance].account
        /\ q.row.year = balances[q.balance].year
        /\ balances' = [balances EXCEPT ![q.balance] = row]
        /\ new \in Request /\ new.pc = "record" /\ new.balance = q.balance
        /\ req' = [req EXCEPT ![r] = new]
        /\ UNCHANGED <<leaves, granted, year, calls, raced, contested, broken, charges, taken, reopened, uncharged>>
    BY SaveRaisedFields
  <1>2. q.balance \in Holds(r) BY <1>1 DEF Holds
  <1>3. row \in BalanceRow /\ row.account = q.row.account /\ row.year = q.row.year
    BY <1>1, SavedRows
  <1> HIDE DEF q, new, row
  <1>4. charges' \in [Leaves -> Nat] /\ taken' \in [Balances -> Nat]
    BY <1>1 DEF LeaveTyped, TypeOK
  <1> QED BY <1>1, <1>2, <1>3, <1>4, SaveBalanceStep

LEMMA SaveDecidedOwn ==
    ASSUME LeaveTyped, NEW r \in Requests, SaveDecided(r)
    PROVE  /\ OwnStep(r)
           /\ req[r].leave \in Leaves /\ req'[r] = Idle
           /\ \A l \in Leaves : l # req[r].leave => leaves'[l] = leaves[l]
           /\ leaves'[req[r].leave].status = req[r].status
  <1> DEFINE q == req[r]
             row == Rewritten(leaves[q.leave], q.account, q.status)
  <1>1. q \in Request /\ q.pc \in {"decide", "settle"} BY DEF SaveDecided, LeaveTyped, TypeOK
  <1>2. q.leave \in Leaves /\ q.account \in Accounts /\ q.status \in LeaveStatus
    BY <1>1, RequestFields DEF Deciding
  <1>3. leaves[q.leave] \in LeaveRow BY <1>2 DEF LeaveTyped, TypeOK
  <1>4. row \in LeaveRow /\ row.status = q.status /\ row.days = leaves[q.leave].days
    BY <1>2, <1>3, SavedLeave
  <1>5. /\ leaves' = [leaves EXCEPT ![q.leave] = row]
        /\ req' = [req EXCEPT ![r] = Idle]
        /\ UNCHANGED <<balances, granted, year, calls, raced, contested, broken, charges, taken,
                       reopened, uncharged>>
    BY DEF SaveDecided, history
  <1>6. q.leave \in Holds(r) BY <1>1 DEF Holds
  <1> HIDE DEF row
  <1>7. /\ leaves' \in [Leaves -> LeaveRow] /\ leaves'[q.leave] = row
        /\ \A l \in Leaves : l # q.leave => leaves'[l] = leaves[l]
    BY <1>2, <1>4, <1>5 DEF LeaveTyped, TypeOK
  <1>8. Idle \in Request /\ Idle.pc = "idle" BY RequestMade
  <1>9. /\ req'[r] = Idle /\ \A p \in Requests \ {r} : req'[p] = req[p]
        /\ req' \in [Requests -> Request]
    BY <1>5, <1>8 DEF LeaveTyped, TypeOK
  <1>10. TypeOK' BY <1>5, <1>7, <1>9 DEF LeaveTyped, TypeOK
  <1>11. RowsStay BY <1>4, <1>5, <1>7 DEF RowsStay
  <1>12. Existing(r)' BY <1>8, <1>9 DEF Existing
  <1>13. Holds(r)' = {} BY <1>8, <1>9 DEF Holds
  <1>14. OwnStep(r)
    BY <1>5, <1>6, <1>7, <1>8, <1>9, <1>10, <1>11, <1>12, <1>13 DEF OwnStep
  <1> QED BY <1>2, <1>4, <1>7, <1>9, <1>14

LEMMA RecordGrantOwn ==
    ASSUME LeaveTyped, NEW r \in Requests, RecordGrant(r)
    PROVE  OwnStep(r)
  <1> DEFINE q == req[r]
  <1>1. q \in Request /\ q.pc = "record" BY DEF RecordGrant, LeaveTyped, TypeOK
  <1>2. q.balance \in Balances /\ q.days \in Nat BY <1>1, RequestFields
  <1>3. /\ granted' = [granted EXCEPT ![q.balance] = granted[q.balance] + q.days]
        /\ req' = [req EXCEPT ![r] = Idle]
        /\ UNCHANGED <<balances, leaves, year, calls, raced, contested, broken, charges, taken, reopened, uncharged>>
    BY DEF RecordGrant, history
  <1>4. granted' \in [Balances -> Nat] BY <1>2, <1>3 DEF LeaveTyped, TypeOK
  <1>5. Idle \in Request /\ Idle.pc = "idle" BY RequestMade
  <1>6. /\ req'[r] = Idle /\ \A p \in Requests \ {r} : req'[p] = req[p]
        /\ req' \in [Requests -> Request]
    BY <1>3, <1>5 DEF LeaveTyped, TypeOK
  <1>7. TypeOK' BY <1>3, <1>4, <1>6 DEF LeaveTyped, TypeOK
  <1>8. RowsStay BY <1>3 DEF RowsStay
  <1>9. Existing(r)' BY <1>5, <1>6 DEF Existing, Deciding
  <1>10. Holds(r)' = {} BY <1>5, <1>6 DEF Holds
  <1> QED BY <1>3, <1>6, <1>7, <1>8, <1>9, <1>10 DEF OwnStep

(* What the requests of leave do, one request at a time.                   *)
Starting(r) ==
    \/ \E a \in Accounts, l \in Leaves, b \in Balances : FindToApply(r, a, l, b)
    \/ \E a \in Comp, n \in Days, b \in Balances : FindToGrant(r, a, n, b)
    \/ \E l \in Leaves, s \in Decisions : LoadToDecide(r, l, s)

StartingToOpen(r, a) ==
    \/ \E l \in Leaves : FindNoneToApply(r, a, l)
    \/ FindNoneToInitialize(r, a)
    \/ a \in Comp /\ \E n \in Days : FindNoneToGrant(r, a, n)

Inserting(r, b) == CreateToApply(r, b) \/ CreateToInitialize(r, b) \/ OpenToGrant(r, b)

Charging(r) == (\E b \in Balances : FindToCharge(r, b)) \/ FindNoneToCharge(r)

Acts(r) ==
    \/ Starting(r)
    \/ \E a \in Accounts : StartingToOpen(r, a)
    \/ \E b \in Balances : Inserting(r, b)
    \/ Charging(r)
    \/ Submit(r) \/ SaveCharged(r) \/ SaveDecided(r) \/ SaveRaised(r) \/ RecordGrant(r) \/ Fail(r)

(* A step is one of a single request or turns the year.                    *)
LEMMA RequestsAct ==
    ASSUME LeaveAssumption, Next
    PROVE  NewYear \/ \E r \in Requests : Acts(r)
  <1>1. Comp \subseteq Accounts BY DEF LeaveAssumption
  <1> SUFFICES ASSUME ~NewYear PROVE \E r \in Requests : Acts(r)
    OBVIOUS
  <1>2. PICK r \in Requests :
          \/ \E a \in Accounts, l \in Leaves :
                (\E b \in Balances : FindToApply(r, a, l, b)) \/ FindNoneToApply(r, a, l)
          \/ \E a \in Accounts \ Comp : FindNoneToInitialize(r, a)
          \/ \E a \in Comp, n \in Days :
                (\E b \in Balances : FindToGrant(r, a, n, b)) \/ FindNoneToGrant(r, a, n)
          \/ \E b \in Balances :
                \/ CreateToApply(r, b) \/ CreateToInitialize(r, b) \/ OpenToGrant(r, b)
                \/ FindToCharge(r, b)
          \/ \E l \in Leaves, s \in Decisions : LoadToDecide(r, l, s)
          \/ Submit(r) \/ FindNoneToCharge(r) \/ SaveCharged(r) \/ SaveDecided(r)
          \/ SaveRaised(r) \/ RecordGrant(r) \/ Fail(r)
    BY DEF Next
  <1>3. Acts(r)
    BY <1>1, <1>2 DEF Acts, Starting, StartingToOpen, Inserting, Charging
  <1> QED BY <1>3

(* Whatever a request does writes its own rows only.                       *)
LEMMA ActsOwn ==
    ASSUME LeaveAssumption, LeaveTyped, NEW r \in Requests, Acts(r)
    PROVE  OwnStep(r)
  <1>1. Comp \subseteq Accounts BY DEF LeaveAssumption
  <1>2. CASE Starting(r)
    BY <1>1, <1>2, FindToApplyOwn, FindToGrantOwn, LoadToDecideOwn DEF Starting
  <1>3. ASSUME NEW a \in Accounts, StartingToOpen(r, a) PROVE OwnStep(r)
    BY <1>3, FindNoneOwn DEF StartingToOpen
  <1>4. ASSUME NEW b \in Balances, Inserting(r, b) PROVE OwnStep(r)
    BY <1>4, CreateOwn DEF Inserting
  <1>5. CASE Charging(r) BY <1>5, FindToChargeOwn, FindNoneToChargeOwn DEF Charging
  <1> QED
    BY <1>2, <1>3, <1>4, <1>5, SubmitOwn, SaveChargedOwn, SaveDecidedOwn, SaveRaisedOwn,
       RecordGrantOwn, FailOwn DEF Acts

(* The initial state is one with no row and no request.                    *)
LEMMA LeaveStarts ==
    ASSUME LeaveAssumption, Init
    PROVE  LeaveTyped
  <1>1. Idle \in Request /\ Idle.pc = "idle" BY RequestMade
  <1>2. leaves \in [Leaves -> LeaveRow]
    <2>1. [account : Accounts, days : Days, status : {"PENDING"}] \subseteq LeaveRow
      BY DEF LeaveAssumption, LeaveRow, LeaveStatus
    <2>2. leaves \in [Leaves -> [account : Accounts, days : Days, status : {"PENDING"}]]
      BY DEF Init
    <2> QED BY <2>1, <2>2
  <1>3. TypeOK BY <1>1, <1>2 DEF Init, TypeOK, Years, LeaveAssumption
  <1>4. ASSUME NEW r \in Requests PROVE Existing(r)
    BY <1>1 DEF Init, Existing
  <1> QED BY <1>3, <1>4 DEF LeaveTyped

(* The turn of the year changes no row and no request.                     *)
LEMMA YearTurns ==
    ASSUME LeaveAssumption, LeaveTyped, NewYear \/ UNCHANGED vars
    PROVE  /\ LeaveTyped'
           /\ UNCHANGED <<balances, leaves, granted, req, history>>
  <1>1. UNCHANGED <<balances, leaves, granted, req, history>> /\ calls' = calls
    BY DEF NewYear, vars, table
  <1>2. year' \in Years
    BY DEF NewYear, vars, table, LeaveTyped, TypeOK, Years, LeaveAssumption
  <1>3. TypeOK' BY <1>1, <1>2 DEF LeaveTyped, TypeOK, history
  <1>4. \A r \in Requests : Existing(r)' BY <1>1 DEF LeaveTyped, Existing
  <1> QED BY <1>1, <1>3, <1>4 DEF LeaveTyped

(* Rows and requests keep their types and the rows they name.              *)
LEMMA LeaveTypedNext ==
    ASSUME LeaveAssumption, LeaveTyped, [Next]_vars
    PROVE  LeaveTyped'
  <1>1. CASE NewYear \/ UNCHANGED vars BY <1>1, YearTurns
  <1>2. ASSUME NEW r \in Requests, Acts(r) PROVE LeaveTyped'
    <2>1. OwnStep(r) BY <1>2, ActsOwn
    <2>2. TypeOK' /\ RowsStay /\ Existing(r)' /\ \A p \in Requests \ {r} : req'[p] = req[p]
      BY <2>1 DEF OwnStep
    <2>3. ASSUME NEW p \in Requests, p # r PROVE Existing(p)'
      <3> DEFINE q == req[p]
      <3>1. req'[p] = q /\ q \in Request /\ Existing(p)
        BY <2>2, <2>3 DEF LeaveTyped, TypeOK
      <3>2. q.pc \in {"charge", "settle", "grant", "record"} => q.balance \in Balances
        BY <3>1, RequestFields
      <3>5. q.pc \in {"charge", "settle", "grant", "record"} => balances'[q.balance] # NoRow
        BY <2>2, <3>1, <3>2 DEF Existing, RowsStay
      <3>6. q.pc \in {"charge", "grant"} =>
               /\ q.row.account = balances'[q.balance].account
               /\ q.row.year = balances'[q.balance].year
        BY <2>2, <3>1, <3>2 DEF Existing, RowsStay
      <3>7. q.pc = "open" => q.account \in Comp BY <3>1 DEF Existing
      <3> HIDE DEF q
      <3> QED BY <3>1, <3>5, <3>6, <3>7 DEF Existing
    <2> QED BY <2>2, <2>3 DEF LeaveTyped
  <1> QED BY <1>1, <1>2, RequestsAct

(* The rows and the requests of leave have their types in every state.     *)
THEOREM LeaveTypeCorrect == Spec => []TypeOK
  <1>1. Init => LeaveTyped BY LeaveAssumption, LeaveStarts
  <1>2. LeaveTyped /\ [Next]_vars => LeaveTyped' BY LeaveAssumption, LeaveTypedNext
  <1>3. LeaveTyped => TypeOK BY DEF LeaveTyped
  <1> QED BY <1>1, <1>2, <1>3, PTL DEF Spec

(* What two requests have in memory is known to be so, and a balance that  *)
(* no other has is still as it was read.                                   *)
LeaveSeen == \A r, p \in Requests : r # p => Holds(r) \cap Holds(p) \subseteq raced
Fresh(r) ==
    LET q == req[r] IN
    q.pc \in {"charge", "grant"} /\ q.balance \notin raced => q.row = balances[q.balance]
LeaveKnown == LeaveTyped /\ LeaveSeen /\ \A r \in Requests : Fresh(r)

(* A request has the balance it may save as the table has it when it reads *)
(* it.                                                                     *)
LEMMA ReadIsFresh ==
    ASSUME LeaveAssumption, LeaveTyped, NEW r \in Requests, Acts(r)
    PROVE  Fresh(r)'
  <1> DEFINE q == req'[r]
  <1> SUFFICES ASSUME q.pc \in {"charge", "grant"} PROVE q.row = balances'[q.balance]
    BY DEF Fresh
  <1>1. r \in DOMAIN req /\ Idle.pc = "idle" BY RequestMade DEF LeaveTyped, TypeOK
  <1>2. CASE Starting(r)
    <2>1. ASSUME NEW a \in Accounts, NEW l \in Leaves, NEW b \in Balances, FindToApply(r, a, l, b)
          PROVE  FALSE
      BY <1>1, <2>1 DEF FindToApply, Begin
    <2>2. ASSUME NEW a \in Comp, NEW n \in Days, NEW b \in Balances, FindToGrant(r, a, n, b)
          PROVE  q.row = balances'[q.balance]
      BY <1>1, <2>2 DEF FindToGrant, Begin, table
    <2>3. ASSUME NEW l \in Leaves, NEW s \in Decisions, LoadToDecide(r, l, s)
          PROVE  FALSE
      BY <1>1, <2>3 DEF LoadToDecide, Begin
    <2> QED BY <1>2, <2>1, <2>2, <2>3 DEF Starting
  <1>3. ASSUME NEW a \in Accounts, StartingToOpen(r, a) PROVE FALSE
    BY <1>1, <1>3 DEF StartingToOpen, FindNoneToApply, FindNoneToInitialize, FindNoneToGrant,
                      FindNone, Open, Begin
  <1>4. ASSUME NEW b \in Balances, Inserting(r, b) PROVE FALSE
    BY <1>1, <1>4 DEF Inserting, CreateToApply, CreateToInitialize, OpenToGrant
  <1>5. ASSUME NEW b \in Balances, FindToCharge(r, b) PROVE q.row = balances'[q.balance]
    BY <1>1, <1>5 DEF FindToCharge, table
  <1>6. ASSUME FindNoneToCharge(r) PROVE FALSE
    <2>1. req[r] \in Request /\ req[r].pc = "find"
      BY <1>6 DEF FindNoneToCharge, LeaveTyped, TypeOK
    <2>2. req'[r] = [req[r] EXCEPT !.pc = "decide"] BY <1>1, <1>6 DEF FindNoneToCharge
    <2> QED BY <2>1, <2>2, RequestMade
  <1>7. ASSUME Submit(r) PROVE FALSE BY <1>1, <1>7 DEF Submit
  <1>8. ASSUME SaveCharged(r) PROVE FALSE BY <1>1, <1>8, SaveChargedFields
  <1>9. ASSUME SaveRaised(r) PROVE FALSE BY <1>1, <1>9, SaveRaisedFields
  <1>10. ASSUME SaveDecided(r) \/ RecordGrant(r) \/ Fail(r) PROVE FALSE
    BY <1>1, <1>10 DEF SaveDecided, RecordGrant, Fail
  <1> QED BY <1>2, <1>3, <1>4, <1>5, <1>6, <1>7, <1>8, <1>9, <1>10 DEF Acts, Charging

(* What a request has of the others stays known in every step.             *)
LEMMA LeaveKnownNext ==
    ASSUME LeaveAssumption, LeaveKnown, [Next]_vars
    PROVE  LeaveKnown'
  <1>1. LeaveTyped' BY LeaveTypedNext DEF LeaveKnown
  <1>2. CASE NewYear \/ UNCHANGED vars
    <2>1. UNCHANGED <<balances, req, raced>> BY <1>2, YearTurns DEF LeaveKnown, history
    <2> QED BY <1>1, <2>1 DEF LeaveKnown, LeaveSeen, Fresh, Holds
  <1>3. ASSUME NEW r \in Requests, Acts(r) PROVE LeaveKnown'
    <2>1. OwnStep(r) BY <1>3, ActsOwn DEF LeaveKnown
    <2>2. Fresh(r)' BY <1>3, ReadIsFresh DEF LeaveKnown
    <2>3. \A p \in Requests \ {r} : req'[p] = req[p] /\ Holds(p)' = Holds(p)
      BY <2>1 DEF OwnStep, Holds
    <2>4. ASSUME NEW p \in Requests \ {r} PROVE Holds(r)' \cap Holds(p)' \subseteq raced'
      BY <2>1, <2>3 DEF OwnStep, LeaveKnown, LeaveSeen
    <2>5. raced \subseteq raced' BY <2>1 DEF OwnStep
    <2>6. LeaveSeen' BY <2>3, <2>4, <2>5 DEF LeaveKnown, LeaveSeen
    <2>7. ASSUME NEW p \in Requests \ {r} PROVE Fresh(p)'
      <3> DEFINE q == req[p]
      <3>1. req'[p] = q /\ q \in Request BY <2>3 DEF LeaveKnown, LeaveTyped, TypeOK
      <3> SUFFICES ASSUME q.pc \in {"charge", "grant"}, q.balance \notin raced'
                   PROVE  q.row = balances'[q.balance]
        BY <3>1 DEF Fresh
      <3>2. q.balance \in Balances BY <3>1, RequestFields
      <3>3. q.balance \in Holds(p) BY DEF Holds
      <3>4. q.balance \notin Holds(r) BY <2>5, <3>3 DEF LeaveKnown, LeaveSeen
      <3>5. balances[q.balance] # NoRow BY DEF LeaveKnown, LeaveTyped, Existing
      <3>6. q.row = balances[q.balance] BY <2>5 DEF LeaveKnown, Fresh
      <3> HIDE DEF q
      <3> QED BY <2>1, <3>2, <3>4, <3>5, <3>6 DEF OwnStep
    <2> QED BY <1>1, <2>2, <2>6, <2>7 DEF LeaveKnown
  <1> QED BY <1>2, <1>3, RequestsAct

(* Leaves the invariant of the deductions says nothing of.                 *)
Doubtful == raced \cup broken \cup reopened \cup uncharged

(* A leave that is being approved is not approved yet, and is deducted     *)
(* when only its own row remains to be saved.                              *)
Undecided(r) ==
    LET q == req[r] IN
    /\ q.pc \in {"find", "charge", "settle"} => q.status = "APPROVED"
    /\ q.pc = "decide" => q.status # "APPROVED" \/ q.leave \in uncharged
    /\ q.pc \in Deciding /\ q.leave \notin Doubtful =>
          /\ leaves[q.leave].status # "APPROVED"
          /\ charges[q.leave] = IF q.pc = "settle" THEN 1 ELSE 0

LeaveDecided ==
    LeaveKnown /\ ApprovedIsDeducted /\ \A r \in Requests : Undecided(r)

(* Request r leaves the deductions right if it does so for the leave it    *)
(* has in memory, before and after.                                        *)
LEMMA DecisionsStep ==
    ASSUME LeaveAssumption, LeaveDecided, NEW r \in Requests, OwnStep(r),
           Undecided(r)',
           \A l \in Leaves :
              l \in Holds(r) /\ l \notin Doubtful'
                 /\ ~(req'[r].pc = "settle" /\ req'[r].leave = l)
              => charges'[l] = IF leaves'[l].status = "APPROVED" THEN 1 ELSE 0
    PROVE  ApprovedIsDeducted' /\ \A p \in Requests : Undecided(p)'
  <1>1. /\ \A p \in Requests \ {r} : req'[p] = req[p]
        /\ raced \subseteq raced' /\ uncharged \subseteq uncharged' /\ Doubtful \subseteq Doubtful'
    BY DEF OwnStep, Doubtful
  <1>2. \A l \in Leaves : l \notin Holds(r) =>
           /\ charges'[l] = charges[l]
           /\ leaves'[l] = leaves[l] \/ Resubmitted(r, l)
    BY DEF OwnStep
  <1>3. \A p \in Requests : req[p] \in Request
    BY DEF LeaveDecided, LeaveKnown, LeaveTyped, TypeOK
  <1>6. ASSUME NEW p \in Requests PROVE Undecided(p)'
    <2>1. CASE p = r BY <2>1
    <2>2. CASE p # r
      <3> DEFINE q == req[p]
      <3>1. req'[p] = q /\ q \in Request /\ Undecided(p) BY <1>1, <1>3, <2>2 DEF LeaveDecided
      <3>2. ASSUME q.pc \in Deciding, q.leave \notin Doubtful'
            PROVE  /\ leaves'[q.leave].status # "APPROVED"
                   /\ charges'[q.leave] = IF q.pc = "settle" THEN 1 ELSE 0
        <4>1. q.leave \in Leaves BY <3>1, <3>2, RequestFields
        <4>2. q.leave \in Holds(p) BY <3>2 DEF Holds, Deciding
        <4>3. q.leave \notin Doubtful /\ q.leave \notin raced BY <1>1, <3>2 DEF Doubtful
        <4>4. q.leave \notin Holds(r)
          BY <2>2, <4>2, <4>3 DEF LeaveDecided, LeaveKnown, LeaveSeen
        <4>5. ~Resubmitted(r, q.leave) BY <2>2, <3>2, <4>2 DEF Resubmitted, Doubtful
        <4>6. leaves'[q.leave] = leaves[q.leave] /\ charges'[q.leave] = charges[q.leave]
          BY <1>2, <4>1, <4>4, <4>5
        <4> QED BY <3>1, <3>2, <4>3, <4>6 DEF Undecided
      <3> HIDE DEF q
      <3> QED BY <1>1, <3>1, <3>2 DEF Undecided
    <2> QED BY <2>1, <2>2
  <1>7. ApprovedIsDeducted'
    <2> SUFFICES ASSUME NEW l \in Leaves, l \notin Doubtful',
                        \A p \in Requests : ~(req'[p].pc = "settle" /\ req'[p].leave = l)
                 PROVE  charges'[l] = IF leaves'[l].status = "APPROVED" THEN 1 ELSE 0
      BY DEF ApprovedIsDeducted, Doubtful
    <2>1. CASE l \in Holds(r) BY <2>1
    <2>2. CASE l \notin Holds(r)
      <3>1. ~(req[r].pc = "settle" /\ req[r].leave = l) BY <2>2 DEF Holds
      <3>2. \A p \in Requests : ~(req[p].pc = "settle" /\ req[p].leave = l)
        BY <1>1, <3>1
      <3>3. l \notin raced \cup broken \cup reopened \cup uncharged BY <1>1 DEF Doubtful
      <3>4. charges'[l] = IF leaves[l].status = "APPROVED" THEN 1 ELSE 0
        BY <1>2, <2>2, <3>2, <3>3 DEF LeaveDecided, ApprovedIsDeducted
      <3>5. CASE leaves'[l] = leaves[l] BY <3>4, <3>5
      <3>6. CASE Resubmitted(r, l)
        <4>1. l \notin reopened' BY DEF Doubtful
        <4>2. leaves[l].status # "APPROVED" /\ leaves'[l].status # "APPROVED"
          BY <3>6, <4>1 DEF Resubmitted
        <4> QED BY <3>4, <4>2
      <3> QED BY <1>2, <2>2, <3>5, <3>6
    <2> QED BY <2>1, <2>2
  <1> QED BY <1>6, <1>7

(* A step of a request without a leave to decide, before and after.        *)
LEMMA UndecidedStep ==
    ASSUME LeaveAssumption, LeaveDecided, NEW r \in Requests, OwnStep(r),
           req[r].pc \notin Deciding, req'[r].pc \notin Deciding
    PROVE  ApprovedIsDeducted' /\ \A p \in Requests : Undecided(p)'
  <1>1. Undecided(r)' BY DEF Undecided, Deciding
  <1>2. Balances \cap Leaves = {} BY DEF LeaveAssumption
  <1>3. req[r].pc = "grant" => req[r].balance \in Balances
    BY RequestFields DEF LeaveDecided, LeaveKnown, LeaveTyped, TypeOK
  <1>4. \A l \in Leaves : l \notin Holds(r) BY <1>2, <1>3 DEF Holds, Deciding
  <1> QED BY <1>1, <1>4, DecisionsStep

(* A leave is loaded to be decided.                                        *)
LEMMA LoadUndecided ==
    ASSUME LeaveAssumption, LeaveDecided, NEW r \in Requests, OwnStep(r),
           NEW l \in Leaves, NEW s \in Decisions, LoadToDecide(r, l, s)
    PROVE  ApprovedIsDeducted' /\ \A p \in Requests : Undecided(p)'
  <1> DEFINE new == [pc |-> IF Deducts(s) THEN "find" ELSE "decide",
                     leave |-> l, account |-> leaves[l].account, status |-> s]
  <1>1. /\ req[r] = Idle /\ req' = [req EXCEPT ![r] = new]
        /\ UNCHANGED <<table, broken, charges, taken, uncharged>>
    BY DEF LoadToDecide, Begin
  <1>2. req'[r] = new
    BY <1>1 DEF LeaveDecided, LeaveKnown, LeaveTyped, TypeOK
  <1>3. /\ new.pc = "find" => s = "APPROVED"
        /\ new.pc = "decide" => s # "APPROVED"
        /\ new.pc \in {"find", "decide"} /\ new.leave = l /\ new.status = s
    BY DEF Deducts
  <1> HIDE DEF new
  <1>4. UNCHANGED <<leaves, charges>> BY <1>1 DEF table
  <1>5. raced' = raced \cup {k \in {l} : \E p \in Requests \ {r} : k \in Holds(p)}
    BY DEF LoadToDecide, Raced
  <1>6. leaves[l].status = "APPROVED" => l \in reopened' BY DEF LoadToDecide, Reopened
  <1>7. \A k \in Leaves : k \notin Holds(r)
    BY <1>1, RequestMade DEF Holds
  <1>8. ASSUME l \notin Doubtful'
        PROVE  leaves[l].status # "APPROVED" /\ charges[l] = 0
    <2>1. leaves[l].status # "APPROVED" BY <1>6, <1>8 DEF Doubtful
    <2>2. l \notin raced \cup broken \cup reopened \cup uncharged
      BY <1>8 DEF Doubtful, OwnStep
    <2>3. \A p \in Requests \ {r} : l \notin Holds(p) BY <1>5, <1>8 DEF Doubtful
    <2>4. \A p \in Requests : ~(req[p].pc = "settle" /\ req[p].leave = l)
      BY <1>1, <2>3, RequestMade DEF Holds
    <2> QED BY <1>1, <2>1, <2>2, <2>4 DEF LeaveDecided, ApprovedIsDeducted
  <1>9. Undecided(r)' BY <1>2, <1>3, <1>4, <1>8 DEF Undecided, Deciding
  <1> QED BY <1>4, <1>7, <1>9, DecisionsStep

(* The other steps of an approval: none deducts a second time.             *)
LEMMA ChargingUndecided ==
    ASSUME LeaveAssumption, LeaveDecided, NEW r \in Requests, OwnStep(r), Charging(r)
    PROVE  ApprovedIsDeducted' /\ \A p \in Requests : Undecided(p)'
  <1> DEFINE q == req[r]
             l == req[r].leave
             new == req'[r]
  <1>1. q \in Request /\ q.pc = "find" /\ r \in DOMAIN req
    BY DEF Charging, FindToCharge, FindNoneToCharge, LeaveDecided, LeaveKnown, LeaveTyped, TypeOK
  <1>2. UNCHANGED <<leaves, charges>> BY DEF Charging, FindToCharge, FindNoneToCharge, table
  <1>3. new.leave = l /\ new.status = q.status
        /\ (new.pc = "charge" \/ (new.pc = "decide" /\ l \in uncharged'))
    <2>1. ASSUME NEW b \in Balances, FindToCharge(r, b)
          PROVE  new.pc = "charge" /\ new.leave = l /\ new.status = q.status
      BY <1>1, <2>1 DEF FindToCharge
    <2>2. ASSUME FindNoneToCharge(r)
          PROVE  new.pc = "decide" /\ new.leave = l /\ new.status = q.status /\ l \in uncharged'
      <3>1. new = [q EXCEPT !.pc = "decide"] /\ l \in uncharged'
        BY <1>1, <2>2 DEF FindNoneToCharge
      <3> QED BY <1>1, <3>1, RequestMade
    <2> QED BY <2>1, <2>2 DEF Charging
  <1>4. Undecided(r) /\ Doubtful \subseteq Doubtful' BY DEF LeaveDecided, OwnStep, Doubtful
  <1>5. l \notin Doubtful' => leaves[l].status # "APPROVED" /\ charges[l] = 0
    BY <1>1, <1>4 DEF Undecided, Deciding
  <1>6. \A k \in Leaves : k \in Holds(r) => k = l BY <1>1 DEF Holds
  <1>7. q.status = "APPROVED" BY <1>1, <1>4 DEF Undecided
  <1>8. Undecided(r)' BY <1>2, <1>3, <1>5, <1>7 DEF Undecided, Deciding
  <1> QED BY <1>2, <1>5, <1>6, <1>8, DecisionsStep

LEMMA SaveChargedUndecided ==
    ASSUME LeaveAssumption, LeaveDecided, NEW r \in Requests, OwnStep(r), SaveCharged(r)
    PROVE  ApprovedIsDeducted' /\ \A p \in Requests : Undecided(p)'
  <1> DEFINE q == req[r]
             l == req[r].leave
             new == [q EXCEPT !.pc = "settle"]
  <1>1. LeaveTyped BY DEF LeaveDecided, LeaveKnown
  <1>2. /\ q.pc = "charge" /\ l \in Leaves /\ q.balance \in Balances
        /\ new.pc = "settle" /\ new.leave = l /\ new.status = q.status
        /\ req' = [req EXCEPT ![r] = new]
        /\ charges' = [charges EXCEPT ![l] = charges[l] + 1]
        /\ UNCHANGED leaves
    BY <1>1, SaveChargedFields
  <1>3. /\ req'[r].pc = "settle" /\ req'[r].leave = l /\ req'[r].status = q.status
        /\ charges'[l] = charges[l] + 1
    BY <1>1, <1>2 DEF LeaveTyped, TypeOK
  <1>4. Undecided(r) /\ Doubtful \subseteq Doubtful' BY DEF LeaveDecided, OwnStep, Doubtful
  <1>5. l \notin Doubtful' => leaves[l].status # "APPROVED" /\ charges[l] = 0
    BY <1>2, <1>4 DEF Undecided, Deciding
  <1>6. \A k \in Leaves : k \in Holds(r) => k = l
    BY <1>2 DEF Holds, LeaveAssumption
  <1>7. q.status = "APPROVED" BY <1>2, <1>4 DEF Undecided
  <1>8. Undecided(r)' BY <1>2, <1>3, <1>5, <1>7 DEF Undecided, Deciding
  <1> QED BY <1>2, <1>3, <1>6, <1>8, DecisionsStep

LEMMA SaveDecidedUndecided ==
    ASSUME LeaveAssumption, LeaveDecided, NEW r \in Requests, OwnStep(r), SaveDecided(r)
    PROVE  ApprovedIsDeducted' /\ \A p \in Requests : Undecided(p)'
  <1> DEFINE q == req[r]
             l == req[r].leave
  <1>1. /\ l \in Leaves /\ req'[r] = Idle /\ leaves'[l].status = q.status
        /\ \A k \in Leaves : k # l => leaves'[k] = leaves[k]
    BY SaveDecidedOwn DEF LeaveDecided, LeaveKnown
  <1>2. q.pc \in {"decide", "settle"} /\ UNCHANGED <<charges, raced, broken, reopened, uncharged>>
    BY DEF SaveDecided, history
  <1>3. Undecided(r) BY DEF LeaveDecided
  <1>4. l \notin Doubtful' => charges[l] = IF q.status = "APPROVED" THEN 1 ELSE 0
    BY <1>2, <1>3 DEF Undecided, Deciding, Doubtful
  <1>6. \A k \in Leaves : k \in Holds(r) => k = l BY <1>2 DEF Holds
  <1>7. Idle.pc = "idle" BY RequestMade
  <1>8. Undecided(r)' BY <1>1, <1>7 DEF Undecided, Deciding
  <1> QED BY <1>1, <1>2, <1>4, <1>6, <1>8, DecisionsStep

LEMMA FailUndecided ==
    ASSUME LeaveAssumption, LeaveDecided, NEW r \in Requests, OwnStep(r), Fail(r)
    PROVE  ApprovedIsDeducted' /\ \A p \in Requests : Undecided(p)'
  <1> DEFINE q == req[r]
  <1>1. r \in DOMAIN req /\ Idle.pc = "idle" /\ q \in Request
    BY RequestMade DEF LeaveDecided, LeaveKnown, LeaveTyped, TypeOK
  <1>2. req'[r] = Idle /\ UNCHANGED <<leaves, charges>> BY <1>1 DEF Fail, table
  <1>3. q.pc = "settle" => q.leave \in Doubtful' BY DEF Fail, Doubtful
  <1>4. Undecided(r) /\ Doubtful \subseteq Doubtful' BY DEF LeaveDecided, OwnStep, Doubtful
  <1>5. Undecided(r)' BY <1>1, <1>2 DEF Undecided, Deciding
  <1>6. ASSUME NEW l \in Leaves, l \in Holds(r), l \notin Doubtful'
        PROVE  charges[l] = IF leaves[l].status = "APPROVED" THEN 1 ELSE 0
    <2>1. q.pc \in {"grant", "charge"} => q.balance \in Balances BY <1>1, RequestFields
    <2>2. q.pc \in Deciding /\ q.leave = l
      BY <1>6, <2>1 DEF Holds, Deciding, LeaveAssumption
    <2> QED BY <1>3, <1>4, <1>6, <2>2 DEF Undecided
  <1> QED BY <1>2, <1>5, <1>6, DecisionsStep

(* All of them together; the requests of other kinds leave the deductions  *)
(* alone.                                                                  *)
LEMMA LeaveDecidedActs ==
    ASSUME LeaveAssumption, LeaveDecided, NEW r \in Requests, Acts(r)
    PROVE  ApprovedIsDeducted' /\ \A p \in Requests : Undecided(p)'
  <1>1. OwnStep(r) BY ActsOwn DEF LeaveDecided, LeaveKnown
  <1>2. LeaveTyped /\ r \in DOMAIN req /\ Idle.pc = "idle"
    BY RequestMade DEF LeaveDecided, LeaveKnown, LeaveTyped, TypeOK
  <1> DEFINE Right == ApprovedIsDeducted' /\ \A p \in Requests : Undecided(p)'
  <1> SUFFICES Right OBVIOUS
  <1>3. ASSUME req[r].pc \notin Deciding, req'[r].pc \notin Deciding PROVE Right
    BY <1>1, <1>3, UndecidedStep
  <1> HIDE DEF Right
  <1>4. ASSUME NEW a \in Accounts, NEW l \in Leaves, NEW b \in Balances, FindToApply(r, a, l, b)
        PROVE  Right
    BY <1>2, <1>3, <1>4 DEF FindToApply, Begin, table, Deciding
  <1>5. ASSUME NEW a \in Comp, NEW n \in Days, NEW b \in Balances, FindToGrant(r, a, n, b)
        PROVE  Right
    BY <1>2, <1>3, <1>5 DEF FindToGrant, Begin, table, Deciding
  <1>6. ASSUME NEW a \in Accounts, StartingToOpen(r, a) PROVE Right
    BY <1>2, <1>3, <1>6 DEF StartingToOpen, FindNoneToApply, FindNoneToInitialize,
                            FindNoneToGrant, FindNone, Open, Begin, table, Deciding
  <1>7. ASSUME NEW b \in Balances, Inserting(r, b) PROVE Right
    BY <1>2, <1>3, <1>7 DEF Inserting, CreateToApply, CreateToInitialize, OpenToGrant, Deciding
  <1>8. ASSUME Submit(r) PROVE Right BY <1>2, <1>3, <1>8 DEF Submit, Deciding
  <1>9. ASSUME SaveRaised(r) PROVE Right
    <2>1. req[r].pc = "grant" /\ req'[r].pc = "record"
      BY <1>2, <1>9, SaveRaisedFields
    <2> QED BY <1>3, <2>1 DEF Deciding
  <1>10. ASSUME RecordGrant(r) PROVE Right
    BY <1>2, <1>3, <1>10 DEF RecordGrant, Deciding
  <1>11. ASSUME NEW l \in Leaves, NEW s \in Decisions, LoadToDecide(r, l, s) PROVE Right
    BY <1>1, <1>11, LoadUndecided DEF Right
  <1>12. ASSUME Charging(r) \/ SaveCharged(r) \/ SaveDecided(r) \/ Fail(r) PROVE Right
    BY <1>1, <1>12, ChargingUndecided, SaveChargedUndecided, SaveDecidedUndecided, FailUndecided
       DEF Right
  <1> QED
    BY <1>4, <1>5, <1>6, <1>7, <1>8, <1>9, <1>10, <1>11, <1>12 DEF Acts, Starting

LEMMA LeaveDecidedNext ==
    ASSUME LeaveAssumption, LeaveDecided, [Next]_vars
    PROVE  LeaveDecided'
  <1>1. LeaveKnown' BY LeaveKnownNext DEF LeaveDecided
  <1>2. CASE NewYear \/ UNCHANGED vars
    <2>1. /\ UNCHANGED <<leaves, req, raced, broken, charges, reopened, uncharged>>
      BY <1>2, YearTurns DEF LeaveDecided, LeaveKnown, history
    <2> QED
      BY <1>1, <2>1 DEF LeaveDecided, ApprovedIsDeducted, Undecided, Doubtful
  <1>3. ASSUME NEW r \in Requests, Acts(r) PROVE LeaveDecided'
    BY <1>1, <1>3, LeaveDecidedActs DEF LeaveDecided
  <1> QED BY <1>2, <1>3, RequestsAct

LEMMA LeaveKnownInit ==
    ASSUME LeaveAssumption, Init
    PROVE  LeaveKnown /\ \A r \in Requests : req[r].pc = "idle"
  <1>1. LeaveTyped BY LeaveStarts
  <1>2. \A r \in Requests : req[r].pc = "idle" BY RequestMade DEF Init
  <1> QED BY <1>1, <1>2 DEF LeaveKnown, LeaveSeen, Fresh, Holds

(* An approved leave was deducted once and no other was deducted, outside  *)
(* the listed races and failures of the approval.                          *)
THEOREM ApprovalsAreDeducted == Spec => []ApprovedIsDeducted
  <1>1. ASSUME Init PROVE LeaveDecided
    <2>1. LeaveKnown /\ \A r \in Requests : req[r].pc = "idle"
      BY <1>1, LeaveAssumption, LeaveKnownInit
    <2>2. ApprovedIsDeducted BY <1>1 DEF Init, ApprovedIsDeducted
    <2> QED BY <2>1, <2>2 DEF LeaveDecided, Undecided, Deciding
  <1>2. LeaveDecided /\ [Next]_vars => LeaveDecided' BY LeaveAssumption, LeaveDecidedNext
  <1>3. LeaveDecided => ApprovedIsDeducted BY DEF LeaveDecided
  <1>4. Init => LeaveDecided BY <1>1
  <1> QED BY <1>2, <1>3, <1>4, PTL DEF Spec

(* The days of the grants that are in a balance and not recorded yet.      *)
Unrecorded(b) ==
    [r \in Requests |-> IF req[r].pc = "record" /\ req[r].balance = b THEN req[r].days ELSE 0]

BalanceKept(b) ==
    /\ balances[b] = NoRow => taken[b] = 0 /\ granted[b] = 0
    /\ balances[b] # NoRow /\ b \notin raced =>
          /\ balances[b].used = taken[b]
          /\ b \notin broken =>
                balances[b].total = Quota[balances[b].account] + granted[b]
                                    + Sum(Unrecorded(b), Requests)

LeaveKept == LeaveKnown /\ \A b \in Balances : BalanceKept(b)

LEMMA UnrecordedDays ==
    ASSUME LeaveTyped, NEW b \in Balances
    PROVE  \A r \in Requests :
              /\ Unrecorded(b)[r] \in Nat
              /\ Unrecorded(b)[r] = IF req[r].pc = "record" /\ req[r].balance = b
                                    THEN req[r].days ELSE 0
  <1>1. \A r \in Requests : req[r] \in Request BY DEF LeaveTyped, TypeOK
  <1> QED BY <1>1, RequestFields DEF Unrecorded

(* A step changes the sum of the unrecorded days by what it changes of one *)
(* request.                                                                *)
LEMMA UnrecordedStep ==
    ASSUME LeaveAssumption, LeaveTyped, LeaveTyped', NEW b \in Balances, NEW r \in Requests,
           \A p \in Requests \ {r} : req'[p] = req[p]
    PROVE  /\ Sum(Unrecorded(b)', Requests)
                 = Sum(Unrecorded(b), Requests) + (Unrecorded(b)'[r] - Unrecorded(b)[r])
           /\ Sum(Unrecorded(b), Requests) \in Int
           /\ Unrecorded(b)'[r] \in Nat /\ Unrecorded(b)[r] \in Nat
           /\ Unrecorded(b)[r] = IF req[r].pc = "record" /\ req[r].balance = b
                                 THEN req[r].days ELSE 0
           /\ Unrecorded(b)'[r] = IF req'[r].pc = "record" /\ req'[r].balance = b
                                  THEN req'[r].days ELSE 0
  <1> DEFINE f == Unrecorded(b)
             h == Unrecorded(b)'
  <1>1. \A p \in Requests : /\ f[p] \in Nat
                            /\ f[p] = IF req[p].pc = "record" /\ req[p].balance = b
                                      THEN req[p].days ELSE 0
    BY UnrecordedDays
  <1>2. h = [p \in Requests |-> IF req'[p].pc = "record" /\ req'[p].balance = b
                                THEN req'[p].days ELSE 0]
    BY DEF Unrecorded
  <1>3. \A p \in Requests : req'[p] \in Request BY DEF LeaveTyped, TypeOK
  <1>4. \A p \in Requests : /\ h[p] \in Nat
                            /\ h[p] = IF req'[p].pc = "record" /\ req'[p].balance = b
                                      THEN req'[p].days ELSE 0
    BY <1>2, <1>3, RequestFields
  <1> HIDE DEF f, h
  <1>5. \A p \in Requests \ {r} : h[p] = f[p] BY <1>1, <1>4
  <1>6. IsFiniteSet(Requests) BY DEF LeaveAssumption
  <1>7. Sum(h, Requests) = Sum(f, Requests) + (h[r] - f[r])
    BY <1>1, <1>4, <1>5, <1>6, SumChange
  <1>8. Sum(f, Requests) \in Int BY <1>1, <1>6, SumInt
  <1>9. h[r] \in Nat /\ f[r] \in Nat BY <1>1, <1>4
  <1>10. f[r] = IF req[r].pc = "record" /\ req[r].balance = b THEN req[r].days ELSE 0
    BY <1>1
  <1>11. h[r] = IF req'[r].pc = "record" /\ req'[r].balance = b THEN req'[r].days ELSE 0
    BY <1>4
  <1> QED BY <1>7, <1>8, <1>9, <1>10, <1>11 DEF f, h

(* Without a grant that is being recorded the sum is zero.                 *)
LEMMA NothingUnrecorded ==
    ASSUME LeaveAssumption, LeaveTyped, NEW b \in Balances,
           \A r \in Requests : ~(req[r].pc = "record" /\ req[r].balance = b)
    PROVE  Sum(Unrecorded(b), Requests) = 0
  <1>1. \A r \in Requests : Unrecorded(b)[r] = 0 BY UnrecordedDays
  <1>2. IsFiniteSet(Requests) BY DEF LeaveAssumption
  <1> QED BY <1>1, <1>2, SumZero

(* A balance is kept when its days move with what is recorded for it.      *)
LEMMA KeptStep ==
    ASSUME LeaveAssumption, LeaveTyped, LeaveTyped', NEW r \in Requests, OwnStep(r),
           NEW b \in Balances, BalanceKept(b),
           balances[b] = NoRow =>
              balances'[b] = NoRow /\ taken'[b] = taken[b] /\ granted'[b] = granted[b],
           balances[b] # NoRow /\ b \notin raced' =>
              /\ balances'[b].used - balances[b].used = taken'[b] - taken[b]
              /\ b \notin broken' =>
                    balances'[b].total - balances[b].total
                       = granted'[b] - granted[b] + (Unrecorded(b)'[r] - Unrecorded(b)[r])
    PROVE  BalanceKept(b)'
  <1>1. CASE balances[b] = NoRow BY <1>1 DEF BalanceKept
  <1>2. CASE balances[b] # NoRow
    <2>1. /\ balances'[b] # NoRow /\ balances'[b].account = balances[b].account
          /\ raced \subseteq raced' /\ broken \subseteq broken'
          /\ \A p \in Requests \ {r} : req'[p] = req[p]
      BY <1>2 DEF OwnStep, RowsStay
    <2>2. balances[b] \in BalanceRow /\ balances'[b] \in BalanceRow
      BY <1>2, <2>1 DEF LeaveTyped, TypeOK
    <2>3. /\ balances[b].used \in Nat /\ balances[b].total \in Nat
          /\ balances'[b].used \in Nat /\ balances'[b].total \in Nat
          /\ balances[b].account \in Accounts
      BY <2>2, LeaveRows
    <2>4. /\ taken[b] \in Nat /\ taken'[b] \in Nat /\ granted[b] \in Nat /\ granted'[b] \in Nat
      BY DEF LeaveTyped, TypeOK
    <2>5. Quota[balances[b].account] \in Nat BY <2>3 DEF LeaveAssumption
    <2> DEFINE S == Sum(Unrecorded(b), Requests)
               T == Sum(Unrecorded(b)', Requests)
               u == Unrecorded(b)[r]
               v == Unrecorded(b)'[r]
    <2>6. T = S + (v - u) /\ S \in Int /\ u \in Nat /\ v \in Nat BY <2>1, UnrecordedStep
    <2>7. b \notin raced' =>
             /\ balances'[b].used = taken'[b]
             /\ b \notin broken' => balances'[b].total = Quota[balances'[b].account] + granted'[b] + T
      <3>1. b \notin raced' =>
               /\ balances[b].used = taken[b]
               /\ b \notin broken' =>
                     balances[b].total = Quota[balances[b].account] + granted[b] + S
        BY <1>2, <2>1 DEF BalanceKept
      <3>2. b \notin raced' =>
               /\ balances'[b].used - balances[b].used = taken'[b] - taken[b]
               /\ b \notin broken' =>
                     balances'[b].total - balances[b].total = granted'[b] - granted[b] + (v - u)
        BY <1>2
      <3> HIDE DEF S, T, u, v
      <3> QED BY <2>1, <2>3, <2>4, <2>5, <2>6, <3>1, <3>2
    <2> QED BY <2>1, <2>7 DEF BalanceKept
  <1> QED BY <1>1, <1>2

(* Nothing is saved or recorded for a balance, or a recording fails.       *)
LEMMA KeptSilent ==
    ASSUME LeaveAssumption, LeaveTyped, LeaveTyped', NEW r \in Requests, OwnStep(r),
           NEW b \in Balances, BalanceKept(b),
           balances'[b] = balances[b], taken'[b] = taken[b], granted'[b] = granted[b],
           \/ b \in broken'
           \/ /\ ~(req[r].pc = "record" /\ req[r].balance = b)
              /\ ~(req'[r].pc = "record" /\ req'[r].balance = b)
    PROVE  BalanceKept(b)'
  <1>1. \A p \in Requests \ {r} : req'[p] = req[p] BY DEF OwnStep
  <1>2. b \in broken' \/ (Unrecorded(b)'[r] = 0 /\ Unrecorded(b)[r] = 0)
    BY <1>1, UnrecordedStep
  <1>3. balances[b] # NoRow => balances[b].used \in Nat /\ balances[b].total \in Nat
    BY LeaveRows DEF LeaveTyped, TypeOK
  <1>4. taken[b] \in Nat /\ granted[b] \in Nat BY DEF LeaveTyped, TypeOK
  <1> QED BY <1>2, <1>3, <1>4, KeptStep

(* Each action that saves a balance or a grant keeps the balance.          *)
LEMMA CreateKept ==
    ASSUME LeaveAssumption, LeaveTyped, LeaveTyped', NEW r \in Requests, OwnStep(r),
           NEW c \in Balances, Inserting(r, c), NEW b \in Balances, BalanceKept(b)
    PROVE  BalanceKept(b)'
  <1> DEFINE q == req[r]
             new == req'[r]
  <1>1. /\ r \in DOMAIN req /\ q \in Request /\ q.pc \in {"create", "initialize", "open"}
        /\ UNCHANGED <<granted, taken, raced, broken>> /\ Idle.pc = "idle"
    BY RequestMade DEF Inserting, CreateToApply, CreateToInitialize, OpenToGrant, LeaveTyped, TypeOK
  <1>2. PICK total :
          /\ Insert(c, q.account, q.year, total)
          /\ \/ new.pc # "record" /\ total = Quota[q.account]
             \/ /\ new.pc = "record" /\ new.balance = c /\ new.days = q.days
                /\ total = q.days /\ q.pc = "open"
    <2>1. CASE CreateToApply(r, c)
      BY <1>1, <2>1 DEF CreateToApply
    <2>2. CASE CreateToInitialize(r, c)
      BY <1>1, <2>2 DEF CreateToInitialize
    <2>3. CASE OpenToGrant(r, c)
      BY <1>1, <2>3 DEF OpenToGrant
    <2> QED BY <2>1, <2>2, <2>3 DEF Inserting
  <1>3. /\ balances[c] = NoRow
        /\ balances'[c] = [account |-> q.account, year |-> year, total |-> total, used |-> 0]
        /\ \A d \in Balances : d # c => balances'[d] = balances[d]
    BY <1>2 DEF Insert, LeaveTyped, TypeOK
  <1>4. /\ balances'[c].account = q.account /\ balances'[c].total = total
        /\ balances'[c].used = 0
    BY <1>3
  <1>5. q.account \in Accounts /\ (q.pc = "open" => q.days \in Nat /\ q.account \in Comp)
    BY <1>1, RequestFields DEF LeaveTyped, Existing
  <1>6. CASE b # c
    <2>1. ~(q.pc = "record" /\ q.balance = b) /\ ~(new.pc = "record" /\ new.balance = b)
      BY <1>1, <1>2, <1>6
    <2> HIDE DEF q, new
    <2> QED BY <1>1, <1>3, <1>6, <2>1, KeptSilent DEF q, new
  <1>7. CASE b = c
    <2>1. taken'[b] = 0 /\ granted'[b] = 0 BY <1>1, <1>3, <1>7 DEF BalanceKept
    <2>2. \A p \in Requests : ~(req[p].pc = "record" /\ req[p].balance = b)
      BY <1>3, <1>7 DEF LeaveTyped, Existing
    <2>3. Sum(Unrecorded(b), Requests) = 0 BY <2>2, NothingUnrecorded
    <2>4. \A p \in Requests \ {r} : req'[p] = req[p] BY DEF OwnStep
    <2> DEFINE S == Sum(Unrecorded(b), Requests)
               T == Sum(Unrecorded(b)', Requests)
               u == Unrecorded(b)[r]
               v == Unrecorded(b)'[r]
    <2>5. /\ T = S + (v - u) /\ S \in Int /\ u \in Nat /\ v \in Nat
          /\ u = IF req[r].pc = "record" /\ req[r].balance = b THEN req[r].days ELSE 0
          /\ v = IF new.pc = "record" /\ new.balance = b THEN new.days ELSE 0
      BY <2>4, UnrecordedStep
    <2>6. S = 0 /\ u = 0 BY <1>1, <2>3, <2>5
    <2> HIDE DEF S, T, u, v
    <2>7. T = v BY <2>5, <2>6
    <2>8. Quota[q.account] \in Nat /\ (q.account \in Comp => Quota[q.account] = 0)
      BY <1>5 DEF LeaveAssumption
    <2>9. balances'[b].total = Quota[balances'[b].account] + granted'[b] + T
      <3>1. CASE new.pc # "record" /\ total = Quota[q.account]
        <4>1. v = 0 BY <2>5, <3>1
        <4>2. balances'[b].total = Quota[q.account] /\ balances'[b].account = q.account
          BY <1>4, <1>7, <3>1
        <4> QED BY <2>1, <2>7, <2>8, <4>1, <4>2
      <3>2. CASE new.pc = "record" /\ new.balance = c /\ new.days = q.days
                 /\ total = q.days /\ q.pc = "open"
        <4>1. v = q.days /\ q.days \in Nat BY <1>5, <1>7, <2>5, <3>2
        <4>2. balances'[b].total = q.days /\ balances'[b].account = q.account
          BY <1>4, <1>7, <3>2
        <4>3. Quota[q.account] = 0 BY <1>5, <2>8, <3>2
        <4> QED BY <2>1, <2>7, <4>1, <4>2, <4>3
      <3> QED BY <1>2, <3>1, <3>2
    <2>10. balances'[b] # NoRow
      <3>1. total \in Nat BY <1>2, <1>5, <2>8
      <3>2. balances'[b] \in BalanceRow
        BY <1>3, <1>5, <1>7, <3>1 DEF BalanceRow, LeaveTyped, TypeOK
      <3> QED BY <3>2, LeaveRows
    <2> QED BY <1>4, <1>7, <2>1, <2>9, <2>10 DEF BalanceKept, T
  <1> QED BY <1>6, <1>7

LEMMA SaveChargedKept ==
    ASSUME LeaveAssumption, LeaveKnown, LeaveTyped', NEW r \in Requests, OwnStep(r),
           SaveCharged(r), NEW b \in Balances, BalanceKept(b)
    PROVE  BalanceKept(b)'
  <1> DEFINE q == req[r]
             n == leaves[q.leave].days
             new == [q EXCEPT !.pc = "settle"]
             row == Charged(q.row, n)
  <1>1. LeaveTyped /\ Fresh(r) BY DEF LeaveKnown
  <1>2. /\ q.pc = "charge" /\ q.balance \in Balances /\ n \in Nat /\ q.row \in BalanceRow
        /\ balances[q.balance] # NoRow
        /\ balances' = [balances EXCEPT ![q.balance] = row]
        /\ new.pc = "settle"
        /\ req' = [req EXCEPT ![r] = new]
        /\ taken' = [taken EXCEPT ![q.balance] = taken[q.balance] + n]
        /\ UNCHANGED <<granted, raced, broken>>
    BY <1>1, SaveChargedFields
  <1>3. row.used = q.row.used + n /\ row.total = q.row.total BY <1>2, SavedRows
  <1> HIDE DEF new, row, n
  <1>4. /\ req'[r].pc = "settle" /\ balances'[q.balance] = row
        /\ taken'[q.balance] = taken[q.balance] + n
        /\ \A d \in Balances : d # q.balance =>
              balances'[d] = balances[d] /\ taken'[d] = taken[d]
    BY <1>1, <1>2 DEF LeaveTyped, TypeOK
  <1>5. ~(q.pc = "record" /\ q.balance = b) /\ ~(req'[r].pc = "record" /\ req'[r].balance = b)
    BY <1>2, <1>4
  <1>6. CASE b # q.balance BY <1>1, <1>2, <1>4, <1>5, <1>6, KeptSilent
  <1>7. CASE b = q.balance
    <2>1. \A p \in Requests \ {r} : req'[p] = req[p] BY DEF OwnStep
    <2>2. Unrecorded(b)'[r] = 0 /\ Unrecorded(b)[r] = 0 BY <1>1, <1>5, <2>1, UnrecordedStep
    <2>3. b \notin raced' => q.row = balances[b] BY <1>1, <1>2, <1>7 DEF Fresh
    <2>4. q.row.used \in Nat /\ q.row.total \in Nat BY <1>2, LeaveRows
    <2>5. taken[b] \in Nat /\ granted[b] \in Nat /\ granted'[b] = granted[b]
      BY <1>1, <1>2 DEF LeaveTyped, TypeOK
    <2>6. b \notin raced' => /\ balances'[b].used - balances[b].used = taken'[b] - taken[b]
                             /\ balances'[b].total - balances[b].total = 0
      <3>1. /\ balances'[b].used = q.row.used + n /\ balances'[b].total = q.row.total
            /\ taken'[b] = taken[b] + n /\ n \in Nat
        BY <1>2, <1>3, <1>4, <1>7
      <3>2. b \notin raced' => balances[b].used = q.row.used /\ balances[b].total = q.row.total
        BY <2>3
      <3> QED BY <2>4, <2>5, <3>1, <3>2
    <2> QED BY <1>1, <1>2, <1>7, <2>2, <2>5, <2>6, KeptStep
  <1> QED BY <1>6, <1>7

LEMMA SaveRaisedKept ==
    ASSUME LeaveAssumption, LeaveKnown, LeaveTyped', NEW r \in Requests, OwnStep(r),
           SaveRaised(r), NEW b \in Balances, BalanceKept(b)
    PROVE  BalanceKept(b)'
  <1> DEFINE q == req[r]
             new == [q EXCEPT !.pc = "record"]
             row == Raised(q.row, q.days)
  <1>1. LeaveTyped /\ Fresh(r) BY DEF LeaveKnown
  <1>2. /\ q.pc = "grant" /\ q.days \in Nat /\ q.balance \in Balances /\ q.row \in BalanceRow
        /\ balances[q.balance] # NoRow
        /\ balances' = [balances EXCEPT ![q.balance] = row]
        /\ new.pc = "record" /\ new.days = q.days /\ new.balance = q.balance
        /\ req' = [req EXCEPT ![r] = new]
        /\ UNCHANGED <<granted, raced, broken, taken>>
    BY <1>1, SaveRaisedFields
  <1>3. row.used = q.row.used /\ row.total = q.row.total + q.days BY <1>2, SavedRows
  <1> HIDE DEF new, row
  <1>4. /\ req'[r] = new /\ balances'[q.balance] = row
        /\ \A d \in Balances : d # q.balance => balances'[d] = balances[d]
    BY <1>1, <1>2 DEF LeaveTyped, TypeOK
  <1>5. CASE b # q.balance
    <2>1. ~(q.pc = "record" /\ q.balance = b) /\ ~(req'[r].pc = "record" /\ req'[r].balance = b)
      BY <1>2, <1>4, <1>5
    <2> QED BY <1>1, <1>2, <1>4, <1>5, <2>1, KeptSilent
  <1>6. CASE b = q.balance
    <2>1. \A p \in Requests \ {r} : req'[p] = req[p] BY DEF OwnStep
    <2>2. Unrecorded(b)'[r] = q.days /\ Unrecorded(b)[r] = 0
      BY <1>1, <1>2, <1>4, <1>6, <2>1, UnrecordedStep
    <2>3. b \notin raced' => q.row = balances[b] BY <1>1, <1>2, <1>6 DEF Fresh
    <2>4. q.row.used \in Nat /\ q.row.total \in Nat BY <1>2, LeaveRows
    <2>5. /\ taken[b] \in Nat /\ granted[b] \in Nat /\ granted'[b] = granted[b]
          /\ taken'[b] = taken[b]
      BY <1>1, <1>2 DEF LeaveTyped, TypeOK
    <2>6. b \notin raced' => /\ balances'[b].used - balances[b].used = 0
                             /\ balances'[b].total - balances[b].total = q.days
      BY <1>2, <1>3, <1>4, <1>6, <2>3, <2>4
    <2> QED BY <1>1, <1>2, <1>6, <2>2, <2>5, <2>6, KeptStep
  <1> QED BY <1>5, <1>6

LEMMA RecordGrantKept ==
    ASSUME LeaveAssumption, LeaveTyped, LeaveTyped', NEW r \in Requests, OwnStep(r),
           RecordGrant(r), NEW b \in Balances, BalanceKept(b)
    PROVE  BalanceKept(b)'
  <1> DEFINE q == req[r]
  <1>1. q \in Request /\ q.pc = "record" BY DEF RecordGrant, LeaveTyped, TypeOK
  <1>2. q.balance \in Balances /\ q.days \in Nat /\ balances[q.balance] # NoRow
    BY <1>1, RequestFields DEF LeaveTyped, Existing
  <1>3. /\ granted' = [granted EXCEPT ![q.balance] = granted[q.balance] + q.days]
        /\ req' = [req EXCEPT ![r] = Idle]
        /\ UNCHANGED <<balances, raced, broken, taken>>
    BY DEF RecordGrant, history
  <1>4. /\ granted'[q.balance] = granted[q.balance] + q.days
        /\ \A d \in Balances : d # q.balance => granted'[d] = granted[d]
        /\ req'[r].pc = "idle"
    BY <1>2, <1>3, RequestMade DEF LeaveTyped, TypeOK
  <1>5. CASE b # q.balance
    <2>1. ~(q.pc = "record" /\ q.balance = b) /\ ~(req'[r].pc = "record" /\ req'[r].balance = b)
      BY <1>4, <1>5
    <2> QED BY <1>3, <1>4, <1>5, <2>1, KeptSilent
  <1>6. CASE b = q.balance
    <2>1. \A p \in Requests \ {r} : req'[p] = req[p] BY DEF OwnStep
    <2>2. Unrecorded(b)'[r] = 0 /\ Unrecorded(b)[r] = q.days
      BY <1>1, <1>4, <1>6, <2>1, UnrecordedStep
    <2>3. balances[b].used \in Nat /\ balances[b].total \in Nat
      BY <1>2, <1>6, LeaveRows DEF LeaveTyped, TypeOK
    <2>4. taken[b] \in Nat /\ granted[b] \in Nat BY DEF LeaveTyped, TypeOK
    <2>5. balances'[b].total - balances[b].total
             = granted'[b] - granted[b] + (Unrecorded(b)'[r] - Unrecorded(b)[r])
      <3>1. /\ balances'[b].total = balances[b].total /\ granted'[b] = granted[b] + q.days
            /\ q.days \in Nat
        BY <1>2, <1>3, <1>4, <1>6
      <3> QED BY <1>2, <1>6, <2>2, <2>3, <2>4, <3>1
    <2> QED BY <1>2, <1>3, <1>6, <2>3, <2>4, <2>5, KeptStep
  <1> QED BY <1>5, <1>6

(* All actions keep every balance.                                         *)
LEMMA BalanceKeptActs ==
    ASSUME LeaveAssumption, LeaveKnown, LeaveTyped', NEW r \in Requests, Acts(r),
           NEW b \in Balances, BalanceKept(b)
    PROVE  BalanceKept(b)'
  <1>1. OwnStep(r) BY ActsOwn DEF LeaveKnown
  <1>2. LeaveTyped /\ r \in DOMAIN req /\ Idle.pc = "idle" /\ req[r] \in Request
    BY RequestMade DEF LeaveKnown, LeaveTyped, TypeOK
  <1>3. ASSUME UNCHANGED <<balances, granted, taken>>,
               \/ b \in broken'
               \/ /\ ~(req[r].pc = "record" /\ req[r].balance = b) /\ req'[r].pc # "record"
        PROVE  BalanceKept(b)'
    BY <1>1, <1>2, <1>3, KeptSilent
  <1>4. CASE Starting(r)
    <2>1. UNCHANGED <<table, taken>> /\ req[r] = Idle
      BY <1>4 DEF Starting, FindToApply, FindToGrant, LoadToDecide, Begin
    <2>2. req'[r].pc # "record"
      <3>1. ASSUME NEW a \in Accounts, NEW l \in Leaves, NEW c \in Balances, FindToApply(r, a, l, c)
            PROVE  req'[r].pc # "record"
        BY <1>2, <3>1 DEF FindToApply, Begin
      <3>2. ASSUME NEW a \in Comp, NEW n \in Days, NEW c \in Balances, FindToGrant(r, a, n, c)
            PROVE  req'[r].pc # "record"
        BY <1>2, <3>2 DEF FindToGrant, Begin
      <3>3. ASSUME NEW l \in Leaves, NEW s \in Decisions, LoadToDecide(r, l, s)
            PROVE  req'[r].pc # "record"
        BY <1>2, <3>3 DEF LoadToDecide, Begin
      <3> QED BY <1>4, <3>1, <3>2, <3>3 DEF Starting
    <2> QED BY <1>2, <1>3, <2>1, <2>2 DEF table
  <1>5. ASSUME NEW a \in Accounts, StartingToOpen(r, a) PROVE BalanceKept(b)'
    BY <1>2, <1>3, <1>5 DEF StartingToOpen, FindNoneToApply, FindNoneToInitialize,
                            FindNoneToGrant, FindNone, Open, Begin, table
  <1>6. ASSUME NEW c \in Balances, Inserting(r, c) PROVE BalanceKept(b)'
    BY <1>1, <1>2, <1>6, CreateKept
  <1>7. CASE Charging(r)
    <2>1. ASSUME NEW c \in Balances, FindToCharge(r, c)
          PROVE  req[r].pc = "find" /\ req'[r].pc # "record" /\ UNCHANGED <<table, taken>>
      BY <1>2, <2>1 DEF FindToCharge
    <2>2. ASSUME FindNoneToCharge(r)
          PROVE  req[r].pc = "find" /\ req'[r].pc # "record" /\ UNCHANGED <<table, taken>>
      <3>1. req[r].pc = "find" /\ req'[r] = [req[r] EXCEPT !.pc = "decide"]
        BY <1>2, <2>2 DEF FindNoneToCharge
      <3>2. req'[r].pc = "decide" BY <1>2, <3>1, RequestMade
      <3> QED BY <2>2, <3>1, <3>2 DEF FindNoneToCharge
    <2> QED BY <1>3, <1>7, <2>1, <2>2 DEF Charging, table
  <1>8. CASE Submit(r)
    BY <1>2, <1>3, <1>8 DEF Submit
  <1>9. CASE SaveDecided(r) BY <1>2, <1>3, <1>9 DEF SaveDecided, history
  <1>10. CASE Fail(r) BY <1>2, <1>3, <1>10 DEF Fail, table
  <1> QED
    BY <1>1, <1>2, <1>4, <1>5, <1>6, <1>7, <1>8, <1>9, <1>10, SaveChargedKept, SaveRaisedKept,
       RecordGrantKept DEF Acts

(* What is taken from and granted to a balance is what its row says,       *)
(* outside the listed races.                                               *)
THEOREM BalancesKeepChanges == Spec => []ChangesAreKept
  <1>1. ASSUME Init PROVE LeaveKept
    <2>1. LeaveKnown BY <1>1, LeaveAssumption, LeaveKnownInit
    <2>2. \A b \in Balances : balances[b] = NoRow /\ taken[b] = 0 /\ granted[b] = 0
      BY <1>1 DEF Init
    <2> QED BY <2>1, <2>2 DEF LeaveKept, BalanceKept
  <1>2. ASSUME LeaveKept, [Next]_vars PROVE LeaveKept'
    <2>1. LeaveKnown' BY <1>2, LeaveAssumption, LeaveKnownNext DEF LeaveKept
    <2>2. CASE NewYear \/ UNCHANGED vars
      <3>1. UNCHANGED <<balances, granted, req, raced, broken, taken>>
        BY <1>2, <2>2, LeaveAssumption, YearTurns DEF LeaveKept, LeaveKnown, history
      <3>2. \A b \in Balances : Unrecorded(b)' = Unrecorded(b) BY <3>1 DEF Unrecorded
      <3> QED BY <1>2, <2>1, <3>1, <3>2 DEF LeaveKept, BalanceKept
    <2>3. ASSUME NEW r \in Requests, Acts(r) PROVE LeaveKept'
      BY <1>2, <2>1, <2>3, LeaveAssumption, BalanceKeptActs DEF LeaveKept, LeaveKnown
    <2> QED BY <1>2, <2>2, <2>3, LeaveAssumption, RequestsAct
  <1>3. ASSUME LeaveKept PROVE ChangesAreKept
    <2> SUFFICES ASSUME NEW b \in Balances, b \notin raced, balances[b] # NoRow
                 PROVE  /\ balances[b].used = taken[b]
                        /\ \/ b \in broken
                           \/ \E r \in Requests : req[r].pc = "record" /\ req[r].balance = b
                           \/ balances[b].total = Quota[balances[b].account] + granted[b]
      BY DEF ChangesAreKept
    <2>1. LeaveTyped /\ BalanceKept(b) BY <1>3 DEF LeaveKept, LeaveKnown
    <2>2. ASSUME b \notin broken,
                 \A r \in Requests : ~(req[r].pc = "record" /\ req[r].balance = b)
          PROVE  balances[b].total = Quota[balances[b].account] + granted[b]
      <3>1. Sum(Unrecorded(b), Requests) = 0 BY <2>1, <2>2, LeaveAssumption, NothingUnrecorded
      <3>2. balances[b] \in BalanceRow /\ granted[b] \in Nat BY <2>1 DEF LeaveTyped, TypeOK
      <3>3. Quota[balances[b].account] \in Nat BY <3>2, LeaveAssumption, LeaveRows DEF LeaveAssumption
      <3> QED BY <2>1, <2>2, <3>1, <3>2, <3>3 DEF BalanceKept
    <2> QED BY <2>1, <2>2 DEF BalanceKept
  <1>4. Init => LeaveKept BY <1>1
  <1>5. LeaveKept /\ [Next]_vars => LeaveKept' BY <1>2
  <1>6. LeaveKept => ChangesAreKept BY <1>3
  <1> QED BY <1>4, <1>5, <1>6, PTL DEF Spec

(* A request that has found no balance and is about to insert one.         *)
WillOpen(r) == req[r].pc \in {"create", "open", "initialize"}

(* Two requests about to open the same account and year are contested, as  *)
(* is one that finds it opened.                                            *)
OpenedOnce(r) ==
    WillOpen(r) =>
        /\ \A p \in Requests \ {r} :
              WillOpen(p) /\ req[p].account = req[r].account /\ req[p].year = req[r].year
                 => <<req[r].account, req[r].year>> \in contested
        /\ \A b \in Balances :
              /\ balances[b] # NoRow
              /\ balances[b].account = req[r].account /\ balances[b].year = req[r].year
              => <<req[r].account, req[r].year>> \in contested

LeaveOpened == LeaveTyped /\ OneBalancePerYear /\ \A r \in Requests : OpenedOnce(r)

(* No balance is inserted and request r is not about to insert one.        *)
LEMMA OpenedSilent ==
    ASSUME LeaveAssumption, LeaveOpened, NEW r \in Requests, OwnStep(r),
           ~WillOpen(r)', \A b \in Balances : balances[b] = NoRow => balances'[b] = NoRow
    PROVE  OneBalancePerYear' /\ \A p \in Requests : OpenedOnce(p)'
  <1>1. /\ \A p \in Requests \ {r} : req'[p] = req[p] /\ (WillOpen(p)' <=> WillOpen(p))
        /\ contested \subseteq contested'
    BY DEF OwnStep, WillOpen
  <1>2. \A b \in Balances : balances'[b] # NoRow =>
           /\ balances[b] # NoRow
           /\ balances'[b].account = balances[b].account /\ balances'[b].year = balances[b].year
    BY DEF OwnStep, RowsStay
  <1>3. OneBalancePerYear'
    <2> SUFFICES ASSUME NEW b \in Balances, NEW c \in Balances, b # c,
                        balances'[b] # NoRow, balances'[c] # NoRow,
                        balances'[b].account = balances'[c].account,
                        balances'[b].year = balances'[c].year
                 PROVE  <<balances'[b].account, balances'[b].year>> \in contested'
      BY DEF OneBalancePerYear
    <2>1. <<balances[b].account, balances[b].year>> \in contested
      BY <1>2 DEF LeaveOpened, OneBalancePerYear
    <2> QED BY <1>1, <1>2, <2>1
  <1>4. ASSUME NEW p \in Requests, WillOpen(p)' PROVE OpenedOnce(p)'
    <2>1. p # r /\ req'[p] = req[p] /\ WillOpen(p) /\ OpenedOnce(p)
      BY <1>1, <1>4 DEF LeaveOpened
    <2>2. ASSUME NEW s \in Requests \ {p}, WillOpen(s)', req'[s].account = req'[p].account,
                 req'[s].year = req'[p].year
          PROVE  <<req'[p].account, req'[p].year>> \in contested'
      <3>1. req'[s] = req[s] /\ WillOpen(s) BY <1>1, <2>2
      <3> QED BY <1>1, <2>1, <2>2, <3>1 DEF OpenedOnce
    <2>3. ASSUME NEW b \in Balances, balances'[b] # NoRow,
                 balances'[b].account = req'[p].account, balances'[b].year = req'[p].year
          PROVE  <<req'[p].account, req'[p].year>> \in contested'
      BY <1>1, <1>2, <2>1, <2>3 DEF OpenedOnce
    <2> QED BY <2>2, <2>3 DEF OpenedOnce
  <1>5. \A p \in Requests : OpenedOnce(p)' BY <1>4 DEF OpenedOnce
  <1> QED BY <1>3, <1>5

(* A request finds no balance and is about to open one.                    *)
LEMMA OpenOpened ==
    ASSUME LeaveAssumption, LeaveOpened, NEW r \in Requests, OwnStep(r), NEW a \in Accounts,
           StartingToOpen(r, a)
    PROVE  OneBalancePerYear' /\ \A p \in Requests : OpenedOnce(p)'
  <1>1. /\ Found(a) = {} /\ UNCHANGED <<balances, year>>
        /\ contested' = IF Opening(r, a) THEN contested \cup {<<a, year>>} ELSE contested
        /\ req'[r].account = a /\ req'[r].year = year
    <2>1. r \in DOMAIN req BY DEF LeaveOpened, LeaveTyped, TypeOK
    <2> QED
      BY <2>1 DEF StartingToOpen, FindNoneToApply, FindNoneToInitialize, FindNoneToGrant,
                  FindNone, Open, Begin, table
  <1>2. /\ \A p \in Requests \ {r} : req'[p] = req[p] /\ (WillOpen(p)' <=> WillOpen(p))
        /\ contested \subseteq contested'
    BY DEF OwnStep, WillOpen
  <1>3. OneBalancePerYear' BY <1>1, <1>2 DEF LeaveOpened, OneBalancePerYear
  <1>4. ASSUME NEW p \in Requests \ {r}, WillOpen(p), req[p].account = a, req[p].year = year
        PROVE  <<a, year>> \in contested'
    <2>1. Opening(r, a) BY <1>4 DEF Opening, WillOpen
    <2> QED BY <1>1, <2>1
  <1>5. \A b \in Balances :
           ~(balances[b] # NoRow /\ balances[b].account = a /\ balances[b].year = year)
    BY <1>1 DEF Found
  <1>6. OpenedOnce(r)' BY <1>1, <1>2, <1>4, <1>5 DEF OpenedOnce
  <1>7. ASSUME NEW p \in Requests \ {r}, WillOpen(p)' PROVE OpenedOnce(p)'
    <2>1. req'[p] = req[p] /\ WillOpen(p) /\ OpenedOnce(p)
      BY <1>2, <1>7 DEF LeaveOpened
    <2>2. ASSUME NEW s \in Requests \ {p}, WillOpen(s)', req'[s].account = req'[p].account,
                 req'[s].year = req'[p].year
          PROVE  <<req'[p].account, req'[p].year>> \in contested'
      <3>1. CASE s = r BY <1>1, <1>4, <2>1, <2>2, <3>1
      <3>2. CASE s # r
        <4>1. req'[s] = req[s] /\ WillOpen(s) BY <1>2, <2>2, <3>2
        <4> QED BY <1>2, <2>1, <2>2, <4>1 DEF OpenedOnce
      <3> QED BY <3>1, <3>2
    <2>3. ASSUME NEW b \in Balances, balances'[b] # NoRow,
                 balances'[b].account = req'[p].account, balances'[b].year = req'[p].year
          PROVE  <<req'[p].account, req'[p].year>> \in contested'
      BY <1>1, <1>2, <2>1, <2>3 DEF OpenedOnce
    <2> QED BY <2>2, <2>3 DEF OpenedOnce
  <1>8. \A p \in Requests : OpenedOnce(p)' BY <1>6, <1>7 DEF OpenedOnce
  <1> QED BY <1>3, <1>8

(* A request inserts its balance.                                          *)
LEMMA CreateOpened ==
    ASSUME LeaveAssumption, LeaveOpened, NEW r \in Requests, OwnStep(r), NEW c \in Balances,
           Inserting(r, c)
    PROVE  OneBalancePerYear' /\ \A p \in Requests : OpenedOnce(p)'
  <1> DEFINE a == req[r].account
             looked == req[r].year
  <1>1. LeaveTyped /\ r \in DOMAIN req /\ Idle.pc = "idle"
    BY RequestMade DEF LeaveOpened, LeaveTyped, TypeOK
  <1>2. WillOpen(r) /\ ~WillOpen(r)'
    BY <1>1 DEF Inserting, CreateToApply, CreateToInitialize, OpenToGrant, WillOpen
  <1>3. PICK total : Insert(c, a, looked, total)
    BY DEF Inserting, CreateToApply, CreateToInitialize, OpenToGrant
  <1>4. /\ balances[c] = NoRow
        /\ balances'[c].account = a /\ balances'[c].year = year
        /\ \A b \in Balances : b # c => balances'[b] = balances[b]
        /\ contested' = IF looked = year THEN contested ELSE contested \cup {<<a, year>>}
    BY <1>1, <1>3 DEF Insert, LeaveTyped, TypeOK
  <1> HIDE DEF a, looked
  <1>5. /\ \A p \in Requests \ {r} : req'[p] = req[p] /\ (WillOpen(p)' <=> WillOpen(p))
        /\ contested \subseteq contested'
    BY DEF OwnStep, WillOpen
  <1>6. ASSUME NEW b \in Balances, balances[b] # NoRow, balances[b].account = a,
               balances[b].year = year
        PROVE  <<a, year>> \in contested'
    <2>1. CASE looked = year
      <3>1. <<a, looked>> \in contested
        BY <1>2, <1>6, <2>1 DEF LeaveOpened, OpenedOnce, a, looked
      <3> QED BY <1>5, <2>1, <3>1
    <2>2. CASE looked # year BY <1>4, <2>2
    <2> QED BY <2>1, <2>2
  <1>7. ASSUME NEW p \in Requests \ {r}, WillOpen(p), req[p].account = a, req[p].year = year
        PROVE  <<a, year>> \in contested'
    <2>1. CASE looked = year
      <3>1. <<a, looked>> \in contested
        BY <1>2, <1>7, <2>1 DEF LeaveOpened, OpenedOnce, a, looked
      <3> QED BY <1>5, <2>1, <3>1
    <2>2. CASE looked # year BY <1>4, <2>2
    <2> QED BY <2>1, <2>2
  <1>8. OneBalancePerYear'
    <2> SUFFICES ASSUME NEW b \in Balances, NEW d \in Balances, b # d,
                        balances'[b] # NoRow, balances'[d] # NoRow,
                        balances'[b].account = balances'[d].account,
                        balances'[b].year = balances'[d].year
                 PROVE  <<balances'[b].account, balances'[b].year>> \in contested'
      BY DEF OneBalancePerYear
    <2>1. CASE b = c BY <1>4, <1>6, <2>1
    <2>2. CASE d = c BY <1>4, <1>6, <2>2
    <2>3. CASE b # c /\ d # c
      <3>1. <<balances[b].account, balances[b].year>> \in contested
        BY <1>4, <2>3 DEF LeaveOpened, OneBalancePerYear
      <3> QED BY <1>4, <1>5, <2>3, <3>1
    <2> QED BY <2>1, <2>2, <2>3
  <1>9. ASSUME NEW p \in Requests, WillOpen(p)' PROVE OpenedOnce(p)'
    <2>1. p # r /\ req'[p] = req[p] /\ WillOpen(p) /\ OpenedOnce(p)
      BY <1>2, <1>5, <1>9 DEF LeaveOpened
    <2>2. ASSUME NEW s \in Requests \ {p}, WillOpen(s)', req'[s].account = req'[p].account,
                 req'[s].year = req'[p].year
          PROVE  <<req'[p].account, req'[p].year>> \in contested'
      <3>1. req'[s] = req[s] /\ WillOpen(s) BY <1>2, <1>5, <2>2
      <3> QED BY <1>5, <2>1, <2>2, <3>1 DEF OpenedOnce
    <2>3. ASSUME NEW b \in Balances, balances'[b] # NoRow,
                 balances'[b].account = req'[p].account, balances'[b].year = req'[p].year
          PROVE  <<req'[p].account, req'[p].year>> \in contested'
      <3>1. CASE b = c BY <1>4, <1>7, <2>1, <2>3, <3>1
      <3>2. CASE b # c BY <1>4, <1>5, <2>1, <2>3, <3>2 DEF OpenedOnce
      <3> QED BY <3>1, <3>2
    <2> QED BY <2>2, <2>3 DEF OpenedOnce
  <1>10. \A p \in Requests : OpenedOnce(p)' BY <1>9 DEF OpenedOnce
  <1> QED BY <1>8, <1>10

(* All actions keep the accounts opened once.                              *)
LEMMA LeaveOpenedActs ==
    ASSUME LeaveAssumption, LeaveOpened, NEW r \in Requests, Acts(r)
    PROVE  OneBalancePerYear' /\ \A p \in Requests : OpenedOnce(p)'
  <1>1. OwnStep(r) BY ActsOwn DEF LeaveOpened
  <1>2. LeaveTyped /\ r \in DOMAIN req /\ Idle.pc = "idle"
    BY RequestMade DEF LeaveOpened, LeaveTyped, TypeOK
  <1> DEFINE Right == OneBalancePerYear' /\ \A p \in Requests : OpenedOnce(p)'
             Unopened == \A b \in Balances : balances[b] = NoRow => balances'[b] = NoRow
  <1> SUFFICES Right OBVIOUS
  <1>3. ASSUME req'[r].pc \notin {"create", "open", "initialize"}, Unopened PROVE Right
    BY <1>1, <1>3, OpenedSilent DEF WillOpen
  <1>4. ASSUME NEW a \in Accounts, StartingToOpen(r, a) PROVE Right
    BY <1>1, <1>4, OpenOpened
  <1>5. ASSUME NEW c \in Balances, Inserting(r, c) PROVE Right
    BY <1>1, <1>5, CreateOpened
  <1> HIDE DEF Right
  <1>6. ASSUME NEW a \in Accounts, NEW l \in Leaves, NEW b \in Balances, FindToApply(r, a, l, b)
        PROVE  Right
    BY <1>2, <1>3, <1>6 DEF FindToApply, Begin, table
  <1>7. ASSUME NEW a \in Comp, NEW n \in Days, NEW b \in Balances, FindToGrant(r, a, n, b)
        PROVE  Right
    BY <1>2, <1>3, <1>7 DEF FindToGrant, Begin, table
  <1>8. ASSUME NEW l \in Leaves, NEW s \in Decisions, LoadToDecide(r, l, s) PROVE Right
    BY <1>2, <1>3, <1>8 DEF LoadToDecide, Begin, table
  <1>9. ASSUME NEW b \in Balances, FindToCharge(r, b) PROVE Right
    BY <1>2, <1>3, <1>9 DEF FindToCharge, table
  <1>10. ASSUME FindNoneToCharge(r) PROVE Right
    <2>1. req[r] \in Request /\ req[r].pc = "find" /\ req'[r] = [req[r] EXCEPT !.pc = "decide"]
      BY <1>2, <1>10 DEF FindNoneToCharge, LeaveTyped, TypeOK
    <2>2. req'[r].pc = "decide" BY <2>1, RequestMade
    <2> QED BY <1>3, <1>10, <2>2 DEF FindNoneToCharge, table
  <1>11. ASSUME Submit(r) PROVE Right
    BY <1>2, <1>3, <1>11 DEF Submit
  <1>12. ASSUME SaveCharged(r) PROVE Right
    <2> DEFINE q == req[r]
               new == [q EXCEPT !.pc = "settle"]
               row == Charged(q.row, leaves[q.leave].days)
    <2>1. /\ balances[q.balance] # NoRow /\ new.pc = "settle"
          /\ balances' = [balances EXCEPT ![q.balance] = row]
          /\ req' = [req EXCEPT ![r] = new]
      BY <1>2, <1>12, SaveChargedFields
    <2> HIDE DEF q, new, row
    <2> QED BY <1>2, <1>3, <2>1 DEF LeaveTyped, TypeOK
  <1>13. ASSUME SaveRaised(r) PROVE Right
    <2> DEFINE q == req[r]
               new == [q EXCEPT !.pc = "record"]
               row == Raised(q.row, q.days)
    <2>1. /\ balances[q.balance] # NoRow /\ new.pc = "record"
          /\ balances' = [balances EXCEPT ![q.balance] = row]
          /\ req' = [req EXCEPT ![r] = new]
      BY <1>2, <1>13, SaveRaisedFields
    <2> HIDE DEF q, new, row
    <2> QED BY <1>2, <1>3, <2>1 DEF LeaveTyped, TypeOK
  <1>14. ASSUME SaveDecided(r) \/ RecordGrant(r) \/ Fail(r) PROVE Right
    BY <1>2, <1>3, <1>14 DEF SaveDecided, RecordGrant, Fail, table
  <1> QED
    BY <1>4, <1>5, <1>6, <1>7, <1>8, <1>9, <1>10, <1>11, <1>12, <1>13, <1>14
       DEF Acts, Starting, Charging

(* An account has two balances in a year only when two requests opened it  *)
(* at once or the year turned meanwhile.                                   *)
THEOREM BalancesOpenedOnce == Spec => []OneBalancePerYear
  <1>1. ASSUME Init PROVE LeaveOpened
    <2>1. LeaveTyped /\ \A r \in Requests : req[r].pc = "idle"
      BY <1>1, LeaveAssumption, LeaveKnownInit DEF LeaveKnown
    <2>2. OneBalancePerYear BY <1>1 DEF Init, OneBalancePerYear
    <2> QED BY <2>1, <2>2 DEF LeaveOpened, OpenedOnce, WillOpen
  <1>2. ASSUME LeaveOpened, [Next]_vars PROVE LeaveOpened'
    <2>1. LeaveTyped' BY <1>2, LeaveAssumption, LeaveTypedNext DEF LeaveOpened
    <2>2. CASE NewYear \/ UNCHANGED vars
      <3>1. UNCHANGED <<balances, req, contested>>
        BY <1>2, <2>2, LeaveAssumption, YearTurns DEF LeaveOpened, history
      <3> QED BY <1>2, <2>1, <3>1 DEF LeaveOpened, OneBalancePerYear, OpenedOnce, WillOpen
    <2>3. ASSUME NEW r \in Requests, Acts(r) PROVE LeaveOpened'
      BY <1>2, <2>1, <2>3, LeaveAssumption, LeaveOpenedActs DEF LeaveOpened
    <2> QED BY <1>2, <2>2, <2>3, LeaveAssumption, RequestsAct
  <1>3. LeaveOpened => OneBalancePerYear BY DEF LeaveOpened
  <1>4. Init => LeaveOpened BY <1>1
  <1>5. LeaveOpened /\ [Next]_vars => LeaveOpened' BY <1>2
  <1> QED BY <1>3, <1>4, <1>5, PTL DEF Spec
=============================================================================
