--------------------------- MODULE ConnectionPool ---------------------------
(***************************************************************************)
(* The connection pool that everything in one API process shares.          *)
(*                                                                         *)
(* The handler of a tenant's request runs inside runInTenantContext, which *)
(* keeps a connection until the handler ends.  The services check out      *)
(* further ones meanwhile: a repository takes one for each of its queries, *)
(* dataSource.transaction one until it commits or rolls back, and some     *)
(* transactions query a repository that is not their manager's, or call a  *)
(* service that opens a transaction of its own.  The recruitment service   *)
(* takes query runners that nobody releases.                               *)
(*                                                                         *)
(* The pool is configured without a limit to the time a caller waits.      *)
(***************************************************************************)
EXTENDS Naturals, Sequences, FiniteSets

CONSTANTS
    TenantRequests, \* those the process may serve at the same time
    Jobs,       \* work outside a tenant context: queue workers, crons, audit logs
    RunnersOf,  \* how often the handler of a request calls getRepo of the recruitment service
    Queries,    \* the queries one handler may have in flight (Promise.all)
    PoolSize    \* the connections of the pool

Tasks == TenantRequests \cup Jobs
(* What a connection is kept for while its holder does something else.     *)
Scopes == {"context", "transaction", "inner"}
(* A use of a connection: whose, and what for.                             *)
Held == Tasks \X (Scopes \cup Queries)
Uses == Held \cup (Tasks \X {"runner"})

ASSUME PoolAssumption ==
    /\ IsFiniteSet(TenantRequests)
    /\ IsFiniteSet(Jobs)
    /\ TenantRequests \cap Jobs = {}
    /\ RunnersOf \in [TenantRequests -> Nat]
    /\ Queries \cap (Scopes \cup {"runner"}) = {}
    /\ PoolSize \in Nat

VARIABLES
    held,       \* the uses that have a connection
    leaked,     \* the connections of query runners that nobody will release
    queue,      \* the uses that wait for one, in the order of the pool
    repos       \* how often the handler of a request has called getRepo

poolVars == <<held, leaked, queue, repos>>

PoolTypeOK ==
    /\ held \subseteq Held
    /\ leaked \in Nat
    /\ queue \in Seq(Uses)
    /\ repos \in [TenantRequests -> Nat]
    /\ Cardinality(held) + leaked =< PoolSize

PoolInit ==
    /\ held = {}
    /\ leaked = 0
    /\ queue = <<>>
    /\ repos = [t \in TenantRequests |-> 0]

----------------------------------------------------------------------------
Waiting == {queue[i] : i \in 1..Len(queue)}
Waits(t) == \E u \in Waiting : u[1] = t
Keeps(t, k) == <<t, k>> \in held

(* A query of t is under way: it has its connection, or waits for it.      *)
Querying(t) == \E q \in Queries : Keeps(t, q) \/ <<t, q>> \in Waiting

Ask(t, k) ==
    /\ queue' = Append(queue, <<t, k>>)
    /\ UNCHANGED <<held, leaked>>

(* TenantInterceptor: the context of the handler, before anything else.    *)
AskContext(t) ==
    /\ t \in TenantRequests
    /\ ~Waits(t)
    /\ \A u \in held : u[1] # t
    /\ Ask(t, "context")
    /\ repos' = [repos EXCEPT ![t] = 0]

\* A mutant of MayQuery: adjustStock reads through a repository of its own.
MayQueryInner(t) == \A k \in Scopes \cup {"runner"} : <<t, k>> \notin Waiting
(* Where a repository is queried: in middleware and guards (outside every  *)
(* scope), in the handler, and from a transaction, which then waits for a  *)
(* second connection; not from adjustStock and receiveStock, which use     *)
(* their own manager only.                                                 *)
MayQuery(t) ==
    /\ \A k \in Scopes \cup {"runner"} : <<t, k>> \notin Waiting
    /\ ~Keeps(t, "inner")

AskQuery(t, q) ==
    /\ MayQuery(t)
    /\ <<t, q>> \notin held \cup Waiting
    /\ Ask(t, q)
    /\ UNCHANGED repos

(* The handler of a request is inside its context.                         *)
Handling(t) ==
    /\ t \in TenantRequests => Keeps(t, "context")
    /\ ~Waits(t)
    /\ ~Querying(t)

Recruiting == {t \in TenantRequests : RunnersOf[t] > 0}

(* The handlers of the recruitment service open no transaction.            *)
AskTransaction(t) ==
    /\ Handling(t)
    /\ t \notin Recruiting
    /\ ~Keeps(t, "transaction")
    /\ Ask(t, "transaction")
    /\ UNCHANGED repos

(* completeStockCount calls adjustStock, createGRN calls receiveStock, and *)
(* createPurchaseReturn calls issueStock, inside a transaction.           *)
AskInner(t) ==
    /\ Handling(t)
    /\ Keeps(t, "transaction")
    /\ ~Keeps(t, "inner")
    /\ Ask(t, "inner")
    /\ UNCHANGED repos

(* getRepo of the recruitment service, for each repository a handler uses. *)
AskRunner(t) ==
    /\ t \in Recruiting
    /\ Handling(t)
    /\ ~Keeps(t, "transaction")
    /\ repos[t] < RunnersOf[t]
    /\ Ask(t, "runner")
    /\ repos' = [repos EXCEPT ![t] = @ + 1]

----------------------------------------------------------------------------
(* getTenantManager returns the manager of its query runner; the runner    *)
(* goes out of scope and release is never called.                          *)
Leaks(u) == u[2] = "runner"

Available(u) == Cardinality(held) + leaked < PoolSize

(* pg-pool: the first in the queue gets a connection that is free.         *)
Grant ==
    /\ queue # <<>>
    /\ Available(Head(queue))
    /\ queue' = Tail(queue)
    /\ IF Leaks(Head(queue))
       THEN leaked' = leaked + 1 /\ UNCHANGED held
       ELSE held' = held \cup {Head(queue)} /\ UNCHANGED leaked
    /\ UNCHANGED repos

\* A mutant of Ends: a transaction gives up while its query still waits.
EndsTransaction(t, k) == k \in Queries \/ k = "transaction"
\* A mutant of Ends: runInTenantContext without its finally.
EndsButContext(t, k) ==
    \/ k \in Queries
    \/ ~Waits(t) /\ ~Querying(t) /\ k \in {"transaction", "inner"}
(* A scope ends, by return or by throw, when nothing inside it is left; a  *)
(* query ends by itself.                                                   *)
Ends(t, k) ==
    \/ k \in Queries
    \/ /\ ~Waits(t)
       /\ ~Querying(t)
       /\ k = "context" => ~Keeps(t, "transaction")
       /\ k = "transaction" => ~Keeps(t, "inner")

(* The finally of runInTenantContext; commit or rollback; end of a query.  *)
Release(t, k) ==
    /\ Keeps(t, k)
    /\ Ends(t, k)
    /\ held' = held \ {<<t, k>>}
    /\ UNCHANGED <<leaked, queue, repos>>

PoolNext ==
    \/ \E t \in Tasks :
          \/ AskContext(t)
          \/ \E q \in Queries : AskQuery(t, q)
          \/ AskTransaction(t)
          \/ AskInner(t)
          \/ AskRunner(t)
          \/ \E k \in Scopes \cup Queries : Release(t, k)
    \/ Grant

PoolSpec == PoolInit /\ [][PoolNext]_poolVars

(* The pool serves its queue, a query that has its connection ends, and so *)
(* does an inner transaction, in which nothing waits.  A handler that is   *)
(* served whenever it asks comes to its end: handlers are finite programs, *)
(* so a scope that can end again and again does end.                       *)
FairSpec ==
    /\ PoolSpec
    /\ WF_poolVars(Grant)
    /\ \A t \in Tasks :
          /\ \A k \in Queries \cup {"inner"} : WF_poolVars(Release(t, k))
          /\ \A k \in {"context", "transaction"} : SF_poolVars(Release(t, k))

----------------------------------------------------------------------------
(* Nobody can give a connection back: each is leaked, or kept by a task    *)
(* that itself waits for the pool.                                         *)
Exhausted ==
    /\ queue # <<>>
    /\ Cardinality(held) + leaked = PoolSize
    /\ \A u \in held : u[2] \in Scopes /\ Waits(u[1])

WaitingRequests == {t \in TenantRequests : Waits(t)}
WaitingJobs == {t \in Jobs : Waits(t)}

(***************************************************************************)
(* The load it takes to exhaust the pool: each waiting request keeps at    *)
(* most its context and one transaction, each waiting job one transaction, *)
(* and the rest must have been leaked.  A pool larger than that is never   *)
(* exhausted (completeStockCount and createGRN, which need three           *)
(* connections, do not add to it).                                         *)
(***************************************************************************)
ExhaustionNeedsLoad ==
    Exhausted =>
        PoolSize =< leaked + 2 * Cardinality(WaitingRequests)
                           + Cardinality(WaitingJobs)

(***************************************************************************)
(* No later call gets an exhausted pool going again: no caller gives up    *)
(* waiting, so the process hangs until it is restarted.                    *)
(***************************************************************************)
ExhaustedForEver == [][Exhausted => Exhausted']_poolVars

(***************************************************************************)
(* Nothing else makes a caller of the pool wait for ever: whoever waits is *)
(* served, however many come after, unless the pool is exhausted.          *)
(***************************************************************************)
ServedUnlessExhausted ==
    \A u \in Uses : u \in Waiting ~> (u \notin Waiting \/ Exhausted)

(***************************************************************************)
(* What the architecture document says of the pool: a caller waits for a   *)
(* connection five seconds at most.  Whoever waits stops waiting.          *)
(***************************************************************************)
WaitingEnds == \A u \in Uses : u \in Waiting ~> u \notin Waiting
=============================================================================
