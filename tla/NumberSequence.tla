--------------------------- MODULE NumberSequence ---------------------------
(***************************************************************************)
(* The auto-number sequence of one document type of one tenant:            *)
(* getNextNumber, a transaction that locks the row it finds, and           *)
(* configureSequence, which reads and saves a row without one.             *)
(*                                                                         *)
(* Nothing in the table makes the row of a document type unique.           *)
(***************************************************************************)
EXTENDS Integers, Sequences

CONSTANTS
    Rows,       \* bound: the rows the table has room for
    Callers,    \* requests the API may serve at the same time
    Calls,      \* the operations callers use
    NextValues, \* the nextValue callers configure, if any
    MaxNumbers  \* bound: no transaction begins after so many numbers

ASSUME SequenceAssumption ==
    /\ Calls \subseteq {"next", "configure"}
    /\ NextValues \subseteq Nat \ {0}
    /\ MaxNumbers \in Nat

VARIABLES
    rows,       \* the rows there are
    next,       \* nextValue of a row
    active,     \* the rows with isActive
    call,       \* the requests in progress
    issued,     \* the numbers given out, in the order of the commits
    \* history, read by the properties only
    start,      \* the nextValue configured last, and how many numbers came before
    disturbed   \* a second row was inserted, or a counter overwritten

sequences == <<rows, next, active>>
course == <<start, disturbed>>
sequenceVars == <<sequences, call, issued, course>>

First == 1

NoCall == [pc |-> "idle"]
(* A row in memory: found in the table, or not yet inserted. *)
Taking == [pc : {"take"}, row : Rows, value : Nat \ {0}]
Creating == [pc : {"create", "create configured"}, value : Nat \ {0}]
Configuring == [pc : {"configure"}, row : Rows, value : Nat \ {0}]

SequenceTypeOK ==
    /\ rows \subseteq Rows
    /\ next \in [Rows -> Nat \ {0}]
    /\ active \subseteq rows
    /\ call \in [Callers -> {NoCall} \cup Taking \cup Creating \cup Configuring]
    /\ issued \in Seq(Nat \ {0})
    /\ start \in [from : Nat \ {0}, at : Nat]
    /\ disturbed \in BOOLEAN

SequenceInit ==
    /\ rows = {}
    /\ next = [x \in Rows |-> 1]
    /\ active = {}
    /\ call = [r \in Callers |-> NoCall]
    /\ issued = <<>>
    /\ start = [from |-> First, at |-> 0]
    /\ disturbed = FALSE

----------------------------------------------------------------------------
Locks(r, x) == call[r].pc = "take" /\ call[r].row = x

\* A mutant of Free: the row is read without a lock.
FreeAlways(r, x) == TRUE
Free(r, x) == \A p \in Callers \ {r} : ~Locks(p, x)

(* findOne with pessimistic_write: one of the active rows, once nobody     *)
(* else has it locked.                                                     *)
Find(r, x) ==
    /\ call[r] = NoCall
    /\ Len(issued) < MaxNumbers  \* bound
    /\ x \in active
    /\ Free(r, x)
    /\ call' = [call EXCEPT ![r] = [pc |-> "take", row |-> x, value |-> next[x]]]
    /\ UNCHANGED <<sequences, issued, course>>

FindNoRow(r) ==
    /\ call[r] = NoCall
    /\ Len(issued) < MaxNumbers  \* bound
    /\ active = {}
    /\ call' = [call EXCEPT ![r] = [pc |-> "create", value |-> First]]
    /\ UNCHANGED <<sequences, issued, course>>

After(n) == n + 1

(* The save and the commit; the caller gets the number. *)
Take(r) ==
    LET q == call[r] IN
    /\ q.pc = "take"
    /\ next' = [next EXCEPT ![q.row] = After(q.value)]
    /\ issued' = Append(issued, q.value)
    /\ call' = [call EXCEPT ![r] = NoCall]
    /\ UNCHANGED <<rows, active, course>>

InsertRow(x, value, isActive) ==
    /\ x \notin rows
    /\ rows' = rows \cup {x}
    /\ active' = IF isActive THEN active \cup {x} ELSE active
    /\ next' = [next EXCEPT ![x] = value]
    /\ disturbed' = (disturbed \/ rows # {})

Create(r, x) ==
    /\ call[r].pc = "create"
    /\ InsertRow(x, After(call[r].value), TRUE)
    /\ issued' = Append(issued, call[r].value)
    /\ call' = [call EXCEPT ![r] = NoCall]
    /\ UNCHANGED start

(* configureSequence finds a row, active or not, or none. *)
FindToConfigure(r) ==
    /\ call[r] = NoCall
    /\ Len(issued) < MaxNumbers  \* bound
    /\ \/ rows = {} /\ call' = [call EXCEPT ![r] = [pc |-> "create configured", value |-> First]]
       \/ \E x \in rows :
             call' = [call EXCEPT ![r] = [pc |-> "configure", row |-> x, value |-> next[x]]]
    /\ UNCHANGED <<sequences, issued, course>>

(* The caller's configuration says which number comes next. *)
StartAt(n) == start' = [from |-> n, at |-> Len(issued)]

(* It saves the whole row: the caller's nextValue or else the counter it   *)
(* had read, and isActive as the caller wants it.  The save waits for the  *)
(* lock of a getNextNumber.                                                *)
Configure(r) ==
    LET q == call[r] IN
    /\ q.pc = "configure"
    /\ \A p \in Callers : ~Locks(p, q.row)
    /\ \/ /\ next' = [next EXCEPT ![q.row] = q.value]
          /\ disturbed' = (disturbed \/ next[q.row] # q.value)
          /\ UNCHANGED start
       \/ \E n \in NextValues :
             next' = [next EXCEPT ![q.row] = n] /\ StartAt(n) /\ UNCHANGED disturbed
    /\ active' \in {active \cup {q.row}, active \ {q.row}}
    /\ call' = [call EXCEPT ![r] = NoCall]
    /\ UNCHANGED <<rows, issued>>

CreateConfigured(r, x) ==
    /\ call[r].pc = "create configured"
    /\ \E n \in NextValues \cup {call[r].value}, isActive \in BOOLEAN :
          InsertRow(x, n, isActive) /\ StartAt(n)
    /\ call' = [call EXCEPT ![r] = NoCall]
    /\ UNCHANGED issued

(* A request that fails is rolled back, and gives out no number. *)
Rollback(r) ==
    /\ call[r] # NoCall
    /\ call' = [call EXCEPT ![r] = NoCall]
    /\ UNCHANGED <<sequences, issued, course>>

SequenceNext ==
    \E r \in Callers :
        \/ "next" \in Calls /\ ((\E x \in Rows : Find(r, x)) \/ FindNoRow(r))
        \/ "configure" \in Calls /\ FindToConfigure(r)
        \/ \E x \in Rows : Create(r, x) \/ CreateConfigured(r, x)
        \/ Take(r) \/ Configure(r) \/ Rollback(r)

SequenceSpec == SequenceInit /\ [][SequenceNext]_sequenceVars

----------------------------------------------------------------------------
Promise == INSTANCE ConsecutiveNumbers

(* The numbers are consecutive from the one that was configured last,      *)
(* whatever transactions overlap or fail, as long as the document type has *)
(* one row and no configureSequence that names no number writes a counter  *)
(* back that has moved since.                                              *)
IsConsecutive == Promise!Spec
=============================================================================
