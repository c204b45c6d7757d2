--------------------------- MODULE LeaveBalances ---------------------------
(***************************************************************************)
(* Leave requests and the balances they are deducted from:                 *)
(* leave.service.ts.                                                       *)
(*                                                                         *)
(* No operation is a transaction and no row is locked: each finds the      *)
(* balance of an account in the fiscal year of the clock, decides on what  *)
(* it has read and saves its rows one after the other.  The table has no   *)
(* unique index, so an account can have several balances in a year, and a  *)
(* search returns any of them.  An account is an employee's leave type.    *)
(* A new leave cannot be saved through the API: its body has no totalDays, *)
(* which the table requires.  The leaves here are rows inserted otherwise; *)
(* an application names one of them and is saved over it.                  *)
(***************************************************************************)
EXTENDS Integers, FiniteSets

CONSTANTS
    Accounts,    \* the leave types of the employees
    Comp,        \* those of type COMPENSATORY, which grants are added to
    Quota,       \* the pro-rated days of an account
    Balances,    \* rows of balances
    Leaves,      \* rows of leave requests
    Days,        \* the days of leaves and of grants
    Decisions,   \* the statuses callers decide
    Requests,    \* requests the API may serve at the same time
    MaxYear,     \* bound: fiscal years
    MaxCalls     \* bound: requests that start

LeaveStatus == {"PENDING", "APPROVED_BY_MANAGER", "APPROVED", "REJECTED", "CANCELLED"}

ASSUME LeaveAssumption ==
    /\ Comp \subseteq Accounts
    /\ Quota \in [Accounts -> Nat] /\ \A a \in Comp : Quota[a] = 0
    /\ Balances \cap Leaves = {}
    /\ Days \subseteq Nat \ {0}
    /\ Decisions \subseteq LeaveStatus
    /\ IsFiniteSet(Requests)
    /\ MaxYear \in Nat \ {0} /\ MaxCalls \in Nat

VARIABLES
    balances,   \* the row of every balance
    leaves,     \* the row of every leave request
    granted,    \* the days of the grants recorded for a balance
    year,       \* the fiscal year of the clock
    req,        \* the requests in progress
    calls,      \* how many requests have started
    \* history, read by the properties only
    raced,      \* rows two requests have held at the same time
    contested,  \* accounts and years two requests were to open at once
    broken,     \* rows a request failed on half way
    charges,    \* how often a leave was deducted
    taken,      \* the days deducted from a balance
    reopened,   \* leaves decided or applied for again after their approval
    uncharged   \* leaves approved while the account had no balance

table == <<balances, leaves, granted, year>>
history == <<raced, contested, broken, charges, taken, reopened, uncharged>>
vars == <<table, req, calls, history>>

Years == 1 .. MaxYear
NoRow == [status |-> "NONE"]
BalanceRow == [account : Accounts, year : Years, total : Nat, used : Nat]
LeaveRow == [account : Accounts, days : Nat, status : LeaveStatus]

Idle == [pc |-> "idle"]
Request ==
    {Idle}
    \cup [pc : {"create"}, account : Accounts, leave : Leaves, year : Years]
    \cup [pc : {"initialize"}, account : Accounts, year : Years]
    \cup [pc : {"open"}, account : Accounts, days : Nat, year : Years]
    \cup [pc : {"submit"}, account : Accounts, leave : Leaves]
    \cup [pc : {"grant", "record"}, balance : Balances, row : BalanceRow, days : Nat]
    \cup [pc : {"find", "decide"}, leave : Leaves, account : Accounts, status : LeaveStatus]
    \cup [pc : {"charge", "settle"}, leave : Leaves, account : Accounts, status : LeaveStatus,
          balance : Balances, row : BalanceRow]

TypeOK ==
    /\ balances \in [Balances -> BalanceRow \cup {NoRow}]
    /\ leaves \in [Leaves -> LeaveRow]
    /\ granted \in [Balances -> Nat] /\ year \in Years
    /\ req \in [Requests -> Request] /\ calls \in Nat
    /\ raced \subseteq Balances \cup Leaves /\ broken \subseteq Balances \cup Leaves
    /\ contested \subseteq Accounts \X Years
    /\ charges \in [Leaves -> Nat] /\ taken \in [Balances -> Nat]
    /\ reopened \subseteq Leaves /\ uncharged \subseteq Leaves

Init ==
    /\ balances = [b \in Balances |-> NoRow]
    /\ leaves \in [Leaves -> [account : Accounts, days : Days, status : {"PENDING"}]]
    /\ granted = [b \in Balances |-> 0] /\ year = 1
    /\ req = [r \in Requests |-> Idle] /\ calls = 0
    /\ raced = {} /\ contested = {} /\ broken = {}
    /\ charges = [l \in Leaves |-> 0] /\ taken = [b \in Balances |-> 0]
    /\ reopened = {} /\ uncharged = {}

----------------------------------------------------------------------------
\* The rows a request has in memory and may still save.
Holds(r) ==
    CASE req[r].pc = "grant"              -> {req[r].balance}
      [] req[r].pc \in {"find", "decide", "settle"} -> {req[r].leave}
      [] req[r].pc = "charge"             -> {req[r].leave, req[r].balance}
      [] OTHER                            -> {}

Raced(r, rows) == raced \cup {k \in rows : \E p \in Requests \ {r} : k \in Holds(p)}

\* Another request has found no balance either and is about to insert one.
Opening(r, a) ==
    \E p \in Requests \ {r} :
        /\ req[p].pc \in {"create", "open", "initialize"}
        /\ req[p].account = a /\ req[p].year = year

Begin(r, new) ==
    /\ req[r] = Idle
    /\ calls < MaxCalls  \* bound
    /\ calls' = calls + 1
    /\ req' = [req EXCEPT ![r] = new]
    /\ UNCHANGED <<table, broken, charges, taken, uncharged>>

\* The balances a search for account a may return.
Found(a) == {b \in Balances : balances[b] # NoRow /\ balances[b].account = a
                              /\ balances[b].year = year}

\* Request r, which is to become new, finds no balance of account a.
Open(r, a, new) ==
    /\ Begin(r, new)
    /\ contested' = IF Opening(r, a) THEN contested \cup {<<a, year>>} ELSE contested
    /\ UNCHANGED <<raced, reopened>>

\* A mutant of FindNone: the balances of the account are not searched.
FindNoneBlind(r, a, new) == Open(r, a, new)
FindNone(r, a, new) == Found(a) = {} /\ Open(r, a, new)

(* A balance is inserted for the year of the clock, not of the search.     *)
Insert(b, a, looked, total) ==
    /\ balances[b] = NoRow
    /\ balances' = [balances EXCEPT ![b] =
                      [account |-> a, year |-> year, total |-> total, used |-> 0]]
    /\ contested' = IF looked = year THEN contested ELSE contested \cup {<<a, year>>}

----------------------------------------------------------------------------
(* applyLeave of leave l.  "Check balance first" compares the days free in *)
(* the balance with totalDays, which the body of a request never has: the  *)
(* comparison refuses nothing, so a balance is found or opened for it, and *)
(* its days do not matter.                                                 *)
FindToApply(r, a, l, b) ==
    /\ b \in Found(a)
    /\ Begin(r, [pc |-> "submit", account |-> a, leave |-> l])
    /\ UNCHANGED <<raced, contested, reopened>>

FindNoneToApply(r, a, l) ==
    FindNone(r, a, [pc |-> "create", account |-> a, leave |-> l, year |-> year])

CreateToApply(r, b) ==
    LET q == req[r] IN
    /\ q.pc = "create"
    /\ Insert(b, q.account, q.year, Quota[q.account])
    /\ req' = [req EXCEPT ![r] = [pc |-> "submit", account |-> q.account, leave |-> q.leave]]
    /\ UNCHANGED <<leaves, granted, year, calls, raced, broken, charges, taken, reopened,
                   uncharged>>

(* A leave saved over: its days stay.                                      *)
Rewritten(row, a, s) == [account |-> a, days |-> row.days, status |-> s]

Reopened(l) == IF leaves[l].status = "APPROVED" THEN reopened \cup {l} ELSE reopened

(* The application is saved over the leave, whatever its status.           *)
Submit(r) ==
    LET q == req[r] IN
    /\ q.pc = "submit"
    /\ leaves' = [leaves EXCEPT ![q.leave] = Rewritten(@, q.account, "PENDING")]
    /\ req' = [req EXCEPT ![r] = Idle]
    /\ raced' = Raced(r, {q.leave})
    /\ reopened' = Reopened(q.leave)
    /\ UNCHANGED <<balances, granted, year, calls, contested, broken, charges, taken,
                   uncharged>>

(* initializeBalances, one leave type.                                     *)
FindNoneToInitialize(r, a) ==
    FindNone(r, a, [pc |-> "initialize", account |-> a, year |-> year])

CreateToInitialize(r, b) ==
    LET q == req[r] IN
    /\ q.pc = "initialize"
    /\ Insert(b, q.account, q.year, Quota[q.account])
    /\ req' = [req EXCEPT ![r] = Idle]
    /\ UNCHANGED <<leaves, granted, year, calls, raced, broken, charges, taken, reopened,
                   uncharged>>

----------------------------------------------------------------------------
\* A mutant of Deducts: a manager's approval deducts as well.
DeductsEarly(status) == status \in {"APPROVED_BY_MANAGER", "APPROVED"}
Deducts(status) == status = "APPROVED"

(* approveLeave: the status the request has is not looked at.              *)
LoadToDecide(r, l, s) ==
    /\ Begin(r, [pc |-> IF Deducts(s) THEN "find" ELSE "decide",
                 leave |-> l, account |-> leaves[l].account, status |-> s])
    /\ raced' = Raced(r, {l})
    /\ reopened' = Reopened(l)
    /\ UNCHANGED contested

FindToCharge(r, b) ==
    LET q == req[r] IN
    /\ q.pc = "find"
    /\ b \in Found(q.account)
    /\ req' = [req EXCEPT ![r] = [pc |-> "charge", leave |-> q.leave, account |-> q.account,
                                  status |-> q.status, balance |-> b, row |-> balances[b]]]
    /\ raced' = Raced(r, {b})
    /\ UNCHANGED <<table, calls, contested, broken, charges, taken, reopened, uncharged>>

(* Without a balance the days are not deducted.                            *)
FindNoneToCharge(r) ==
    LET q == req[r] IN
    /\ q.pc = "find"
    /\ Found(q.account) = {}
    /\ req' = [req EXCEPT ![r].pc = "decide"]
    /\ uncharged' = uncharged \cup {q.leave}
    /\ UNCHANGED <<table, calls, raced, contested, broken, charges, taken, reopened>>

\* A mutant of Charged: the days replace those used before.
ChargedOnly(row, n) == [row EXCEPT !.used = n]
Charged(row, n) == [row EXCEPT !.used = @ + n]

SaveCharged(r) ==
    LET q == req[r]
        n == leaves[q.leave].days
    IN
    /\ q.pc = "charge"
    /\ balances' = [balances EXCEPT ![q.balance] = Charged(q.row, n)]
    /\ req' = [req EXCEPT ![r].pc = "settle"]
    /\ charges' = [charges EXCEPT ![q.leave] = @ + 1]
    /\ taken' = [taken EXCEPT ![q.balance] = @ + n]
    /\ UNCHANGED <<leaves, granted, year, calls, raced, contested, broken, reopened,
                   uncharged>>

(* The save writes the account it has read back as well.                   *)
SaveDecided(r) ==
    LET q == req[r] IN
    /\ q.pc \in {"decide", "settle"}
    /\ leaves' = [leaves EXCEPT ![q.leave] = Rewritten(@, q.account, q.status)]
    /\ req' = [req EXCEPT ![r] = Idle]
    /\ UNCHANGED <<balances, granted, year, calls, history>>

----------------------------------------------------------------------------
(* grantCompensatoryLeave: the balance is saved before the grant.          *)
FindToGrant(r, a, n, b) ==
    /\ b \in Found(a)
    /\ Begin(r, [pc |-> "grant", balance |-> b, row |-> balances[b], days |-> n])
    /\ raced' = Raced(r, {b})
    /\ UNCHANGED <<contested, reopened>>

FindNoneToGrant(r, a, n) ==
    FindNone(r, a, [pc |-> "open", account |-> a, days |-> n, year |-> year])

OpenToGrant(r, b) ==
    LET q == req[r] IN
    /\ q.pc = "open"
    /\ Insert(b, q.account, q.year, q.days)
    /\ req' = [req EXCEPT ![r] = [pc |-> "record", balance |-> b, row |-> balances'[b],
                                  days |-> q.days]]
    /\ UNCHANGED <<leaves, granted, year, calls, raced, broken, charges, taken, reopened,
                   uncharged>>

\* A mutant of Raised: the grant lowers the days of the balance.
RaisedBelow(row, n) == [row EXCEPT !.total = @ - n]
Raised(row, n) == [row EXCEPT !.total = @ + n]

SaveRaised(r) ==
    LET q == req[r] IN
    /\ q.pc = "grant"
    /\ balances' = [balances EXCEPT ![q.balance] = Raised(q.row, q.days)]
    /\ req' = [req EXCEPT ![r].pc = "record"]
    /\ UNCHANGED <<leaves, granted, year, calls, history>>

RecordGrant(r) ==
    LET q == req[r] IN
    /\ q.pc = "record"
    /\ granted' = [granted EXCEPT ![q.balance] = @ + q.days]
    /\ req' = [req EXCEPT ![r] = Idle]
    /\ UNCHANGED <<balances, leaves, year, calls, history>>

----------------------------------------------------------------------------
(* The first of April: fiscalYear is read from the clock at every use.     *)
NewYear ==
    /\ year < MaxYear  \* bound
    /\ year' = year + 1
    /\ UNCHANGED <<balances, leaves, granted, req, calls, history>>

(* A request that fails, is refused (checkClash) or dies before its last   *)
(* save.                                                                   *)
Fail(r) ==
    LET q == req[r] IN
    /\ q # Idle
    /\ req' = [req EXCEPT ![r] = Idle]
    /\ broken' = broken \cup CASE q.pc = "settle" -> {q.leave}
                               [] q.pc = "record" -> {q.balance}
                               [] OTHER           -> {}
    /\ UNCHANGED <<table, calls, raced, contested, charges, taken, reopened, uncharged>>

Next ==
    \/ NewYear
    \/ \E r \in Requests :
          \/ \E a \in Accounts, l \in Leaves :
                (\E b \in Balances : FindToApply(r, a, l, b)) \/ FindNoneToApply(r, a, l)
          \/ \E a \in Accounts \ Comp : FindNoneToInitialize(r, a)
          \/ \E a \in Comp, n \in Days :
                (\E b \in Balances : FindToGrant(r, a, n, b)) \/ FindNoneToGrant(r, a, n)
          \/ \E b \in Balances :
                \/ CreateToApply(r, b) \/ CreateToInitialize(r, b) \/ OpenToGrant(r, b)
                \/ FindToCharge(r, b)
          \/ \E l \in Leaves, s \in Decisions : LoadToDecide(r, l, s)
          \/ Submit(r) \/ FindNoneToCharge(r) \/ SaveCharged(r) \/ SaveDecided(r)
          \/ SaveRaised(r) \/ RecordGrant(r) \/ Fail(r)

Spec == Init /\ [][Next]_vars

----------------------------------------------------------------------------
(* An approved leave was deducted once and no other was deducted, unless   *)
(* two requests overlapped on it, a decision failed between its saves, an  *)
(* approved leave was decided or applied for again, or there was no        *)
(* balance to deduct from.                                                 *)
ApprovedIsDeducted ==
    \A l \in Leaves \ (raced \cup broken \cup reopened \cup uncharged) :
        (~\E r \in Requests : req[r].pc = "settle" /\ req[r].leave = l)
            => charges[l] = IF leaves[l].status = "APPROVED" THEN 1 ELSE 0

(* The used days of a balance are those deducted from it, and its days are *)
(* its quota and the grants recorded for it, unless two requests held the  *)
(* row, or, of the days, a grant failed half way.                          *)
ChangesAreKept ==
    \A b \in Balances \ raced : balances[b] # NoRow =>
        /\ balances[b].used = taken[b]
        /\ \/ b \in broken
           \/ \E r \in Requests : req[r].pc = "record" /\ req[r].balance = b
           \/ balances[b].total = Quota[balances[b].account] + granted[b]

(* An account has two balances in a year only when two requests opened it  *)
(* at the same time, or the year turned between a search and its insert.   *)
OneBalancePerYear ==
    \A b, c \in Balances :
        /\ b # c
        /\ balances[b] # NoRow /\ balances[c] # NoRow
        /\ balances[b].account = balances[c].account /\ balances[b].year = balances[c].year
        => <<balances[b].account, balances[b].year>> \in contested
=============================================================================
