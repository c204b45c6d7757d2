--------------------------- MODULE GeneralLedger ---------------------------
(***************************************************************************)
(* The journal workflow of the finance module: createJournalEntry,         *)
(* reviewJournal, approveJournal, rejectJournal, removeJournal and         *)
(* postJournal, the account balances a posting changes, updateAccount and  *)
(* removeAccount beside them, and the accounting periods that gate new     *)
(* entries.                                                                *)
(*                                                                         *)
(* A request runs in two or three steps, one for every point at which the  *)
(* database can serve somebody else: it LOADS a row, then SAVES it.  A     *)
(* save writes every loaded column back, so a save after somebody else's   *)
(* save restores what the request had read.  Posting also runs inside a    *)
(* transaction: its save holds the row until it commits.                   *)
(*                                                                         *)
(* An entry has one debit line and one credit line, in the currency of the *)
(* entry; a posting converts each to the currency of its account, at the   *)
(* rate getLatestRate answers for that line.  Left out: the second pair of *)
(* amounts a line stores, converted to the base currency of the tenant at  *)
(* the entry's exchangeRate, which no posting reads, and the rounding of a *)
(* converted amount to the scale of the column.                            *)
(***************************************************************************)
EXTENDS Integers, FiniteSets, Sums

CONSTANTS
    Journals,         \* entry numbers, unique by an index of the table
    Accounts,         \* the chart of accounts
    Currencies,       \* currency codes
    Rates,            \* what getLatestRate may answer for two currencies
    Chart,            \* the type and the currency an account is created with
    AccountRows,      \* the types and currencies updateAccount may be sent
    Periods,          \* accounting periods; an entry date lies in one
    Entries,          \* the contents a caller may ask for
    InitialStatuses,  \* the statuses a caller may ask for
    Tolerance,        \* the difference, in cents, the balance check accepts
    Requests,         \* HTTP requests the API may serve at the same time
    MaxPostings       \* bound: no posting starts after so many of a journal

Contents == [dr : Accounts, cr : Accounts, debit : Nat, credit : Nat,
             currency : Currencies, period : Periods]

\* An account: is it an ASSET or EXPENSE account, and its currency.
AccountRow == [debitNormal : BOOLEAN, currency : Currencies]

ASSUME LedgerAssumption ==
    /\ IsFiniteSet(Journals) /\ IsFiniteSet(Accounts)
    /\ Rates \subseteq Int
    /\ Chart \in [Accounts -> AccountRow]
    /\ AccountRows \subseteq AccountRow
    /\ Entries \subseteq Contents
    /\ InitialStatuses \subseteq {"DRAFT", "PENDING_REVIEW", "APPROVED", "POSTED"}
    /\ Tolerance \in Nat
    /\ MaxPostings \in Nat

JournalStatus == {"DRAFT", "PENDING_REVIEW", "PENDING_APPROVAL", "APPROVED",
                  "POSTED", "REJECTED"}

Rows == [status : JournalStatus, deleted : BOOLEAN, entry : Entries]

Operations == {"create", "review", "approve", "reject", "post"}

VARIABLES
    journals,   \* the rows of journal_entries, a function on the created ones
    balance,    \* the balance column of every account
    chart,      \* the type and the currency of every account
    removed,    \* soft-deleted accounts
    period,     \* the status of every accounting period
    req,        \* the requests in flight
    \* history, read by the properties only
    applied,    \* how many times the lines of a journal reached the balances
    signed,     \* the workflow steps saved for a journal
    raced,      \* journals two requests have held at the same time
    unsettled   \* currencies whose books a conversion, a skipped line or a
                \* change of the chart has touched

history == <<applied, signed, raced, unsettled>>
vars == <<journals, balance, chart, removed, period, req, history>>

Idle == [pc |-> "idle"]
InFlight == [pc : {"loaded"}, op : Operations, j : Journals, row : Rows]
Saving == [pc : {"saving"}, op : {"create", "post"}, j : Journals, row : Rows,
           found : SUBSET Accounts, rows : [Accounts -> AccountRow]]

TypeOK ==
    /\ DOMAIN journals \subseteq Journals
    /\ journals \in [DOMAIN journals -> Rows]
    /\ balance \in [Accounts -> Int]
    /\ chart \in [Accounts -> AccountRow]
    /\ removed \subseteq Accounts
    /\ period \in [Periods -> {"OPEN", "CLOSED"}]
    /\ req \in [Requests -> {Idle} \cup InFlight \cup Saving]
    /\ applied \in [Journals -> Nat]
    /\ signed \in [Journals -> SUBSET {"review", "approve", "preset"}]
    /\ raced \subseteq Journals
    /\ unsettled \subseteq Currencies

Init ==
    /\ journals = [j \in {} |-> j]
    /\ balance = [a \in Accounts |-> 0]
    /\ chart = Chart
    /\ removed = {}
    /\ period = [p \in Periods |-> "OPEN"]
    /\ req = [r \in Requests |-> Idle]
    /\ applied = [j \in Journals |-> 0]
    /\ signed = [j \in Journals |-> {}]
    /\ raced = {}
    /\ unsettled = {}

----------------------------------------------------------------------------
Holds(r, j) == req[r].pc # "idle" /\ req[r].j = j

\* A mutant of Locked: every request holds the row from its first read on.
LockedFromLoad(j) == \E r \in Requests : Holds(r, j)

\* A transaction that has written row j and has not committed yet.
Locked(j) == \E r \in Requests : req[r].pc = "saving" /\ req[r].j = j

\* Request r starts to work on journal j: the point at which it can race.
Begin(r, j, newReq) ==
    /\ req[r].pc = "idle"
    /\ req' = [req EXCEPT ![r] = newReq]
    /\ raced' = IF \E q \in Requests \ {r} : Holds(q, j) THEN raced \cup {j}
                                                         ELSE raced

Loaded(op, j, row) == [pc |-> "loaded", op |-> op, j |-> j, row |-> row]

Finish(r) == req' = [req EXCEPT ![r] = Idle]

\* The rows after journal j is saved as row.
Saved(j, row) ==
    [k \in DOMAIN journals \cup {j} |-> IF k = j THEN row ELSE journals[k]]

Balances(e) == e.debit - e.credit \in -Tolerance..Tolerance

\* findJournalById, which hides soft-deleted rows
Visible(j) == j \in DOMAIN journals /\ ~journals[j].deleted

----------------------------------------------------------------------------
(* createJournalEntry: the balance check and the period check.             *)
CreateCheck(r, j, e, s) ==
    /\ Balances(e)
    /\ period[e.period] = "OPEN"
    /\ Begin(r, j, Loaded("create", j, [status |-> s, deleted |-> FALSE, entry |-> e]))
    /\ UNCHANGED <<journals, balance, chart, removed, period, applied, signed, unsettled>>

\* Mutants of Requires: postJournal takes an unapproved or a posted journal.
RequiresUnapproved ==
    [review |-> {"PENDING_REVIEW"}, approve |-> {"PENDING_APPROVAL"},
     reject |-> JournalStatus, post |-> {"APPROVED", "DRAFT", "PENDING_APPROVAL"}]
RequiresNothing ==
    [review |-> {"PENDING_REVIEW"}, approve |-> {"PENDING_APPROVAL"},
     reject |-> JournalStatus, post |-> {"APPROVED", "DRAFT", "POSTED"}]

(* The status each step of the workflow requires and the one it writes.    *)
Requires == [review |-> {"PENDING_REVIEW"}, approve |-> {"PENDING_APPROVAL"},
             reject |-> JournalStatus, post |-> {"APPROVED", "DRAFT"}]

Writes == [review |-> "PENDING_APPROVAL", approve |-> "APPROVED",
           reject |-> "REJECTED", post |-> "POSTED"]

(* reviewJournal, approveJournal, rejectJournal and postJournal load the   *)
(* row and check its status.                                               *)
Load(r, j, op) ==
    /\ Visible(j)
    /\ journals[j].status \in Requires[op]
    /\ op = "post" => applied[j] < MaxPostings   \* bound
    /\ Begin(r, j, Loaded(op, j, [journals[j] EXCEPT !.status = Writes[op]]))
    /\ UNCHANGED <<journals, balance, chart, removed, period, applied, signed, unsettled>>

(* The save of reviewJournal, approveJournal and rejectJournal.            *)
SaveStatus(r) ==
    LET q == req[r] IN
    /\ q.pc = "loaded" /\ q.op \in {"review", "approve", "reject"}
    /\ ~Locked(q.j)
    /\ journals' = Saved(q.j, q.row)
    /\ signed' = [signed EXCEPT ![q.j] = @ \cup ({q.op} \ {"reject"})]
    /\ Finish(r)
    /\ UNCHANGED <<balance, chart, removed, period, applied, raced, unsettled>>

(* createJournalEntry and postJournal save the entry inside their          *)
(* transaction and look up the accounts of its lines.                      *)
SaveEntry(r) ==
    LET q == req[r] IN
    /\ q.pc = "loaded" /\ q.op \in {"create", "post"}
    /\ ~Locked(q.j)
    /\ q.op = "create" => q.j \notin DOMAIN journals
    /\ req' = [req EXCEPT ![r] = [pc |-> "saving", op |-> q.op, j |-> q.j,
                                  row |-> q.row, found |-> Accounts \ removed,
                                  rows |-> chart]]
    /\ UNCHANGED <<journals, balance, chart, removed, period, history>>

(* updateAccountBalances: the amount of a line in the currency of its      *)
(* account.                                                                *)
Converted(amount, e, row, rate) ==
    IF row.currency = e.currency THEN amount ELSE amount * rate

\* A mutant of Adjustment: the account type does not turn the sign.
AdjustmentUnsigned(a, e, row, x, y) ==
    Converted(IF e.dr = a THEN e.debit ELSE 0, e, row, x)
        - Converted(IF e.cr = a THEN e.credit ELSE 0, e, row, y)

(* `balance = balance + adjustment` for every line whose account was       *)
(* found: the rates x and y are those of the debit and of the credit line, *)
(* the direction is the one the account type asks for.                     *)
Adjustment(a, e, row, x, y) ==
    LET net == Converted(IF e.dr = a THEN e.debit ELSE 0, e, row, x)
                   - Converted(IF e.cr = a THEN e.credit ELSE 0, e, row, y)
    IN  IF row.debitNormal THEN net ELSE -net

NewBalances(e, found, rows, x, y) ==
    [a \in Accounts |-> IF a \in found THEN balance[a] + Adjustment(a, e, rows[a], x, y)
                                       ELSE balance[a]]

\* The posting of e found both accounts, in the currency of the entry.
Settles(e, found, rows) ==
    {e.dr, e.cr} \subseteq found /\ \A a \in {e.dr, e.cr} : rows[a].currency = e.currency

\* The currencies whose books a posting of e unsettles.
Unsettles(e, found, rows) ==
    IF Settles(e, found, rows) THEN {}
                               ELSE {rows[a].currency : a \in {e.dr, e.cr} \cap found}

\* Does the commit of q move the balances?  The mutant forgets the entries
\* that are created in the status POSTED.
PostsOnlyPosting(q) == q.op = "post"
Posts(q) == q.row.status = "POSTED"

(* The commit of createJournalEntry and postJournal.                       *)
Commit(r, x, y) ==
    LET q == req[r]
        e == q.row.entry
        posts == Posts(q) IN
    /\ q.pc = "saving"
    /\ journals' = Saved(q.j, q.row)
    /\ balance' = IF posts THEN NewBalances(e, q.found, q.rows, x, y) ELSE balance
    /\ applied' = IF posts THEN [applied EXCEPT ![q.j] = @ + 1] ELSE applied
    /\ unsettled' = IF posts THEN unsettled \cup Unsettles(e, q.found, q.rows)
                             ELSE unsettled
    /\ signed' = IF q.op = "create" /\ q.row.status # "PENDING_REVIEW"
                 THEN [signed EXCEPT ![q.j] = @ \cup {"preset"}] ELSE signed
    /\ Finish(r)
    /\ UNCHANGED <<chart, removed, period, raced>>

(* The unique index rejects the insert of an entry number that exists.     *)
RejectInsert(r) ==
    /\ req[r].pc = "loaded" /\ req[r].op = "create"
    /\ req[r].j \in DOMAIN journals
    /\ Finish(r)
    /\ UNCHANGED <<journals, balance, chart, removed, period, history>>

(* A deadlock victim, a lost connection or a dead process: nothing of the  *)
(* request's transaction remains.                                          *)
Abort(r) ==
    /\ req[r].pc # "idle"
    /\ Finish(r)
    /\ UNCHANGED <<journals, balance, chart, removed, period, history>>

(* removeJournal: soft delete, whatever the status.                        *)
RemoveJournal(j) ==
    /\ Visible(j)
    /\ ~Locked(j)
    /\ journals' = [journals EXCEPT ![j].deleted = TRUE]
    /\ UNCHANGED <<balance, chart, removed, period, req, history>>

(* removeAccount: soft delete, whatever the balance.                       *)
RemoveAccount(a) ==
    /\ a \notin removed
    /\ removed' = removed \cup {a}
    /\ UNCHANGED <<journals, balance, chart, period, req, history>>

(* updateAccount: the type and the currency change whatever the balance,   *)
(* which is neither converted nor turned.                                  *)
UpdateAccount(a, row) ==
    /\ a \notin removed
    /\ row # chart[a]
    /\ chart' = [chart EXCEPT ![a] = row]
    /\ unsettled' = unsettled \cup {chart[a].currency, row.currency}
    /\ UNCHANGED <<journals, balance, removed, period, req, applied, signed, raced>>

ClosePeriod(p) ==
    /\ period' = [period EXCEPT ![p] = "CLOSED"]
    /\ UNCHANGED <<journals, balance, chart, removed, req, history>>

ReopenPeriod(p) ==
    /\ period' = [period EXCEPT ![p] = "OPEN"]
    /\ UNCHANGED <<journals, balance, chart, removed, req, history>>

----------------------------------------------------------------------------
Server(r) ==
    \/ SaveStatus(r) \/ SaveEntry(r) \/ RejectInsert(r)
    \/ \E x, y \in Rates : Commit(r, x, y)

Next ==
    \/ \E r \in Requests, j \in Journals :
          \/ \E e \in Entries, s \in InitialStatuses : CreateCheck(r, j, e, s)
          \/ \E op \in Operations \ {"create"} : Load(r, j, op)
    \/ \E r \in Requests : Server(r) \/ Abort(r)
    \/ \E j \in Journals : RemoveJournal(j)
    \/ \E a \in Accounts : RemoveAccount(a) \/ \E row \in AccountRows : UpdateAccount(a, row)
    \/ \E p \in Periods : ClosePeriod(p) \/ ReopenPeriod(p)

Spec == Init /\ [][Next]_vars

(* A request the server has started goes on, and PostgreSQL serves the     *)
(* waiters of a row lock in turn: strong fairness of the steps that wait.  *)
(* Nothing obliges a user to send a request.                               *)
FairSpec ==
    /\ Spec
    /\ \A r \in Requests : SF_vars(Server(r))

----------------------------------------------------------------------------
NetDebit == [a \in Accounts |-> IF chart[a].debitNormal THEN balance[a] ELSE -balance[a]]

AccountsIn(c) == {a \in Accounts : chart[a].currency = c}

(* However the postings interleave, debits and credits of the account      *)
(* balances agree in every currency, up to the tolerance of the balance    *)
(* check for every posting.  Only three things unsettle a currency: a      *)
(* posting that converted a line, one whose account had been removed (then *)
(* updateAccountBalances skips the line), and updateAccount on an account  *)
(* in use; none of them touches the books of another currency.             *)
BooksBalance ==
    \A c \in Currencies \ unsettled :
        Sum(NetDebit, AccountsIn(c)) \in
            -(Tolerance * Sum(applied, Journals)) .. (Tolerance * Sum(applied, Journals))

(* The row of a journal says POSTED only after its lines reached the       *)
(* balances: save and updateAccountBalances share a transaction.           *)
PostedIsApplied ==
    \A j \in DOMAIN journals : journals[j].status = "POSTED" => applied[j] > 0

(* No interleaving of reviews, approvals, rejections and postings lets a   *)
(* journal that entered the workflow reach the balances without a saved    *)
(* review and a saved approval.                                            *)
PostingIsSigned ==
    \A j \in Journals :
        applied[j] > 0 => "preset" \in signed[j] \/ {"review", "approve"} \subseteq signed[j]

(* postJournal takes no lock when it checks the status, so a journal can   *)
(* reach the balances twice; that needs two requests at work on it at the  *)
(* same time: one request after the other never posts twice.               *)
DoublePostingNeedsRace == \A j \in Journals : applied[j] > 1 => j \in raced

(* Every request ends: no row lock is held for ever.                       *)
RequestsEnd == \A r \in Requests : req[r].pc # "idle" ~> req[r].pc = "idle"
=============================================================================
