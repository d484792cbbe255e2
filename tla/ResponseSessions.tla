-------------------------- MODULE ResponseSessions --------------------------
(***************************************************************************)
(* The response_sessions table and the operations of                       *)
(* ResponseSessionRepository (src/control-plane/response-sessions.ts).     *)
(* Every operation is one immediate transaction: X is enabled when the     *)
(* code commits, and leaves the table alone (and throws) when CanX fails.  *)
(*                                                                         *)
(* The native session and the workspace path of a stored row are those of  *)
(* its chain, and are not kept apart.                                      *)
(***************************************************************************)
EXTENDS Naturals, FiniteSets, Functions

CONSTANTS
  Ids,     \* response ids
  Targets,
  NoId,    \* the SQL NULL
  TTL,     \* ticks a row lives (30 days in the code)
  MaxTime  \* bound: ticks of the clock

ASSUME ResponseSessionsAssumption ==
  NoId \notin Ids /\ TTL \in Nat \ {0} /\ MaxTime \in Nat

VARIABLES
  rows,   \* the table: a function from the ids it holds
  now,    \* the wall clock
  hidden  \* retentionHidden, in memory

States == {"open", "continuing", "continued", "terminal_failure", "not_stored"}

Row == [chain : Ids, target : Targets, parent : Ids \cup {NoId},
        child : Ids \cup {NoId}, state : States, expires : 0 .. MaxTime + TTL]

RepositoryInit ==
  /\ rows = << >>
  /\ now = 0
  /\ hidden = {}

Has(r) == r \in DOMAIN rows

ChainRows(c) == {r \in DOMAIN rows : rows[r].chain = c}

Expired(r) == rows[r].expires <= now

\* The table with the row v inserted as x.
With(table, x, v) == [y \in DOMAIN table \cup {x} |-> IF y = x THEN v ELSE table[y]]

-----------------------------------------------------------------------------
(* requireValidChain and assertActiveTail                                  *)

\* The ids met on the way from the root along child_response_id.
Walk(c) ==
  LET step[k \in Nat] ==
        IF k = 0 THEN c
        ELSE IF Has(step[k - 1]) THEN rows[step[k - 1]].child ELSE NoId
  IN  step

\* The links of the chain's rows agree in both directions and the walk visits
\* each of them exactly once.
ValidChain(c) ==
  LET R == ChainRows(c)
      W == Walk(c) IN
  /\ c \in R /\ rows[c].parent = NoId
  /\ \A r \in R :
       /\ rows[r].target = rows[c].target
       /\ r # c => rows[r].parent \in R /\ rows[rows[r].parent].child = r
       /\ rows[r].child # NoId =>
            rows[r].child \in R /\ rows[rows[r].child].parent = r
  /\ {W[k] : k \in 0 .. Cardinality(R) - 1} = R
  /\ W[Cardinality(R)] = NoId

\* r is the tail of its chain and everything before it was continued.
ActiveTail(r) ==
  /\ rows[r].child = NoId
  /\ \A q \in ChainRows(rows[r].chain) \ {r} : rows[q].state = "continued"

\* assertCompletableParent and the two checks above, shared by the operations
\* that end a continuation.
Completable(p) ==
  /\ Has(p) /\ rows[p].state = "continuing"
  /\ ValidChain(rows[p].chain) /\ ActiveTail(p)

-----------------------------------------------------------------------------
(* The operations.                                                         *)

Create(r, t, stored) ==
  rows' = With(rows, r, [chain |-> r, target |-> t, parent |-> NoId, child |-> NoId,
                         state |-> IF stored THEN "open" ELSE "not_stored",
                         expires |-> now + TTL])

\* Mutant of CanAcquire: the expiry is not looked at.
CanAcquireExpired(p, t) ==
  /\ Has(p) /\ rows[p].target = t /\ rows[p].state = "open"
  /\ ValidChain(rows[p].chain) /\ ActiveTail(p)

CanAcquire(p, t) ==
  /\ Has(p) /\ rows[p].target = t /\ rows[p].state = "open" /\ ~Expired(p)
  /\ ValidChain(rows[p].chain) /\ ActiveTail(p)

AcquireContinuation(p, t) ==
  /\ CanAcquire(p, t)
  /\ rows' = [rows EXCEPT ![p].state = "continuing"]

\* Inserts the child, marks the parent and refreshes the whole chain.
CompleteContinuation(p, r) ==
  /\ Completable(p)
  /\ LET child  == [rows[p] EXCEPT !.parent = p, !.child = NoId, !.state = "open"]
         linked == With([rows EXCEPT ![p].state = "continued", ![p].child = r], r, child)
     IN  rows' = [q \in DOMAIN linked |->
                    IF linked[q].chain = rows[p].chain
                      THEN [linked[q] EXCEPT !.expires = now + TTL]
                      ELSE linked[q]]

\* Returns false, and changes nothing, unless the row is continuing.
ReleaseBeforeStart(p) ==
  /\ Completable(p)
  /\ rows' = [rows EXCEPT ![p].state = "open"]

\* Mutant of Failed: what was already continued is left as it is.
FailedTail(table, C) ==
  [q \in DOMAIN table |-> IF table[q].chain \in C /\ table[q].state # "continued"
                            THEN [table[q] EXCEPT !.state = "terminal_failure"]
                            ELSE table[q]]

\* table with every row of the chains C terminally failed
Failed(table, C) ==
  [q \in DOMAIN table |-> IF table[q].chain \in C
                            THEN [table[q] EXCEPT !.state = "terminal_failure"]
                            ELSE table[q]]

FailTerminal(p) ==
  /\ Completable(p)
  /\ rows' = Failed(rows, {rows[p].chain})

\* findExpiredForRetention: chains wholly due, none of whose rows continues.
DueChains ==
  {c \in {rows[r].chain : r \in DOMAIN rows} :
     \A q \in ChainRows(c) : Expired(q) /\ rows[q].state # "continuing"}

\* unlinkAndDeleteForRetention
DeleteChains(C) ==
  rows' = Restrict(rows, {q \in DOMAIN rows : rows[q].chain \notin C})

=============================================================================
