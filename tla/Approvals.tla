------------------------------- MODULE Approvals -------------------------------
(***************************************************************************)
(* Approval requests: packages/capkit/src/approval.ts, class               *)
(* ApprovalRegistry, over the SQLite table approvals.                      *)
(*                                                                         *)
(* Only the capkit process uses the registry, and each of its methods runs *)
(* to its end without an await, so that a method is one step here: what it *)
(* read is still so when it writes.  There is nothing to lose in a crash   *)
(* but the answer.                                                         *)
(*                                                                         *)
(* An action stands for approvalActionHash of its four fields.  A deadline *)
(* is the bit that says whether it has passed.  Signatures and the shape   *)
(* of the input are not modelled: a decision here is one that was accepted *)
(* as well formed and, when it was signed, as signed by its decider.       *)
(***************************************************************************)
EXTENDS Integers, FiniteSets, Sequences

CONSTANTS Actions,      \* what may need approving
          People,       \* who may ask, decide and withdraw
          Traces,       \* identifiers of executions
          None,         \* model value: nobody, nothing
          MaxRequests   \* bound: how many requests are ever made

ASSUME RequestsAssumption == MaxRequests \in Nat
ASSUME NoneAssumption == None \notin People \cup Traces
ASSUME TracesAssumption == IsFiniteSet(Traces)

VARIABLE requests   \* table approvals, ORDER BY requested_at

Stored == {"PENDING", "GRANTED", "REFUSED", "WITHDRAWN", "CONSUMED"}

Row == [action : Actions, by : People, state : Stored, overdue : BOOLEAN,
        decidedBy : People \cup {None}, consumedBy : Traces \cup {None}]

-----------------------------------------------------------------------------
(* Reading.                                                                *)

\* rowToApproval(): only a pending request lapses.
State(r) == IF r.state = "PENDING" /\ r.overdue THEN "EXPIRED" ELSE r.state

\* forAction()
For(action) == {i \in DOMAIN requests : requests[i].action = action}

rank == [CONSUMED |-> 0, GRANTED |-> 1, PENDING |-> 2,
         REFUSED |-> 3, WITHDRAWN |-> 4, EXPIRED |-> 5]

\* The one request an attestation answers from: the best by rank, and among
\* those the newest.
Answering(action) ==
  CHOOSE i \in For(action) : \A j \in For(action) :
    LET a == rank[State(requests[i])]
        b == rank[State(requests[j])]
    IN  a < b \/ (a = b /\ j <= i)

\* Mutant of Attest: whatever was decided for the action vouches for it.
AttestDecided(action, trace) ==
  IF For(action) = {} THEN "ABSENT" ELSE
  LET state == State(requests[Answering(action)]) IN
  IF state = "PENDING" THEN "UNKNOWN"
  ELSE IF state = "EXPIRED" THEN "FAILED" ELSE "DEMONSTRATED"

\* attest()
Attest(action, trace) ==
  IF For(action) = {} THEN "ABSENT" ELSE
  LET r == requests[Answering(action)] IN
  CASE State(r) = "PENDING"  -> "UNKNOWN"
    [] State(r) = "GRANTED"  -> "DEMONSTRATED"
    [] State(r) = "CONSUMED" -> IF r.consumedBy = trace THEN "DEMONSTRATED" ELSE "FAILED"
    [] OTHER                 -> "FAILED"

-----------------------------------------------------------------------------
(* Operations.                                                             *)

NoRequests == requests = <<>>

\* request()
Request(action, who) ==
  /\ Len(requests) < MaxRequests
  /\ requests' = Append(requests,
       [action |-> action, by |-> who, state |-> "PENDING", overdue |-> FALSE,
        decidedBy |-> None, consumedBy |-> None])

\* The row of r with another state, and who decided or spent it.
Updated(r, state, decidedBy, consumedBy) ==
  [action |-> r.action, by |-> r.by, state |-> state, overdue |-> r.overdue,
   decidedBy |-> decidedBy, consumedBy |-> consumedBy]

\* Mutant of Decide: looks at the stored state.
DecideStored(i, who, decision) ==
  /\ requests[i].state = "PENDING"
  /\ who # requests[i].by
  /\ requests' = [requests EXCEPT ![i] = Updated(@, decision, who, @.consumedBy)]

\* decide()
Decide(i, who, decision) ==
  /\ State(requests[i]) = "PENDING"
  /\ who # requests[i].by
  /\ requests' = [requests EXCEPT ![i] = Updated(@, decision, who, @.consumedBy)]

\* withdraw()
Withdraw(i, who) ==
  /\ State(requests[i]) = "PENDING"
  /\ requests' = [requests EXCEPT ![i] = Updated(@, "WITHDRAWN", who, @.consumedBy)]

\* consume(): what is spent on is a name; nothing is looked up by it.
Consume(i, trace) ==
  /\ State(requests[i]) = "GRANTED"
  /\ requests' = [requests EXCEPT ![i] = Updated(@, "CONSUMED", @.decidedBy, trace)]

\* The clock passes expires_at; what it says of a request that is no longer
\* pending, nothing ever asks.
Lapse(i) ==
  /\ State(requests[i]) = "PENDING"
  /\ requests' = [requests EXCEPT ![i].overdue = TRUE]

\* The routes of capkit that write to the registry, and the clock.
ApprovalStep ==
  \/ \E action \in Actions, who \in People : Request(action, who)
  \/ \E i \in DOMAIN requests :
       \/ \E who \in People, decision \in {"GRANTED", "REFUSED"} : Decide(i, who, decision)
       \/ \E who \in People : Withdraw(i, who)
       \/ \E trace \in Traces : Consume(i, trace)
       \/ Lapse(i)

-----------------------------------------------------------------------------
(* Properties of the registry alone.                                       *)

RequestsOK == /\ requests \in Seq(Row)
              /\ Len(requests) <= MaxRequests

\* Where a request may go from each state it may be seen in.  A grant that is not
\* spent is to lapse like a request: so it is said above the class, above
\* withdraw() and in consume(), and it is allowed here.  rowToApproval() lapses
\* only what is pending, so that no grant of this code ever does.
Moves == [PENDING |-> {"GRANTED", "REFUSED", "WITHDRAWN", "EXPIRED"},
          GRANTED |-> {"CONSUMED", "EXPIRED"}, REFUSED |-> {}, WITHDRAWN |-> {},
          EXPIRED |-> {}, CONSUMED |-> {}]

\* A decision is made once, and what a reader was once told stands: a request
\* seen as lapsed is never decided afterwards, a decision keeps its decider, a
\* spent approval stays spent on the execution it was spent on, and no request
\* leaves the table (decide, withdraw and consume, with the lapse that
\* rowToApproval computes on every read).  That a grant ends at its deadline is
\* not said, since it does not.
DecisionsStand == [][
  \A i \in DOMAIN requests :
    /\ i \in DOMAIN requests'
    /\ LET old == requests[i]
           new == requests'[i]
       IN  /\ State(new) = State(old) \/ State(new) \in Moves[State(old)]
           /\ <<new.action, new.by>> = <<old.action, old.by>>
           /\ old.decidedBy # None => new.decidedBy = old.decidedBy
           /\ old.consumedBy # None => new.consumedBy = old.consumedBy]_requests
===============================================================================
