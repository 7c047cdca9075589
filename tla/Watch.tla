--------------------------------- MODULE Watch ---------------------------------
(***************************************************************************)
(* The watch over the execution record: packages/capkit/src/watch.ts, class *)
(* Watch, over the tables notices and watch_state, together with the       *)
(* approvals it consults and the executions it reads.                      *)
(*                                                                         *)
(* A sweep runs in the capkit process without an await, so that no route   *)
(* of capkit (approvals, retention, acknowledging) is served in the middle *)
(* of one.  The other services keep recording executions meanwhile, and    *)
(* every notice is an autocommitted statement of its own: an exception or  *)
(* a crash ends the sweep after any of them.                               *)
(*                                                                         *)
(* How often and when a notice was seen, and its wording, are left out.    *)
(***************************************************************************)
EXTENDS Approvals, FiniteSetsExt

CONSTANTS Shapes,       \* what an execution may record: see Shape
          Batch,        \* options.batchSize
          ListLimit,    \* how many approvals a sweep looks through, 200 in the code
          EphemeralKey, \* options.signingKeyEphemeral
          ChainBroken,  \* whether verifyChain() says the chain is broken
          MaxFailures   \* bound: how many sweeps end half way

Shape == [action : Actions,
          decision : {"PERMITTED", "DENIED", "REQUIRES_APPROVAL"},
          succeeded : BOOLEAN, scoped : BOOLEAN]

ASSUME ShapesAssumption == Shapes \subseteq Shape
ASSUME BatchAssumption == Batch \in Nat \ {0} /\ ListLimit \in Nat \ {0}
ASSUME FlagsAssumption == {EphemeralKey, ChainBroken} \subseteq BOOLEAN
ASSUME FailuresAssumption == MaxFailures \in Nat

VARIABLES
  executions,  \* table executions: seq -> [id, shape]
  head,        \* the highest seq ever given to a record
  notices,     \* table notices: key -> "OPEN" or "ACKNOWLEDGED"
  highWater,   \* watch_state.high_water_seq
  sweep,       \* locals of sweep(): rows read and those still to examine, or NoSweep
  failures     \* how many sweeps have ended half way so far

vars == <<requests, executions, head, notices, highWater, sweep, failures>>

NoSweep == [on |-> FALSE, rows |-> {}, todo |-> {}]

Kinds == {"CHAIN_BROKEN", "UNAPPROVED_EXECUTION", "DENIED_BUT_SUCCEEDED",
          "NO_RECORDED_AUTHORITY", "APPROVAL_LAPSED", "EPHEMERAL_SIGNING_KEY"}

\* A notice's key: its kind, and the record or approval it is about (0: none).
Key(kind, about) == <<kind, about>>

\* The approvals there are for an action, spent ones among them.
Grants(action) == {i \in For(action) : State(requests[i]) \in {"GRANTED", "CONSUMED"}}

Init == /\ NoRequests
        /\ executions = << >>
        /\ head = 0
        /\ notices = << >>
        /\ highWater = 0
        /\ sweep = NoSweep
        /\ failures = 0

-----------------------------------------------------------------------------
(* The record, and the approvals, as the watch meets them.                 *)

\* TraceStore.record(), in any of the services, a sweep running or not.
Record(id, shape) ==
  /\ \A s \in DOMAIN executions : executions[s].id # id
  /\ head < Cardinality(Traces)
  /\ head' = head + 1
  /\ executions' = [s \in DOMAIN executions \cup {head + 1} |->
       IF s = head + 1 THEN [id |-> id, shape |-> shape] ELSE executions[s]]
  /\ UNCHANGED <<requests, notices, highWater, sweep, failures>>

\* pruneToRetention(), run by capkit: the oldest records leave.
Prune == /\ ~sweep.on
         /\ \E cut \in DOMAIN executions :
              executions' = [s \in {s \in DOMAIN executions : s > cut} |-> executions[s]]
         /\ UNCHANGED <<requests, head, notices, highWater, sweep, failures>>

Approve == /\ ~sweep.on
           /\ ApprovalStep
           /\ UNCHANGED <<executions, head, notices, highWater, sweep, failures>>

-----------------------------------------------------------------------------
(* A sweep.                                                                *)

\* raise(), for each of a set of keys: a notice already there is only touched.
Raise(keys) == notices' = [k \in DOMAIN notices \cup keys |->
                             IF k \in DOMAIN notices THEN notices[k] ELSE "OPEN"]

\* SELECT ... WHERE seq > ? ORDER BY seq ASC LIMIT ?
Unread ==
  LET above == {s \in DOMAIN executions : s > highWater}
  IN  {s \in above : Cardinality({t \in above : t < s}) < Batch}

\* examine()
Shows(e, kind) ==
  \/ /\ kind = "DENIED_BUT_SUCCEEDED"
     /\ e.shape.decision = "DENIED" /\ e.shape.succeeded
  \/ /\ kind = "UNAPPROVED_EXECUTION"
     /\ e.shape.decision = "REQUIRES_APPROVAL"
     /\ Attest(e.shape.action, e.id) \in {"FAILED", "ABSENT"}
  \/ /\ kind = "NO_RECORDED_AUTHORITY"
     /\ ~e.shape.scoped

Findings(s) == {Key(kind, s) : kind \in {k \in Kinds : Shows(executions[s], k)}}

\* The lapsed ones among approvals.list(200), which is the newest first.
Lapsed == {Key("APPROVAL_LAPSED", i) :
             i \in {i \in DOMAIN requests : /\ i > Len(requests) - ListLimit
                                            /\ State(requests[i]) = "EXPIRED"}}

\* sweep() up to the loop: the rows are read, then what concerns the whole
\* record is raised.  Whether the chain verifies is the ledger's business.
SweepBegin ==
  /\ ~sweep.on
  /\ sweep' = [on |-> TRUE, rows |-> Unread, todo |-> Unread]
  /\ Raise({Key(kind, 0) : kind \in {k \in Kinds : \/ k = "CHAIN_BROKEN" /\ ChainBroken
                                                   \/ k = "EPHEMERAL_SIGNING_KEY" /\ EphemeralKey}})
  /\ UNCHANGED <<requests, executions, head, highWater, failures>>

\* One turn of the loop: the next record, and what it shows.
Examine ==
  /\ sweep.on
  /\ sweep.todo # {}
  /\ Raise(Findings(Min(sweep.todo)))
  /\ sweep' = [sweep EXCEPT !.todo = @ \ {Min(@)}]
  /\ UNCHANGED <<requests, executions, head, highWater, failures>>

\* Mutant of SweepEnd: the mark is put at the head of the record.
SweepEndAtHead ==
  /\ sweep.on
  /\ sweep.todo = {}
  /\ Raise(Lapsed)
  /\ highWater' = head
  /\ sweep' = NoSweep
  /\ UNCHANGED <<requests, executions, head, failures>>

\* Mutant of SweepEnd: the mark is put where the next sweep is to start.
SweepEndPast ==
  /\ sweep.on
  /\ sweep.todo = {}
  /\ Raise(Lapsed)
  /\ highWater' = IF sweep.rows = {} THEN highWater ELSE Max(sweep.rows) + 1
  /\ sweep' = NoSweep
  /\ UNCHANGED <<requests, executions, head, failures>>

\* After the loop: lapsed approvals, then the mark at the last row read.
SweepEnd ==
  /\ sweep.on
  /\ sweep.todo = {}
  /\ Raise(Lapsed)
  /\ highWater' = IF sweep.rows = {} THEN highWater ELSE Max(sweep.rows)
  /\ sweep' = NoSweep
  /\ UNCHANGED <<requests, executions, head, failures>>

\* A statement throws, or the process dies, with only some of the next
\* notices written.  The mark stays where it was.
SweepFails ==
  /\ sweep.on
  /\ failures < MaxFailures
  /\ failures' = failures + 1
  /\ \E written \in SUBSET (IF sweep.todo = {} THEN Lapsed ELSE Findings(Min(sweep.todo))) :
       Raise(written)
  /\ sweep' = NoSweep
  /\ UNCHANGED <<requests, executions, head, highWater>>

\* acknowledge()
Acknowledge(key) ==
  /\ ~sweep.on
  /\ notices' = [notices EXCEPT ![key] = "ACKNOWLEDGED"]
  /\ UNCHANGED <<requests, executions, head, highWater, sweep, failures>>

Next == \/ \E id \in Traces, shape \in Shapes : Record(id, shape)
        \/ Prune
        \/ Approve
        \/ SweepBegin
        \/ Examine
        \/ SweepEnd
        \/ SweepFails
        \/ \E key \in DOMAIN notices : Acknowledge(key)

Spec == Init /\ [][Next]_vars

-----------------------------------------------------------------------------
(* Properties.                                                             *)

TypeOK ==
  /\ RequestsOK
  /\ head \in 0..Cardinality(Traces)
  /\ DOMAIN executions \subseteq 1..head
  /\ \A s \in DOMAIN executions : executions[s] \in [id : Traces, shape : Shapes]
  /\ \A k \in DOMAIN notices : /\ k[1] \in Kinds
                               /\ k[2] \in Nat
                               /\ notices[k] \in {"OPEN", "ACKNOWLEDGED"}
  /\ highWater \in 0..head
  /\ sweep \in [on : BOOLEAN, rows : SUBSET (1..head), todo : SUBSET (1..head)]
  /\ sweep.todo \subseteq sweep.rows
  /\ failures \in 0..MaxFailures

Noticed(kind, s) == Key(kind, s) \in DOMAIN notices

\* An execution the approval record vouches for was allowed, for exactly its
\* action, by somebody who had not asked for it: no chain of refusing, asking
\* again, lapsing, withdrawing and spending leaves an execution vouched for by
\* anything less (attest, decide).
VouchedByAnother ==
  \A s \in DOMAIN executions :
    Attest(executions[s].shape.action, executions[s].id) = "DEMONSTRATED" =>
      \E i \in Grants(executions[s].shape.action) :
        requests[i].decidedBy \in People \ {requests[i].by}

\* The mark never passes over a record.  Whatever stands at or below it and is
\* still held has been examined: if it shows on its own that something was wrong,
\* or needed an approval nobody ever asked for, its notice is there, however many
\* sweeps failed half way and whatever was recorded while they ran (sweep, the
\* update of high_water_seq).
SweptIsNoticed ==
  \A s \in DOMAIN executions : s <= highWater =>
    LET shape == executions[s].shape IN
    /\ shape.decision = "DENIED" /\ shape.succeeded => Noticed("DENIED_BUT_SUCCEEDED", s)
    /\ ~shape.scoped => Noticed("NO_RECORDED_AUTHORITY", s)
    /\ shape.decision = "REQUIRES_APPROVAL" /\ For(shape.action) = {}
         => Noticed("UNAPPROVED_EXECUTION", s)
===============================================================================
