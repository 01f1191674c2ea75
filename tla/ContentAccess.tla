--------------------------- MODULE ContentAccess ----------------------------
(***************************************************************************)
(* What one user may read: a request for content passes SubscriptionGuard, *)
(* then SubscriptionAccessInterceptor, which looks up the subscription and *)
(* its count before the handler and raises the count after the answer, not *)
(* awaited. Requests of the user run concurrently. The subscription        *)
(* service, modelled in SubscriptionProcessing, appears by its writes.     *)
(***************************************************************************)
EXTENDS Integers, FiniteSets

CONSTANTS
  Readers,     \* bound: requests of the user under way at once, their counts included
  MaxAccess,   \* MAXIMUM_CONTENT_ACCESS_LIMIT
  MaxRows,     \* bound: subscriptions
  MaxWrites,   \* bound: status writes the subscription service has under way at once
  MaxCrashes   \* bound: crashes

NoRow == 0
Rows == 1..MaxRows   \* in the order of createdAt

ASSUME AccessAssumption ==
  /\ Readers # {} /\ IsFiniteSet(Readers)
  /\ MaxAccess \in Nat \ {0} /\ MaxRows \in Nat /\ MaxWrites \in Nat /\ MaxCrashes \in Nat

VARIABLES
  rows,      \* the Subscription rows
  reader,    \* the requests under way
  writes,    \* status writes the subscription service is about to make
  crashes,   \* crashes so far
  lost,      \* history: rows whose EXHAUSTED a crash has lost
  beside     \* history: reads of a row not yet counted when the latest was let in, with it

accessVars == <<rows, reader, writes, crashes, lost, beside>>

Absent == [status |-> "none", count |-> 0, ended |-> FALSE]
NoRequest == [pc |-> "idle", row |-> NoRow]

AccessInit ==
  /\ rows = [i \in Rows |-> Absent]
  /\ reader = [r \in Readers |-> NoRequest]
  /\ writes = {}
  /\ crashes = 0
  /\ lost = {}
  /\ beside = [i \in Rows |-> 0]

----------------------------------------------------------------------------
(* A request                                                               *)

\* ACTIVE, with an endDate to come or none.
Current == {i \in Rows : rows[i].status = "ACTIVE" /\ ~rows[i].ended}

GuardRequest(r) ==
  /\ reader[r].pc = "idle"
  /\ Current # {}
  /\ reader' = [reader EXCEPT ![r].pc = "check"]
  /\ UNCHANGED <<rows, writes, crashes, lost, beside>>

\* The mutant admits one read too many.
HasRoomOffByOne(i) == rows[i].count <= MaxAccess
HasRoom(i) == rows[i].count < MaxAccess

\* Reads that were let in and have not been counted.
Uncounted(i) == {r \in Readers : reader[r].pc \in {"serve", "count"} /\ reader[r].row = i}

\* The newest of them counts, whatever the others have left.
NewestCurrent(i) == i \in Current /\ \A j \in Current : j <= i

CheckAccess(r) ==
  /\ reader[r].pc = "check"
  /\ \/ \E i \in Rows :
          /\ NewestCurrent(i) /\ HasRoom(i)
          /\ reader' = [reader EXCEPT ![r] = [pc |-> "serve", row |-> i]]
          /\ beside' = [beside EXCEPT ![i] = Cardinality(Uncounted(i)) + 1]
     \/ /\ ~ \E i \in Rows : NewestCurrent(i) /\ HasRoom(i)
        /\ reader' = [reader EXCEPT ![r] = NoRequest]
        /\ UNCHANGED beside
  /\ UNCHANGED <<rows, writes, crashes, lost>>

\* The handler answers, or throws and nothing is counted. The client may send its next
\* request from here on: nobody waits for the count.
Serve(r) ==
  /\ reader[r].pc = "serve"
  /\ \/ reader' = [reader EXCEPT ![r].pc = "count"]
     \/ reader' = [reader EXCEPT ![r] = NoRequest]
  /\ UNCHANGED <<rows, writes, crashes, lost, beside>>

\* The mutant lets the last read pass.
AtLimitLate(n) == n > MaxAccess
AtLimit(n) == n >= MaxAccess

\* One atomic update, judged by the count it returns.
IncrementCount(r) ==
  LET i == reader[r].row IN
  /\ reader[r].pc = "count"
  /\ rows' = [rows EXCEPT ![i].count = @ + 1]
  /\ reader' = [reader EXCEPT ![r] = IF AtLimit(rows[i].count + 1)
                                     THEN [pc |-> "exhaust", row |-> i] ELSE NoRequest]
  /\ UNCHANGED <<writes, crashes, lost, beside>>

\* By id, over whatever status the row has by now.
WriteExhausted(r) ==
  /\ reader[r].pc = "exhaust"
  /\ rows' = [rows EXCEPT ![reader[r].row].status = "EXHAUSTED"]
  /\ reader' = [reader EXCEPT ![r] = NoRequest]
  /\ UNCHANGED <<writes, crashes, lost, beside>>

----------------------------------------------------------------------------
(* Everybody else                                                          *)

\* handleSubscriptionActivation and deactivateSubscription find a row that is ACTIVE,
\* processSubscriptionExpirations one that has ended; each writes by id.
FindRow(i) ==
  /\ rows[i].status = "ACTIVE" /\ Cardinality(writes) < MaxWrites
  /\ \E to \in IF rows[i].ended THEN {"EXPIRED", "CANCELLED"} ELSE {"REPLACED", "CANCELLED"} :
       writes' = writes \cup {[row |-> i, to |-> to]}
  /\ UNCHANGED <<rows, reader, crashes, lost, beside>>

WriteStatus(w) ==
  /\ rows' = [rows EXCEPT ![w.row].status = w.to]
  /\ writes' = writes \ {w}
  /\ UNCHANGED <<reader, crashes, lost, beside>>

NewRow(i) ==
  /\ rows[i].status = "none" /\ \A j \in Rows : j < i => rows[j].status # "none"
  /\ rows' = [rows EXCEPT ![i].status = "ACTIVE"]
  /\ UNCHANGED <<reader, writes, crashes, lost, beside>>

RowEnds(i) ==
  /\ rows[i].status # "none" /\ ~rows[i].ended
  /\ rows' = [rows EXCEPT ![i].ended = TRUE]
  /\ UNCHANGED <<reader, writes, crashes, lost, beside>>

\* The process dies, also of a count that is rejected, as nothing handles that.
AccessCrash ==
  /\ crashes < MaxCrashes
  /\ crashes' = crashes + 1
  /\ lost' = lost \cup {reader[r].row : r \in {r \in Readers : reader[r].pc = "exhaust"}}
  /\ reader' = [r \in Readers |-> NoRequest]
  /\ writes' = {}
  /\ UNCHANGED <<rows, beside>>

AccessNext ==
  \/ \E r \in Readers :
       \/ GuardRequest(r) \/ CheckAccess(r) \/ Serve(r)
       \/ IncrementCount(r) \/ WriteExhausted(r)
  \/ \E i \in Rows : FindRow(i) \/ NewRow(i) \/ RowEnds(i)
  \/ \E w \in writes : WriteStatus(w)
  \/ AccessCrash

AccessSpec == AccessInit /\ [][AccessNext]_accessVars

----------------------------------------------------------------------------
(* Properties                                                              *)

AccessTypeOK ==
  /\ rows \in [Rows -> [status : {"none", "ACTIVE", "EXHAUSTED", "REPLACED", "CANCELLED", "EXPIRED"},
                        count : Nat, ended : BOOLEAN]]
  /\ reader \in [Readers -> [pc : {"idle", "check", "serve", "count", "exhaust"},
                             row : Rows \cup {NoRow}]]
  /\ writes \subseteq [row : Rows, to : {"REPLACED", "CANCELLED", "EXPIRED"}]
  /\ crashes \in Nat
  /\ lost \subseteq Rows
  /\ beside \in [Rows -> Nat]
  /\ \A r \in Readers : reader[r].pc \in {"serve", "count", "exhaust"} => reader[r].row \in Rows

\* The count is read before the handler and raised after the answer, not awaited: a
\* subscription is read beyond its limit only by reads none of which was counted when
\* the latest of them was let in, however many more are sent after that.
AccessWithinLimit == \A i \in Rows : rows[i].count <= MaxAccess - 1 + beside[i]

\* EXHAUSTED is only written on a subscription that is spent, and one that is spent
\* does not stay ACTIVE, unless the request that spent it has yet to say so or died
\* saying so.
SpentMeansExhausted ==
  \A i \in Rows :
    /\ rows[i].status = "EXHAUSTED" => rows[i].count >= MaxAccess
    /\ rows[i].count >= MaxAccess /\ i \notin lost =>
         \/ rows[i].status # "ACTIVE"
         \/ \E r \in Readers : reader[r].pc = "exhaust" /\ reader[r].row = i
=============================================================================
