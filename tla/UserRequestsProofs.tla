------------------------- MODULE UserRequestsProofs -------------------------
(***************************************************************************)
(* Theorems about UserRequests. The parts do not touch each other, so what *)
(* is proved of each holds of all together: of Authentication and          *)
(* GroupChat in modules of their own, of ContentAccess, BankAccounts,      *)
(* CourseProgress and MediaLibrary here.                                   *)
(***************************************************************************)
EXTENDS UserRequests, AuthenticationProofs, GroupChatProofs, FiniteSetTheorems, TLAPS

\* Every behaviour of the composed system is one of each of its parts: a request
\* to one part changes nothing another reads.
THEOREM PartsStandAlone ==
  Spec => /\ AccessSpec /\ AuthSpec /\ BankSpec
          /\ CourseSpec /\ ChatSpec /\ MediaSpec
<1>1. Init => AccessInit /\ AuthInit /\ BankInit /\ CourseInit /\ ChatInit /\ MediaInit
  BY DEF Init
<1>2. ASSUME [Next]_vars
      PROVE  /\ [AccessNext]_accessVars /\ [AuthNext]_authVars /\ [BankNext]_bankVars
             /\ [CourseNext]_courseVars /\ [ChatNext]_chatVars /\ [MediaNext]_mediaVars
  BY <1>2, Zenon
     DEF Next, vars, ContentAccessStep, AuthenticationStep, BankAccountsStep, CourseProgressStep,
         GroupChatStep, MediaLibraryStep
<1> QED
  BY <1>1, <1>2, PTL DEF Spec, AccessSpec, AuthSpec, BankSpec, CourseSpec, ChatSpec, MediaSpec

(***************************************************************************)
(* Content access: what a subscription has served, and when it is          *)
(* exhausted.                                                              *)
(***************************************************************************)
Row     == [status : {"none", "ACTIVE", "EXHAUSTED", "REPLACED", "CANCELLED", "EXPIRED"},
            count : Nat, ended : BOOLEAN]
Request == [pc : {"idle", "check", "serve", "count", "exhaust"}, row : Rows \cup {NoRow}]
Write   == [row : Rows, to : {"REPLACED", "CANCELLED", "EXPIRED"}]

\* The ways a step changes the rows and the requests.

LEMMA RequestEnds ==
  ASSUME AccessTypeOK, NEW r \in Readers, NEW q \in Request,
         reader' = [reader EXCEPT ![r] = q],
         q.pc \in {"serve", "count", "exhaust"} => q.row \in Rows
  PROVE  /\ reader' \in [Readers -> Request]
         /\ \A s \in Readers : reader'[s].pc \in {"serve", "count", "exhaust"} => reader'[s].row \in Rows
  BY DEF AccessTypeOK, Request

LEMMA RequestMoves ==
  ASSUME AccessTypeOK, NEW r \in Readers, NEW pc \in {"check", "count"},
         reader' = [reader EXCEPT ![r].pc = pc],
         pc = "count" => reader[r].row \in Rows
  PROVE  /\ reader' \in [Readers -> Request]
         /\ \A s \in Readers : reader'[s].pc \in {"serve", "count", "exhaust"} => reader'[s].row \in Rows
  BY DEF AccessTypeOK, Request

LEMMA RowChanges ==
  ASSUME AccessTypeOK, NEW i \in Rows, NEW row \in Row, rows' = [rows EXCEPT ![i] = row]
  PROVE  rows' \in [Rows -> Row]
  BY DEF AccessTypeOK, Row

LEMMA NoRequestType == NoRequest \in Request /\ NoRequest.pc = "idle"
  BY DEF NoRequest, Request

LEMMA AccessTypeStep == ASSUME AccessTypeOK, [AccessNext]_accessVars PROVE AccessTypeOK'
<1>0. /\ rows \in [Rows -> Row]
      /\ reader \in [Readers -> Request]
      /\ writes \subseteq Write
      /\ \A r \in Readers : reader[r].pc \in {"serve", "count", "exhaust"} => reader[r].row \in Rows
  BY DEF AccessTypeOK, Row, Request, Write
<1>a. ASSUME rows' \in [Rows -> Row], reader' \in [Readers -> Request], writes' \subseteq Write,
             crashes' \in Nat, lost' \subseteq Rows, beside' \in [Rows -> Nat],
             \A r \in Readers : reader'[r].pc \in {"serve", "count", "exhaust"} => reader'[r].row \in Rows
      PROVE  AccessTypeOK'
  BY <1>a DEF AccessTypeOK, Row, Request, Write
<1>b. crashes \in Nat /\ lost \subseteq Rows /\ beside \in [Rows -> Nat]
  BY DEF AccessTypeOK
<1>1. ASSUME NEW r \in Readers, GuardRequest(r) PROVE AccessTypeOK'
  BY <1>0, <1>1, <1>a, <1>b, RequestMoves DEF GuardRequest
<1>2. ASSUME NEW r \in Readers, CheckAccess(r) PROVE AccessTypeOK'
  <2>1. PICK q \in Request : /\ reader' = [reader EXCEPT ![r] = q]
                             /\ q.pc \in {"serve", "count", "exhaust"} => q.row \in Rows
    <3>1. CASE reader' = [reader EXCEPT ![r] = NoRequest]
      BY <3>1, NoRequestType
    <3>2. ASSUME NEW i \in Rows, reader' = [reader EXCEPT ![r] = [pc |-> "serve", row |-> i]]
          PROVE  \E q \in Request : /\ reader' = [reader EXCEPT ![r] = q]
                                    /\ q.pc \in {"serve", "count", "exhaust"} => q.row \in Rows
      <4>1. [pc |-> "serve", row |-> i] \in Request
        BY DEF Request
      <4> QED BY <3>2, <4>1
    <3> QED BY <1>2, <3>1, <3>2 DEF CheckAccess
  <2>2. beside' \in [Rows -> Nat]
    <3>1. \A i \in Rows : Cardinality(Uncounted(i)) + 1 \in Nat
      BY AccessAssumption, FS_Subset, FS_CardinalityType DEF Uncounted
    <3> QED BY <1>2, <1>b, <3>1 DEF CheckAccess
  <2> QED BY <1>0, <1>2, <1>a, <1>b, <2>1, <2>2, RequestEnds DEF CheckAccess
<1>3. ASSUME NEW r \in Readers, Serve(r) PROVE AccessTypeOK'
  <2>1. CASE reader' = [reader EXCEPT ![r].pc = "count"]
    BY <1>0, <1>3, <1>a, <1>b, <2>1, RequestMoves DEF Serve
  <2>2. CASE reader' = [reader EXCEPT ![r] = NoRequest]
    BY <1>0, <1>3, <1>a, <1>b, <2>2, RequestEnds, NoRequestType DEF Serve
  <2> QED BY <1>3, <2>1, <2>2 DEF Serve
<1>4. ASSUME NEW r \in Readers, IncrementCount(r) PROVE AccessTypeOK'
  <2> DEFINE i == reader[r].row
             q == IF AtLimit(rows[i].count + 1) THEN [pc |-> "exhaust", row |-> i] ELSE NoRequest
  <2>1. i \in Rows
    BY <1>0, <1>4 DEF IncrementCount
  <2>2. q \in Request /\ (q.pc \in {"serve", "count", "exhaust"} => q.row \in Rows)
    BY <2>1, NoRequestType DEF Request
  <2>3. reader' = [reader EXCEPT ![r] = q]
    BY <1>4 DEF IncrementCount
  <2>4. rows' = [rows EXCEPT ![i] = [rows[i] EXCEPT !.count = rows[i].count + 1]]
    BY <1>4 DEF IncrementCount
  <2>5. [rows[i] EXCEPT !.count = rows[i].count + 1] \in Row
    BY <1>0, <2>1 DEF Row
  <2>6. rows' \in [Rows -> Row]
    BY <2>1, <2>4, <2>5, RowChanges
  <2> HIDE DEF q
  <2> QED BY <1>0, <1>4, <1>a, <1>b, <2>2, <2>3, <2>6, RequestEnds DEF IncrementCount
<1>5. ASSUME NEW r \in Readers, WriteExhausted(r) PROVE AccessTypeOK'
  <2>1. reader[r].row \in Rows
    BY <1>0, <1>5 DEF WriteExhausted
  <2>2. rows' \in [Rows -> Row]
    BY <1>0, <1>5, <2>1 DEF WriteExhausted, Row
  <2> QED BY <1>0, <1>5, <1>a, <1>b, <2>2, RequestEnds, NoRequestType DEF WriteExhausted
<1>6. ASSUME NEW i \in Rows, FindRow(i) PROVE AccessTypeOK'
  <2>1. writes' \subseteq Write
    BY <1>0, <1>6 DEF FindRow, Write
  <2> QED BY <1>0, <1>6, <1>a, <1>b, <2>1 DEF FindRow
<1>7. ASSUME NEW i \in Rows, NewRow(i) PROVE AccessTypeOK'
  <2>1. rows' \in [Rows -> Row]
    BY <1>0, <1>7 DEF NewRow, Row
  <2> QED BY <1>0, <1>7, <1>a, <1>b, <2>1 DEF NewRow
<1>8. ASSUME NEW i \in Rows, RowEnds(i) PROVE AccessTypeOK'
  <2>1. rows' \in [Rows -> Row]
    BY <1>0, <1>8 DEF RowEnds, Row
  <2> QED BY <1>0, <1>8, <1>a, <1>b, <2>1 DEF RowEnds
<1>9. ASSUME NEW w \in writes, WriteStatus(w) PROVE AccessTypeOK'
  <2>1. w \in Write
    BY <1>0
  <2>2. rows' \in [Rows -> Row]
    BY <1>0, <1>9, <2>1 DEF WriteStatus, Row, Write
  <2> QED BY <1>0, <1>9, <1>a, <1>b, <2>2 DEF WriteStatus
<1>10. ASSUME AccessCrash PROVE AccessTypeOK'
  <2>1. reader' \in [Readers -> Request]
    BY <1>10, NoRequestType DEF AccessCrash
  <2>2. \A r \in Readers : reader'[r].pc = "idle"
    BY <1>10, NoRequestType DEF AccessCrash
  <2>3. lost' \subseteq Rows
    BY <1>0, <1>10, <1>b DEF AccessCrash
  <2> QED BY <1>0, <1>10, <1>a, <1>b, <2>1, <2>2, <2>3 DEF AccessCrash
<1>11. CASE UNCHANGED accessVars
  BY <1>11 DEF accessVars, AccessTypeOK
<1> QED BY <1>1, <1>2, <1>3, <1>4, <1>5, <1>6, <1>7, <1>8, <1>9, <1>10, <1>11 DEF AccessNext

\* Every reachable state is well typed, and a request that serves, counts or
\* exhausts a subscription has one (SubscriptionAccessInterceptor).
THEOREM AccessTypeCorrect == AccessSpec => []AccessTypeOK
<1>1. AccessInit => AccessTypeOK
  BY DEF AccessInit, AccessTypeOK, Absent, NoRequest
<1> QED BY <1>1, AccessTypeStep, PTL DEF AccessSpec

----------------------------------------------------------------------------
(* EXHAUSTED                                                               *)

\* A request that is about to write EXHAUSTED has seen the limit reached, and a
\* row that is not there yet has been read by nobody.
SpentInv ==
  /\ \A r \in Readers : reader[r].pc = "exhaust" => rows[reader[r].row].count >= MaxAccess
  /\ \A r \in Readers :
       reader[r].pc \in {"serve", "count", "exhaust"} => rows[reader[r].row].status # "none"
  /\ \A i \in Rows : rows[i].status = "none" => rows[i].count = 0
  /\ SpentMeansExhausted

Exhausters(i) == {r \in Readers : reader[r].pc = "exhaust" /\ reader[r].row = i}

\* A step that changes no count, and makes no row ACTIVE and none EXHAUSTED.
LEMMA SpentKept ==
  ASSUME AccessTypeOK, SpentInv, AccessTypeOK', lost \subseteq lost',
         \A i \in Rows : /\ rows'[i].count = rows[i].count
                         /\ rows'[i].status = rows[i].status
                            \/ rows'[i].status \in {"REPLACED", "CANCELLED", "EXPIRED"},
         \A r \in Readers : reader'[r].pc \in {"serve", "count", "exhaust"} =>
           /\ reader'[r].row \in Rows /\ rows[reader'[r].row].status # "none"
           /\ reader'[r].pc = "exhaust" => reader[r] = reader'[r],
         \A r \in Readers : reader[r].pc = "exhaust" =>
           reader'[r] = reader[r] \/ reader[r].row \in lost'
  PROVE  SpentInv'
<1>1. \A r \in Readers : reader'[r].pc = "exhaust" => rows'[reader'[r].row].count >= MaxAccess
  BY DEF SpentInv
<1>2. \A r \in Readers :
        reader'[r].pc \in {"serve", "count", "exhaust"} => rows'[reader'[r].row].status # "none"
  OBVIOUS
<1>3. \A i \in Rows : rows'[i].status = "none" => rows'[i].count = 0
  BY DEF SpentInv
<1>4. SpentMeansExhausted'
  BY DEF SpentInv, SpentMeansExhausted
<1> QED BY <1>1, <1>2, <1>3, <1>4 DEF SpentInv

LEMMA SpentStep ==
  ASSUME AccessTypeOK, SpentInv, [AccessNext]_accessVars PROVE SpentInv'
<1> USE AccessAssumption
<1>0. /\ AccessTypeOK'
      /\ rows \in [Rows -> Row]
      /\ reader \in [Readers -> Request]
      /\ writes \subseteq Write
      /\ \A r \in Readers : reader[r].pc \in {"serve", "count", "exhaust"} => reader[r].row \in Rows
      /\ lost \subseteq lost'
  BY AccessTypeStep DEF AccessTypeOK, Row, Request, Write, AccessNext, GuardRequest, CheckAccess, Serve,
     IncrementCount, WriteExhausted, FindRow, NewRow, RowEnds, WriteStatus, AccessCrash, accessVars
<1>1. ASSUME NEW r \in Readers, GuardRequest(r) PROVE SpentInv'
  BY <1>0, <1>1, SpentKept DEF GuardRequest, SpentInv, Request
<1>2. ASSUME NEW r \in Readers, CheckAccess(r) PROVE SpentInv'
  <2>1. \A s \in Readers \ {r} : reader'[s] = reader[s]
    BY <1>0, <1>2 DEF CheckAccess
  <2>2. \/ reader'[r] = NoRequest
        \/ \E i \in Current : reader'[r] = [pc |-> "serve", row |-> i]
    BY <1>0, <1>2 DEF CheckAccess, NewestCurrent
  <2>3. reader[r].pc = "check" /\ rows' = rows
    BY <1>2 DEF CheckAccess
  <2>4. reader'[r].pc \in {"idle", "serve"}
        /\ (reader'[r].pc = "serve" => reader'[r].row \in Current)
    <3>1. CASE reader'[r] = NoRequest
      BY <3>1, NoRequestType
    <3>2. CASE \E i \in Current : reader'[r] = [pc |-> "serve", row |-> i]
      BY <3>2
    <3> QED BY <2>2, <3>1, <3>2
  <2> QED BY <1>0, <2>1, <2>3, <2>4, SpentKept DEF SpentInv, Current
<1>3. ASSUME NEW r \in Readers, Serve(r) PROVE SpentInv'
  <2>1. \A s \in Readers \ {r} : reader'[s] = reader[s]
    BY <1>0, <1>3 DEF Serve
  <2>2. \/ reader'[r].pc = "idle"
        \/ reader'[r].pc = "count" /\ reader'[r].row = reader[r].row
    BY <1>0, <1>3 DEF Serve, NoRequest, Request
  <2>3. reader[r].pc = "serve" /\ rows' = rows
    BY <1>3 DEF Serve
  <2> QED BY <1>0, <2>1, <2>2, <2>3, SpentKept DEF SpentInv
<1>4. ASSUME NEW r \in Readers, IncrementCount(r) PROVE SpentInv'
  <2> DEFINE i == reader[r].row
  <2>1. /\ i \in Rows /\ reader[r].pc = "count" /\ rows[i].status # "none"
        /\ rows[i].count \in Nat
    BY <1>0, <1>4 DEF IncrementCount, SpentInv, Row
  <2>2. /\ \A j \in Rows \ {i} : rows'[j] = rows[j]
        /\ rows'[i].count = rows[i].count + 1 /\ rows'[i].status = rows[i].status
    BY <1>0, <1>4, <2>1 DEF IncrementCount, Row
  <2>3. /\ \A s \in Readers \ {r} : reader'[s] = reader[s]
        /\ IF rows[i].count + 1 >= MaxAccess THEN reader'[r] = [pc |-> "exhaust", row |-> i]
           ELSE reader'[r].pc = "idle"
    BY <1>0, <1>4 DEF IncrementCount, AtLimit, NoRequest
  <2>4. \A j \in Rows : rows'[j].count >= rows[j].count /\ rows'[j].status = rows[j].status
    BY <1>0, <2>1, <2>2 DEF Row
  <2>5. \A s \in Readers : reader'[s].pc = "exhaust" => rows'[reader'[s].row].count >= MaxAccess
    <3> SUFFICES ASSUME NEW s \in Readers, reader'[s].pc = "exhaust"
                 PROVE  rows'[reader'[s].row].count >= MaxAccess
      OBVIOUS
    <3>1. CASE s = r
      BY <2>1, <2>2, <2>3, <3>1
    <3>2. CASE s # r
      BY <1>0, <2>2, <2>1, <2>3, <3>2 DEF SpentInv, Row
    <3> QED BY <3>1, <3>2
  <2>6. \A s \in Readers :
          reader'[s].pc \in {"serve", "count", "exhaust"} => rows'[reader'[s].row].status # "none"
    BY <1>0, <2>1, <2>3, <2>4 DEF SpentInv
  <2>7. \A j \in Rows : rows'[j].status = "none" => rows'[j].count = 0
    BY <2>1, <2>2, <2>4 DEF SpentInv
  <2>8. SpentMeansExhausted'
    <3> SUFFICES ASSUME NEW j \in Rows
                 PROVE  /\ rows'[j].status = "EXHAUSTED" => rows'[j].count >= MaxAccess
                        /\ rows'[j].count >= MaxAccess /\ j \notin lost' =>
                             \/ rows'[j].status # "ACTIVE"
                             \/ \E s \in Readers : reader'[s].pc = "exhaust" /\ reader'[s].row = j
      BY DEF SpentMeansExhausted
    <3>1. CASE j = i
      BY <2>1, <2>2, <2>3, <3>1 DEF SpentInv, SpentMeansExhausted
    <3>2. CASE j # i
      <4>1. lost' = lost
        BY <1>4 DEF IncrementCount
      <4> QED BY <2>1, <2>2, <2>3, <3>2, <4>1 DEF SpentInv, SpentMeansExhausted
    <3> QED BY <3>1, <3>2
  <2> QED BY <2>5, <2>6, <2>7, <2>8 DEF SpentInv
<1>5. ASSUME NEW r \in Readers, WriteExhausted(r) PROVE SpentInv'
  <2> DEFINE i == reader[r].row
  <2>1. i \in Rows /\ rows[i].count >= MaxAccess /\ reader[r].pc = "exhaust"
    BY <1>0, <1>5 DEF WriteExhausted, SpentInv
  <2>2. /\ \A j \in Rows \ {i} : rows'[j] = rows[j]
        /\ rows'[i].count = rows[i].count /\ rows'[i].status = "EXHAUSTED"
        /\ \A s \in Readers \ {r} : reader'[s] = reader[s]
        /\ reader'[r].pc = "idle"
        /\ lost' = lost
    BY <1>0, <1>5, <2>1 DEF WriteExhausted, Row, NoRequest
  <2>3. SpentMeansExhausted'
    BY <2>1, <2>2 DEF SpentInv, SpentMeansExhausted
  <2> QED BY <1>0, <2>1, <2>2, <2>3 DEF SpentInv
<1>6. ASSUME NEW i \in Rows, FindRow(i) PROVE SpentInv'
  BY <1>0, <1>6, SpentKept DEF FindRow, SpentInv
<1>7. ASSUME NEW i \in Rows, NewRow(i) PROVE SpentInv'
  <2>1. /\ \A j \in Rows \ {i} : rows'[j] = rows[j]
        /\ rows'[i].count = rows[i].count /\ rows'[i].status = "ACTIVE"
        /\ reader' = reader /\ lost' = lost /\ rows[i].status = "none"
    BY <1>0, <1>7 DEF NewRow, Row
  <2>2. rows[i].count = 0 /\ ~(0 >= MaxAccess)
    BY <2>1 DEF SpentInv
  <2>3. SpentMeansExhausted'
    BY <2>1, <2>2 DEF SpentInv, SpentMeansExhausted
  <2> QED BY <1>0, <2>1, <2>2, <2>3 DEF SpentInv
<1>8. ASSUME NEW i \in Rows, RowEnds(i) PROVE SpentInv'
  <2>1. /\ \A j \in Rows : rows'[j].count = rows[j].count /\ rows'[j].status = rows[j].status
        /\ reader' = reader
    BY <1>0, <1>8 DEF RowEnds, Row
  <2> QED BY <1>0, <2>1, SpentKept DEF SpentInv
<1>9. ASSUME NEW w \in writes, WriteStatus(w) PROVE SpentInv'
  <2>1. w \in Write
    BY <1>0
  <2>2. /\ \A j \in Rows : /\ rows'[j].count = rows[j].count
                           /\ rows'[j].status = rows[j].status \/ rows'[j].status = w.to
        /\ reader' = reader
    BY <1>0, <1>9, <2>1 DEF WriteStatus, Row, Write
  <2> QED BY <1>0, <2>1, <2>2, SpentKept DEF SpentInv, Write
<1>10. ASSUME AccessCrash PROVE SpentInv'
  <2>1. /\ \A r \in Readers : reader'[r].pc = "idle"
        /\ rows' = rows
        /\ \A r \in Readers : reader[r].pc = "exhaust" => reader[r].row \in lost'
    BY <1>0, <1>10 DEF AccessCrash, NoRequest
  <2> QED BY <1>0, <2>1, SpentKept
<1>11. CASE UNCHANGED accessVars
  BY <1>11 DEF accessVars, SpentInv, SpentMeansExhausted
<1> QED BY <1>1, <1>2, <1>3, <1>4, <1>5, <1>6, <1>7, <1>8, <1>9, <1>10, <1>11 DEF AccessNext

\* However requests, status writes by id and crashes interleave, EXHAUSTED is only
\* written on a spent subscription, and a spent one does not stay ACTIVE.
THEOREM SpentMeansExhaustedAlways == AccessSpec => []SpentMeansExhausted
<1>1. AccessInit => AccessTypeOK /\ SpentInv
  BY AccessAssumption
     DEF AccessInit, AccessTypeOK, SpentInv, SpentMeansExhausted, Absent, NoRequest
<1>2. AccessTypeOK /\ SpentInv /\ [AccessNext]_accessVars => (AccessTypeOK /\ SpentInv)'
  BY AccessTypeStep, SpentStep
<1>3. SpentInv => SpentMeansExhausted
  BY DEF SpentInv
<1> QED BY <1>1, <1>2, <1>3, PTL DEF AccessSpec

----------------------------------------------------------------------------
(* The limit                                                               *)

\* A request was let in with a count below the limit, and each that is on its way
\* adds one.
LimitInv ==
  \A i \in Rows : rows[i].count + Cardinality(Uncounted(i)) <= MaxAccess - 1 + beside[i]

LEMMA UncountedFinite ==
  \A i \in Rows : IsFiniteSet(Uncounted(i)) /\ Cardinality(Uncounted(i)) \in Nat
  BY AccessAssumption, FS_Subset, FS_CardinalityType DEF Uncounted

\* A step that lets nobody in and counts nothing.
LEMMA LimitKept ==
  ASSUME LimitInv, AccessTypeOK, UNCHANGED beside,
         \A i \in Rows : rows'[i].count = rows[i].count,
         \A r \in Readers : reader'[r].pc \in {"serve", "count"} =>
           reader[r].pc \in {"serve", "count"} /\ reader'[r].row = reader[r].row
  PROVE  LimitInv'
<1> SUFFICES ASSUME NEW i \in Rows
             PROVE  rows'[i].count + Cardinality(Uncounted(i)') <= MaxAccess - 1 + beside'[i]
  BY DEF LimitInv
<1>1. Uncounted(i)' \in SUBSET Uncounted(i)
  BY DEF Uncounted
<1>2. IsFiniteSet(Uncounted(i)) /\ Cardinality(Uncounted(i)) \in Nat /\ beside[i] \in Nat
  BY UncountedFinite DEF AccessTypeOK
<1>3. Cardinality(Uncounted(i)') <= Cardinality(Uncounted(i)) /\ Cardinality(Uncounted(i)') \in Nat
  BY <1>1, <1>2, FS_Subset, FS_CardinalityType
<1>4. rows[i].count \in Nat /\ MaxAccess \in Nat
  BY AccessAssumption DEF AccessTypeOK
<1> QED BY <1>2, <1>3, <1>4 DEF LimitInv

LEMMA LimitStep ==
  ASSUME AccessTypeOK, LimitInv, [AccessNext]_accessVars PROVE LimitInv'
<1>0. /\ rows \in [Rows -> Row]
      /\ reader \in [Readers -> Request]
      /\ writes \subseteq Write
      /\ \A r \in Readers : reader[r].pc \in {"serve", "count", "exhaust"} => reader[r].row \in Rows
  BY DEF AccessTypeOK, Row, Request, Write
<1>b. beside \in [Rows -> Nat]
  BY DEF AccessTypeOK
<1>1. ASSUME NEW r \in Readers, CheckAccess(r) PROVE LimitInv'
  <2>1. /\ \A s \in Readers \ {r} : reader'[s] = reader[s]
        /\ reader[r].pc = "check" /\ rows' = rows
    BY <1>0, <1>1 DEF CheckAccess
  <2>2. CASE reader'[r] = NoRequest /\ UNCHANGED beside
    BY <2>1, <2>2, NoRequestType, LimitKept
  <2>3. ASSUME NEW i \in Rows, HasRoom(i), reader'[r] = [pc |-> "serve", row |-> i],
               beside' = [beside EXCEPT ![i] = Cardinality(Uncounted(i)) + 1]
        PROVE  LimitInv'
    <3> SUFFICES ASSUME NEW j \in Rows
                 PROVE  rows'[j].count + Cardinality(Uncounted(j)') <= MaxAccess - 1 + beside'[j]
      BY DEF LimitInv
    <3>2. CASE j = i
      <4>1. Uncounted(j)' = Uncounted(j) \cup {r} /\ r \notin Uncounted(j)
        BY <2>1, <2>3, <3>2 DEF Uncounted
      <4>2. Cardinality(Uncounted(j)') = Cardinality(Uncounted(j)) + 1
            /\ Cardinality(Uncounted(j)) \in Nat
        BY <4>1, UncountedFinite, FS_AddElement
      <4>3. beside'[j] = Cardinality(Uncounted(j)) + 1
        BY <1>b, <2>3, <3>2
      <4>4. rows'[j].count <= MaxAccess - 1 /\ rows'[j].count \in Nat /\ MaxAccess \in Nat
        BY <1>0, <2>1, <2>3, <3>2, AccessAssumption DEF HasRoom, Row
      <4> QED BY <4>2, <4>3, <4>4
    <3>3. CASE j # i
      <4>1. Uncounted(j)' = Uncounted(j) /\ beside'[j] = beside[j]
        BY <1>b, <2>1, <2>3, <3>3 DEF Uncounted
      <4> QED BY <2>1, <4>1 DEF LimitInv
    <3> QED BY <3>2, <3>3
  <2> QED BY <1>0, <1>1, <2>2, <2>3 DEF CheckAccess
<1>2. ASSUME NEW r \in Readers, IncrementCount(r) PROVE LimitInv'
  <2> DEFINE i == reader[r].row
  <2>1. i \in Rows /\ reader[r].pc = "count" /\ rows[i].count \in Nat
    BY <1>0, <1>2 DEF IncrementCount, Row
  <2>2. /\ \A j \in Rows \ {i} : rows'[j] = rows[j]
        /\ rows'[i].count = rows[i].count + 1
        /\ \A s \in Readers \ {r} : reader'[s] = reader[s]
        /\ reader'[r].pc \in {"exhaust", "idle"}
    BY <1>0, <1>2, <2>1 DEF IncrementCount, Row, NoRequest
  <2> SUFFICES ASSUME NEW j \in Rows
               PROVE  rows'[j].count + Cardinality(Uncounted(j)') <= MaxAccess - 1 + beside'[j]
    BY DEF LimitInv
  <2>b. beside' = beside
    BY <1>2 DEF IncrementCount
  <2>3. CASE j = i
    <3>1. Uncounted(j)' = Uncounted(j) \ {r} /\ r \in Uncounted(j)
      BY <2>1, <2>2, <2>3 DEF Uncounted
    <3>2. /\ IsFiniteSet(Uncounted(j)) /\ Cardinality(Uncounted(j)) \in Nat
          /\ beside[j] \in Nat /\ MaxAccess \in Nat
      BY <1>b, UncountedFinite, AccessAssumption
    <3>3. Cardinality(Uncounted(j)') = Cardinality(Uncounted(j)) - 1
      BY <3>1, <3>2, FS_RemoveElement
    <3>4. rows[j].count + Cardinality(Uncounted(j)) <= MaxAccess - 1 + beside[j]
      BY DEF LimitInv
    <3>5. rows'[j].count = rows[j].count + 1 /\ rows[j].count \in Nat
      BY <2>1, <2>2, <2>3
    <3> QED BY <2>b, <3>2, <3>3, <3>4, <3>5
  <2>4. CASE j # i
    <3>1. Uncounted(j)' = Uncounted(j)
      BY <2>1, <2>2, <2>4 DEF Uncounted
    <3> QED BY <2>2, <2>4, <2>b, <3>1 DEF LimitInv
  <2> QED BY <2>3, <2>4
<1>3. ASSUME NEW r \in Readers, GuardRequest(r) \/ Serve(r) \/ WriteExhausted(r) PROVE LimitInv'
  <2>1. /\ \A s \in Readers \ {r} : reader'[s] = reader[s]
        /\ \/ reader'[r].pc \notin {"serve", "count"}
           \/ reader[r].pc = "serve" /\ reader'[r].row = reader[r].row
    <3>1. CASE GuardRequest(r)
      BY <1>0, <3>1 DEF GuardRequest, Request
    <3>2. CASE Serve(r)
      BY <1>0, <3>2, NoRequestType DEF Serve, Request
    <3>3. CASE WriteExhausted(r)
      BY <1>0, <3>3, NoRequestType DEF WriteExhausted
    <3> QED BY <1>3, <3>1, <3>2, <3>3
  <2>2. \A j \in Rows : rows'[j].count = rows[j].count
    BY <1>0, <1>3 DEF GuardRequest, Serve, WriteExhausted, Row
  <2>3. UNCHANGED beside
    BY <1>3 DEF GuardRequest, Serve, WriteExhausted
  <2> QED BY <2>1, <2>2, <2>3, LimitKept
<1>4. ASSUME NEW i \in Rows, FindRow(i) \/ NewRow(i) \/ RowEnds(i) PROVE LimitInv'
  <2>1. reader' = reader /\ beside' = beside /\ \A j \in Rows : rows'[j].count = rows[j].count
    BY <1>0, <1>4 DEF FindRow, NewRow, RowEnds, Row
  <2> QED BY <2>1, LimitKept
<1>5. ASSUME NEW w \in writes, WriteStatus(w) PROVE LimitInv'
  <2>1. reader' = reader /\ beside' = beside /\ \A j \in Rows : rows'[j].count = rows[j].count
    BY <1>0, <1>5 DEF WriteStatus, Row, Write
  <2> QED BY <2>1, LimitKept
<1>6. ASSUME AccessCrash PROVE LimitInv'
  <2>1. \A r \in Readers : reader'[r].pc = "idle"
    BY <1>6 DEF AccessCrash, NoRequest
  <2>2. rows' = rows /\ beside' = beside
    BY <1>6 DEF AccessCrash
  <2> QED BY <2>1, <2>2, LimitKept
<1>7. CASE UNCHANGED accessVars
  BY <1>7, LimitKept DEF accessVars
<1> QED BY <1>1, <1>2, <1>3, <1>4, <1>5, <1>6, <1>7 DEF AccessNext

\* Although the count is checked before the handler and raised after the answer, not
\* awaited, a subscription is read beyond its limit only by reads none of which was
\* counted when the latest of them was let in.
THEOREM AccessWithinLimitAlways == AccessSpec => []AccessWithinLimit
<1>1. AccessInit => AccessTypeOK /\ LimitInv
  <2> SUFFICES ASSUME AccessInit PROVE AccessTypeOK /\ LimitInv
    OBVIOUS
  <2>1. AccessTypeOK
    BY DEF AccessInit, AccessTypeOK, Absent, NoRequest
  <2>2. \A i \in Rows : Uncounted(i) = {} /\ rows[i].count = 0
    BY DEF AccessInit, Uncounted, Absent, NoRequest
  <2>3. Cardinality({}) = 0 /\ MaxAccess \in Nat \ {0}
    BY FS_EmptySet, AccessAssumption
  <2>4. \A i \in Rows : rows[i].count + Cardinality(Uncounted(i)) = 0
    <3> TAKE i \in Rows
    <3>1. Cardinality(Uncounted(i)) = Cardinality({})
      BY <2>2
    <3> QED BY <2>2, <2>3, <3>1
  <2>5. \A i \in Rows : 0 <= MaxAccess - 1 + beside[i]
    BY <2>3 DEF AccessInit
  <2>6. LimitInv
    BY <2>4, <2>5 DEF LimitInv
  <2> QED BY <2>1, <2>6
<1>2. AccessTypeOK /\ LimitInv /\ [AccessNext]_accessVars => (AccessTypeOK /\ LimitInv)'
  BY AccessTypeStep, LimitStep
<1>3. AccessTypeOK /\ LimitInv => AccessWithinLimit
  <2> SUFFICES ASSUME AccessTypeOK, LimitInv, NEW i \in Rows
               PROVE  rows[i].count <= MaxAccess - 1 + beside[i]
    BY DEF AccessWithinLimit
  <2>1. /\ rows[i].count \in Nat /\ MaxAccess \in Nat /\ Cardinality(Uncounted(i)) \in Nat
        /\ beside[i] \in Nat
    BY UncountedFinite, AccessAssumption DEF AccessTypeOK
  <2> QED BY <2>1 DEF LimitInv
<1> QED BY <1>1, <1>2, <1>3, PTL DEF AccessSpec

(***************************************************************************)
(* Bank accounts. Unless entangled, one request is pending at most, and    *)
(* only that of a new account may find no default: the account is the      *)
(* first. One that sets the default alone leaves exactly that one.         *)
(***************************************************************************)
BankRows == [there : BOOLEAN, default : BOOLEAN]
BankRequests == [pc : {"none", "count", "default", "set default", "check", "delete", "done"},
                 account : Accounts \cup {NoAccountNo}, default : BOOLEAN]

PendingOK(q) ==
  LET a == request[q].account  IN
  /\ a \in There
  /\ request[q].pc = "count" =>
       \/ There = {a} /\ Defaults = {}
       \/ There # {a} /\ \E b \in There : Defaults = {b}
  /\ request[q].pc = "default" => There = {a} /\ Defaults = {}
  /\ request[q].pc \in {"set default", "check", "delete"} =>
       /\ \E b \in There : Defaults = {b}
       /\ request[q].default = bank[a].default

BankInv ==
  /\ BankTypeOK
  /\ \A a \in Accounts \ There : bank[a] = NoBank
  /\ ~entangled =>
       /\ \A p, q \in Pending : p = q
       /\ \A q \in Pending : PendingOK(q)
       /\ Pending = {} /\ There # {} => \E b \in There : Defaults = {b}

LEMMA BankRowIs == NoBank \in BankRows /\ ~NoBank.there /\ ~NoBank.default
BY DEF NoBank, BankRows

LEMMA BankInitially == BankInit => BankInv
<1> SUFFICES ASSUME BankInit PROVE BankInv  OBVIOUS
<1>1. \A a \in Accounts : bank[a] = NoBank /\ ~bank[a].there
  BY BankRowIs DEF BankInit
<1>2. There = {}
  BY <1>1 DEF There
<1>3. NoBankRequest \in BankRequests /\ NoBankRequest.pc = "none"
  BY DEF NoBankRequest, BankRequests
<1>4. Pending = {} /\ request \in [Requests -> BankRequests]
  BY <1>3 DEF BankInit, Pending
<1>5. bank \in [Accounts -> BankRows]
  BY BankRowIs DEF BankInit
<1>6. BankTypeOK
  BY <1>2, <1>4, <1>5 DEF BankInit, BankTypeOK, BankRows, BankRequests
<1> QED
  BY <1>1, <1>2, <1>4, <1>6 DEF BankInv
(* What is pending after a request begins, or goes on at pc.               *)
LEMMA BankAsked ==
  ASSUME BankInv, NEW q \in Requests, NEW a \in Accounts,
         NEW pc \in {"count", "set default", "check"}, Ask(q, a, pc)
  PROVE  /\ request' \in [Requests -> BankRequests] /\ entangled' \in BOOLEAN
         /\ Pending' = Pending \cup {q}
         /\ \A p \in Requests \ {q} : request'[p] = request[p]
         /\ request'[q].pc = pc /\ request'[q].account = a
         /\ request'[q].default = (a \in There /\ bank[a].default)
         /\ ~entangled' => ~entangled /\ Pending = {}
<1> DEFINE d == a \in There /\ bank[a].default
           r == [pc |-> pc, account |-> a, default |-> d]
<1>1. request \in [Requests -> BankRequests] /\ entangled \in BOOLEAN /\ d \in BOOLEAN
  BY DEF BankInv, BankTypeOK, BankRequests
<1>2. request' = [request EXCEPT ![q] = r] /\ entangled' = (entangled \/ Pending # {})
  BY DEF Ask
<1> HIDE DEF d
<1>3. r \in BankRequests /\ r.pc = pc /\ r.account = a /\ r.default = d
  BY <1>1 DEF BankRequests
<1> HIDE DEF r
<1>4. \A p \in Requests \ {q} : request'[p] = request[p]
  BY <1>1, <1>2
<1>5. request'[q] = r
  BY <1>1, <1>2
<1>6. Pending' = Pending \cup {q}
  BY <1>3, <1>4, <1>5 DEF Pending
<1>7. request' \in [Requests -> BankRequests]
  BY <1>1, <1>2, <1>3
<1> QED
  BY <1>1, <1>2, <1>3, <1>4, <1>5, <1>6, <1>7 DEF d

LEMMA BankGoesOn ==
  ASSUME BankInv, NEW q \in Pending, NEW pc \in {"default", "delete", "done"},
         request' = [request EXCEPT ![q].pc = pc]
  PROVE  /\ request' \in [Requests -> BankRequests]
         /\ Pending' = IF pc = "done" THEN Pending \ {q} ELSE Pending
         /\ \A p \in Requests \ {q} : request'[p] = request[p]
         /\ request'[q].pc = pc /\ request'[q].account = request[q].account
         /\ request'[q].default = request[q].default
<1> DEFINE r == [request[q] EXCEPT !.pc = pc]
<1>1. request \in [Requests -> BankRequests] /\ q \in Requests
  BY DEF BankInv, BankTypeOK, BankRequests, Pending
<1>2. r \in BankRequests /\ r.pc = pc /\ r.account = request[q].account /\ r.default = request[q].default
  BY <1>1 DEF BankRequests
<1>3. request' = [request EXCEPT ![q] = r]
  BY <1>1
<1> HIDE DEF r
<1>4. \A p \in Requests \ {q} : request'[p] = request[p]
  BY <1>1, <1>3
<1>5. request'[q] = r
  BY <1>1, <1>3
<1>6. Pending' = IF pc = "done" THEN Pending \ {q} ELSE Pending
  BY <1>2, <1>4, <1>5 DEF Pending
<1> QED
  BY <1>1, <1>2, <1>3, <1>4, <1>5, <1>6

(* The rows after each operation.                                          *)
LEMMA BankWritten ==
  ASSUME BankInv, NEW q \in Requests, NEW x \in Accounts
  PROVE  /\ AddAccount(q, x) =>
              /\ bank' \in [Accounts -> BankRows] /\ There' = There \cup {x} /\ Defaults' = Defaults
              /\ x \notin There /\ \A b \in Accounts \ There' : bank'[b] = NoBank
         /\ bank' = [bank EXCEPT ![x].default = TRUE] /\ x \in There =>
              /\ bank' \in [Accounts -> BankRows] /\ There' = There /\ Defaults' = Defaults \cup {x}
              /\ \A b \in Accounts \ There' : bank'[b] = NoBank
         /\ bank' = [b \in Accounts |-> [bank[b] EXCEPT !.default = b = x]] /\ x \in There =>
              /\ bank' \in [Accounts -> BankRows] /\ There' = There /\ Defaults' = {x}
              /\ \A b \in Accounts \ There' : bank'[b] = NoBank
         /\ bank' = [bank EXCEPT ![x] = NoBank] =>
              /\ bank' \in [Accounts -> BankRows] /\ There' = There \ {x} /\ Defaults' = Defaults \ {x}
              /\ \A b \in Accounts \ There' : bank'[b] = NoBank
<1>1. bank \in [Accounts -> BankRows] /\ \A b \in Accounts \ There : bank[b] = NoBank
  BY DEF BankInv, BankTypeOK, BankRows
<1>2. There \subseteq Accounts /\ \A b \in Accounts : b \in There <=> bank[b].there
  BY DEF There
<1>3. ASSUME AddAccount(q, x)
      PROVE  /\ bank' \in [Accounts -> BankRows] /\ There' = There \cup {x} /\ Defaults' = Defaults
             /\ x \notin There /\ \A b \in Accounts \ There' : bank'[b] = NoBank
  <2> DEFINE r == [bank[x] EXCEPT !.there = TRUE]
  <2>1. x \notin There /\ bank' = [bank EXCEPT ![x] = r]
    BY <1>3 DEF AddAccount
  <2>2. r \in BankRows /\ r.there /\ ~r.default
    BY <1>1, <2>1, BankRowIs DEF BankRows
  <2> HIDE DEF r
  <2>3. bank'[x] = r /\ \A b \in Accounts \ {x} : bank'[b] = bank[b]
    BY <1>1, <2>1
  <2>4. There' = There \cup {x}
    BY <2>2, <2>3 DEF There
  <2>5. Defaults' = Defaults
    BY <2>1, <2>2, <2>3, <2>4 DEF Defaults, There
  <2> QED
    BY <1>1, <2>1, <2>2, <2>3, <2>4, <2>5
<1>4. ASSUME bank' = [bank EXCEPT ![x].default = TRUE], x \in There
      PROVE  /\ bank' \in [Accounts -> BankRows] /\ There' = There /\ Defaults' = Defaults \cup {x}
             /\ \A b \in Accounts \ There' : bank'[b] = NoBank
  <2> DEFINE r == [bank[x] EXCEPT !.default = TRUE]
  <2>1. bank' = [bank EXCEPT ![x] = r]
    BY <1>4
  <2>2. r \in BankRows /\ r.there /\ r.default
    BY <1>1, <1>2, <1>4 DEF BankRows
  <2> HIDE DEF r
  <2>3. bank'[x] = r /\ \A b \in Accounts \ {x} : bank'[b] = bank[b]
    BY <1>1, <2>1
  <2>4. There' = There
    BY <1>2, <1>4, <2>2, <2>3 DEF There
  <2>5. Defaults' = Defaults \cup {x}
    BY <1>4, <2>2, <2>3, <2>4 DEF Defaults
  <2> QED
    BY <1>1, <1>4, <2>1, <2>2, <2>3, <2>4, <2>5
<1>5. ASSUME bank' = [b \in Accounts |-> [bank[b] EXCEPT !.default = b = x]], x \in There
      PROVE  /\ bank' \in [Accounts -> BankRows] /\ There' = There /\ Defaults' = {x}
             /\ \A b \in Accounts \ There' : bank'[b] = NoBank
  <2>1. ASSUME NEW b \in Accounts
        PROVE  /\ bank'[b] \in BankRows /\ bank'[b].there = bank[b].there
               /\ bank'[b].default <=> b = x
               /\ b \notin There => bank'[b] = NoBank
    <3> DEFINE t == b = x
    <3>1. t \in BOOLEAN /\ bank'[b] = [bank[b] EXCEPT !.default = t] /\ bank[b] \in BankRows
      BY <1>1, <1>5
    <3> HIDE DEF t
    <3>2. /\ bank'[b] \in BankRows /\ bank'[b].there = bank[b].there /\ bank'[b].default = t
      BY <3>1 DEF BankRows
    <3>3. b \notin There => ~bank'[b].there /\ ~bank'[b].default
      BY <1>1, <1>5, <3>2, BankRowIs DEF t
    <3>4. \A r \in BankRows : ~r.there /\ ~r.default => r = NoBank
      BY DEF NoBank, BankRows
    <3> QED
      BY <3>2, <3>3, <3>4 DEF t
  <2>2. There' = There
    BY <2>1 DEF There
  <2>3. Defaults' = {x}
    BY <1>2, <1>5, <2>1, <2>2 DEF Defaults
  <2>4. bank' \in [Accounts -> BankRows]
    BY <1>5, <2>1
  <2> QED
    BY <2>1, <2>2, <2>3, <2>4
<1>6. ASSUME bank' = [bank EXCEPT ![x] = NoBank]
      PROVE  /\ bank' \in [Accounts -> BankRows] /\ There' = There \ {x} /\ Defaults' = Defaults \ {x}
             /\ \A b \in Accounts \ There' : bank'[b] = NoBank
  <2>1. bank'[x] = NoBank /\ \A b \in Accounts \ {x} : bank'[b] = bank[b]
    BY <1>1, <1>6
  <2>2. There' = There \ {x}
    BY <2>1, BankRowIs DEF There
  <2>3. Defaults' = Defaults \ {x}
    BY <2>1, <2>2 DEF Defaults, There
  <2> QED
    BY <1>1, <1>6, <2>1, <2>2, <2>3, BankRowIs
<1> QED
  BY <1>3, <1>4, <1>5, <1>6
(* The invariant after a step, when it still has to say something.         *)
LEMMA BankKept ==
  ASSUME BankInv, request' \in [Requests -> BankRequests], bank' \in [Accounts -> BankRows],
         \A b \in Accounts \ There' : bank'[b] = NoBank,
         withdrawals' \in [Accounts -> {"none", "open", "closed"}], bankFaults' \in Nat,
         entangled' \in BOOLEAN,
         \A a \in Accounts : withdrawals'[a] # "none" => a \in There',
         \A q \in Pending' : request'[q].account \in Accounts,
         ~entangled' =>
           /\ \A p, q \in Pending' : p = q
           /\ \A q \in Pending' : PendingOK(q)'
           /\ Pending' = {} /\ There' # {} => \E b \in There' : Defaults' = {b}
  PROVE  BankInv'
BY DEF BankInv, BankTypeOK, BankRows, BankRequests

LEMMA BankFields ==
  ASSUME BankInv
  PROVE  /\ request \in [Requests -> BankRequests] /\ bank \in [Accounts -> BankRows]
         /\ \A b \in Accounts \ There : bank[b] = NoBank
         /\ withdrawals \in [Accounts -> {"none", "open", "closed"}] /\ bankFaults \in Nat
         /\ entangled \in BOOLEAN
         /\ \A a \in Accounts : withdrawals[a] # "none" => a \in There
         /\ \A q \in Pending : request[q].account \in Accounts
         /\ There \subseteq Accounts /\ Defaults \subseteq There /\ Pending \subseteq Requests
BY DEF BankInv, BankTypeOK, BankRows, BankRequests, There, Defaults, Pending

(* Request q begins.                                                       *)
LEMMA BankBegins ==
  ASSUME BankInv, NEW q \in Requests, NEW a \in Accounts,
         AddAccount(q, a) \/ FindAccount(q, a) \/ FindDoomed(q, a)
  PROVE  BankInv'
<1>1. UNCHANGED <<withdrawals, bankFaults>>
  BY DEF AddAccount, FindAccount, FindDoomed
<1>2. CASE AddAccount(q, a)
  <2>1. /\ bank' \in [Accounts -> BankRows] /\ There' = There \cup {a} /\ Defaults' = Defaults
        /\ a \notin There /\ \A b \in Accounts \ There' : bank'[b] = NoBank
    BY <1>2, BankWritten
  <2>2. /\ request' \in [Requests -> BankRequests] /\ entangled' \in BOOLEAN
        /\ Pending' = Pending \cup {q}
        /\ \A p \in Requests \ {q} : request'[p] = request[p]
        /\ request'[q].pc = "count" /\ request'[q].account = a
        /\ ~entangled' => ~entangled /\ Pending = {}
    BY <1>2, BankAsked DEF AddAccount
  <2>3. ASSUME ~entangled' PROVE \A p \in Pending' : PendingOK(p)'
    <3>1. Pending' = {q} /\ (There # {} => \E b \in There : Defaults = {b})
      BY <2>2, <2>3 DEF BankInv
    <3>2. There = {} => Defaults' = {} /\ There' = {a}
      BY <2>1, BankFields
    <3>3. There # {} => There' # {a} /\ \E b \in There' : Defaults' = {b}
      BY <2>1, <3>1
    <3> QED
      BY <2>1, <2>2, <3>1, <3>2, <3>3 DEF PendingOK
  <2>4. \A p \in Pending' : request'[p].account \in Accounts
    BY <2>2, BankFields
  <2>5. ~entangled' => (\A p, r \in Pending' : p = r) /\ Pending' # {}
    BY <2>2
  <2> QED
    BY <1>1, <2>1, <2>2, <2>3, <2>4, <2>5, BankFields, BankKept
<1>3. CASE FindAccount(q, a) \/ FindDoomed(q, a)
  <2>1. a \in There /\ bank' = bank /\ There' = There /\ Defaults' = Defaults
    BY <1>3 DEF FindAccount, FindDoomed, There, Defaults
  <2>2. /\ request' \in [Requests -> BankRequests] /\ entangled' \in BOOLEAN
        /\ Pending' = Pending \cup {q}
        /\ \A p \in Requests \ {q} : request'[p] = request[p]
        /\ request'[q].pc \in {"set default", "check"} /\ request'[q].account = a
        /\ request'[q].default = (a \in There /\ bank[a].default)
        /\ ~entangled' => ~entangled /\ Pending = {}
    BY <1>3, BankAsked DEF FindAccount, FindDoomed
  <2>3. ASSUME ~entangled' PROVE \A p \in Pending' : PendingOK(p)'
    <3>1. Pending' = {q} /\ \E b \in There : Defaults = {b}
      BY <2>1, <2>2, <2>3 DEF BankInv
    <3>2. bank[a].default \in BOOLEAN
      BY BankFields DEF BankRows
    <3>3. request'[q].default = bank'[a].default
      BY <2>1, <2>2, <3>2
    <3> QED
      BY <2>1, <2>2, <3>1, <3>3 DEF PendingOK
  <2>4. \A p \in Pending' : request'[p].account \in Accounts
    BY <2>2, BankFields
  <2>5. ~entangled' => (\A p, r \in Pending' : p = r) /\ Pending' # {}
    BY <2>2
  <2> QED
    BY <1>1, <2>1, <2>2, <2>3, <2>4, <2>5, BankFields, BankKept
<1> QED
  BY <1>2, <1>3

(* Request q goes on without writing.                                      *)
LEMMA BankLooks ==
  ASSUME BankInv, NEW q \in Requests, CountAccounts(q) \/ CheckPending(q)
  PROVE  BankInv'
<1>1. UNCHANGED <<bank, withdrawals, bankFaults, entangled>> /\ q \in Pending
  BY DEF CountAccounts, CheckPending, Pending
<1>2. There' = There /\ Defaults' = Defaults
  BY <1>1 DEF There, Defaults
<1>3. PICK pc \in {"default", "delete", "done"} :
        /\ request' = [request EXCEPT ![q].pc = pc]
        /\ pc = "default" => request[q].pc = "count" /\ Cardinality(There) = 1
        /\ pc = "delete" => request[q].pc = "check"
        /\ pc = "done" =>
             (request[q].pc = "count" /\ Cardinality(There) # 1) \/ request[q].pc = "check"
  BY DEF CountAccounts, CheckPending, IsFirst
<1>4. /\ request' \in [Requests -> BankRequests]
      /\ Pending' = IF pc = "done" THEN Pending \ {q} ELSE Pending
      /\ \A p \in Requests \ {q} : request'[p] = request[p]
      /\ request'[q].pc = pc /\ request'[q].account = request[q].account
      /\ request'[q].default = request[q].default
  BY <1>1, <1>3, BankGoesOn
<1>5. IsFiniteSet(There)
  BY BankFields, BankAssumption, FS_Subset DEF BankAssumption
<1>6. Cardinality(There) = 1 <=> \E b : There = {b}
  BY <1>5, FS_Singleton
<1>7. \A p \in Pending' : request'[p].account \in Accounts
  BY <1>4, BankFields
<1>8. ASSUME ~entangled
      PROVE  /\ \A p, r \in Pending' : p = r
             /\ \A p \in Pending' : PendingOK(p)'
             /\ Pending' = {} /\ There # {} => \E b \in There : Defaults = {b}
  <2>1. PendingOK(q) /\ Pending = {q}
    BY <1>1, <1>8 DEF BankInv
  <2>2. pc = "default" => PendingOK(q)'
    BY <1>1, <1>2, <1>3, <1>4, <1>6, <2>1 DEF PendingOK
  <2>3. ASSUME pc = "delete" PROVE PendingOK(q)'
    <3>1. /\ request[q].account \in There /\ \E b \in There : Defaults = {b}
          /\ request[q].default = bank[request[q].account].default
      BY <1>3, <2>1, <2>3 DEF PendingOK
    <3> QED
      BY <1>1, <1>2, <1>4, <2>3, <3>1 DEF PendingOK
  <2>4. pc = "done" /\ There # {} => \E b \in There : Defaults = {b}
    BY <1>3, <1>6, <2>1 DEF PendingOK
  <2> QED
    BY <1>4, <2>1, <2>2, <2>3, <2>4
<1> QED
  BY <1>1, <1>2, <1>4, <1>7, <1>8, BankFields, BankKept

(* Request q ends with a write, or without.                                *)
LEMMA BankEnds ==
  ASSUME BankInv, NEW q \in Requests, MakeFirstDefault(q) \/ SetDefault(q) \/ DeleteAccount(q)
  PROVE  BankInv'
<1> DEFINE a == request[q].account
<1>1. q \in Pending /\ a \in Accounts /\ UNCHANGED <<withdrawals, bankFaults>>
  BY BankFields DEF MakeFirstDefault, SetDefault, DeleteAccount, Pending
<1>2. request' = [request EXCEPT ![q].pc = "done"]
  BY DEF MakeFirstDefault, SetDefault, DeleteAccount, Answer
<1>3. /\ request' \in [Requests -> BankRequests] /\ Pending' = Pending \ {q}
      /\ \A p \in Requests \ {q} : request'[p] = request[p]
  BY <1>1, <1>2, BankGoesOn
<1>4. \A p \in Pending' : request'[p].account \in Accounts
  BY <1>3, BankFields
<1>5. ASSUME bank' \in [Accounts -> BankRows], \A b \in Accounts \ There' : bank'[b] = NoBank,
             \A b \in Accounts : withdrawals[b] # "none" => b \in There',
             entangled' \in BOOLEAN, ~entangled' => ~entangled \/ Pending = {q},
             ~entangled' /\ There' # {} => \E b \in There' : Defaults' = {b}
      PROVE  BankInv'
  <2>1. ~entangled' => Pending' = {}
    BY <1>1, <1>3, <1>5 DEF BankInv
  <2> QED
    BY <1>1, <1>3, <1>4, <1>5, <2>1, BankFields, BankKept
<1>6. ~entangled => PendingOK(q)
  BY <1>1 DEF BankInv
<1> HIDE DEF a
<1>7. CASE MakeFirstDefault(q)
  <2> entangled' = entangled
    BY <1>7 DEF MakeFirstDefault
  <2>1. request[q].pc = "default" /\ bank' = IF a \in There THEN [bank EXCEPT ![a].default = TRUE] ELSE bank
    BY <1>7 DEF MakeFirstDefault, a
  <2>2. CASE a \in There
    <3>1. /\ bank' \in [Accounts -> BankRows] /\ There' = There /\ Defaults' = Defaults \cup {a}
          /\ \A b \in Accounts \ There' : bank'[b] = NoBank
      BY <1>1, <2>1, <2>2, BankWritten
    <3>2. ~entangled => Defaults' = {a} /\ a \in There'
      BY <1>6, <2>1, <2>2, <3>1 DEF PendingOK, a
    <3> QED
      BY <1>5, <3>1, <3>2, BankFields
  <2>3. CASE a \notin There
    <3>1. bank' = bank /\ There' = There /\ Defaults' = Defaults
      BY <2>1, <2>3 DEF There, Defaults
    <3>2. entangled
      BY <1>1, <1>6, <2>3, BankFields DEF PendingOK, a
    <3> QED
      BY <1>5, <3>1, <3>2, BankFields
  <2> QED
    BY <2>2, <2>3
<1>8. CASE SetDefault(q)
  <2>1. /\ request[q].pc = "set default"
        /\ bank' = IF a \in There THEN [b \in Accounts |-> [bank[b] EXCEPT !.default = b = a]] ELSE bank
        /\ entangled' = (entangled /\ ~(a \in There /\ Pending = {q}))
    BY <1>8 DEF SetDefault, a
  <2>2. CASE a \in There
    <3>1. /\ bank' \in [Accounts -> BankRows] /\ There' = There /\ Defaults' = {a}
          /\ \A b \in Accounts \ There' : bank'[b] = NoBank
      BY <1>1, <2>1, <2>2, BankWritten
    <3>2. entangled' \in BOOLEAN /\ (~entangled' => ~entangled \/ Pending = {q})
      BY <2>1, BankFields
    <3> QED
      BY <1>5, <2>2, <3>1, <3>2, BankFields
  <2>3. CASE a \notin There
    <3>1. bank' = bank /\ There' = There /\ Defaults' = Defaults
      BY <2>1, <2>3 DEF There, Defaults
    <3>2. entangled
      BY <1>1, <1>6, <2>3, BankFields DEF PendingOK, a
    <3> QED
      BY <1>5, <2>1, <2>3, <3>1, <3>2, BankFields
  <2> QED
    BY <2>2, <2>3
<1>9. CASE DeleteAccount(q)
  <2> entangled' = entangled
    BY <1>9 DEF DeleteAccount
  <2> DEFINE rest == There \ {a}
  <2>1. /\ request[q].pc = "delete"
        /\ \/ bank' = bank
           \/ /\ a \in There /\ withdrawals[a] = "none" /\ request[q].default
              /\ \E b \in rest : bank' = [bank EXCEPT ![a] = NoBank, ![b].default = TRUE]
           \/ /\ a \in There /\ withdrawals[a] = "none" /\ (request[q].default => rest = {})
              /\ bank' = [bank EXCEPT ![a] = NoBank]
    BY <1>9 DEF DeleteAccount, a
  <2>2. ~entangled => \E b \in There : Defaults = {b}
    BY <1>6, <2>1 DEF PendingOK
  <2>3. ~entangled => (request[q].default <=> a \in Defaults) /\ a \in There
    BY <1>1, <1>6, <2>1, BankFields DEF PendingOK, a, Defaults, BankRows
  <2>4. CASE bank' = bank
    <3>1. There' = There /\ Defaults' = Defaults
      BY <2>4 DEF There, Defaults
    <3> QED
      BY <1>5, <2>2, <2>4, <3>1, BankFields
  <2>5. CASE /\ a \in There /\ withdrawals[a] = "none" /\ request[q].default
             /\ \E b \in rest : bank' = [bank EXCEPT ![a] = NoBank, ![b].default = TRUE]
    <3>1. PICK b \in rest : bank' = [bank EXCEPT ![a] = NoBank, ![b].default = TRUE]
      BY <2>5
    <3> DEFINE r == [bank[b] EXCEPT !.default = TRUE]
    <3>2. b \in There /\ b # a /\ r \in BankRows /\ r.there /\ r.default
      BY <3>1, BankFields DEF BankRows, There
    <3>3. bank'[a] = NoBank /\ bank'[b] = r /\ \A c \in Accounts \ {a, b} : bank'[c] = bank[c]
      BY <1>1, <3>1, <3>2, BankFields
    <3>4. bank' \in [Accounts -> BankRows]
      <4>1. DOMAIN bank' = Accounts /\ bank' = [c \in Accounts |-> bank'[c]]
        BY <3>1, BankFields
      <4> QED
        BY <3>2, <3>3, <4>1, BankFields, BankRowIs
    <3> HIDE DEF r
    <3>5. There' = There \ {a}
      BY <1>1, <3>2, <3>3, BankRowIs, BankFields DEF There
    <3>6. Defaults' = (Defaults \ {a}) \cup {b}
      BY <3>2, <3>3, <3>5, BankFields DEF Defaults
    <3>7. ~entangled => Defaults' = {b}
      BY <2>2, <2>3, <2>5, <3>6
    <3>8. \A c \in Accounts \ There' : bank'[c] = NoBank
      BY <3>2, <3>3, <3>5, BankFields
    <3> QED
      BY <1>5, <2>5, <3>2, <3>4, <3>5, <3>7, <3>8, BankFields
  <2>6. CASE /\ a \in There /\ withdrawals[a] = "none" /\ (request[q].default => rest = {})
             /\ bank' = [bank EXCEPT ![a] = NoBank]
    <3>1. /\ bank' \in [Accounts -> BankRows] /\ There' = There \ {a} /\ Defaults' = Defaults \ {a}
          /\ \A b \in Accounts \ There' : bank'[b] = NoBank
      BY <1>1, <2>6, BankWritten
    <3>2. ~entangled /\ There' # {} => \E b \in There' : Defaults' = {b}
      BY <2>2, <2>3, <2>6, <3>1
    <3> QED
      BY <1>5, <2>6, <3>1, <3>2, BankFields
  <2> QED
    BY <2>1, <2>4, <2>5, <2>6
<1> QED
  BY <1>7, <1>8, <1>9

LEMMA BankStep == BankInv /\ [BankNext]_bankVars => BankInv'
<1> SUFFICES ASSUME BankInv, [BankNext]_bankVars PROVE BankInv'  OBVIOUS
<1>1. ASSUME NEW a \in Accounts, Withdraw(a) PROVE BankInv'
  <2>1. /\ a \in There /\ UNCHANGED <<bank, request, bankFaults, entangled>>
        /\ withdrawals' = [withdrawals EXCEPT ![a] = "open"] \/ withdrawals' = [withdrawals EXCEPT ![a] = "closed"]
    BY <1>1 DEF Withdraw
  <2>2. There' = There /\ Defaults' = Defaults /\ Pending' = Pending /\ \A q \in Pending : PendingOK(q)' = PendingOK(q)
    BY <2>1 DEF There, Defaults, Pending, PendingOK
  <2>3. /\ withdrawals' \in [Accounts -> {"none", "open", "closed"}]
        /\ \A b \in Accounts : withdrawals'[b] # "none" => b \in There
    BY <2>1, BankFields
  <2>4. ~entangled =>
          /\ \A p, q \in Pending : p = q
          /\ \A q \in Pending : PendingOK(q)
          /\ Pending = {} /\ There # {} => \E b \in There : Defaults = {b}
    BY DEF BankInv
  <2> QED
    BY <2>1, <2>2, <2>3, <2>4, BankFields, BankKept
<1>2. ASSUME NEW q \in Requests, RequestFails(q) PROVE BankInv'
  <2>1. /\ q \in Pending /\ UNCHANGED <<bank, withdrawals>> /\ bankFaults' = bankFaults + 1
        /\ request' = [request EXCEPT ![q].pc = "done"]
        /\ entangled' = (entangled \/ request[q].pc \in {"count", "default"})
    BY <1>2 DEF RequestFails, Answer
  <2>2. request' \in [Requests -> BankRequests] /\ Pending' = Pending \ {q}
        /\ \A p \in Requests \ {q} : request'[p] = request[p]
    BY <2>1, BankGoesOn
  <2>3. There' = There /\ Defaults' = Defaults
    BY <2>1 DEF There, Defaults
  <2>4. \A p \in Pending' : request'[p].account \in Accounts
    BY <2>2, BankFields
  <2>5. ASSUME ~entangled' PROVE Pending' = {} /\ \E b \in There : Defaults = {b}
    <3>1. ~entangled /\ request[q].pc \in {"set default", "check", "delete"}
      BY <2>1, <2>5, BankFields DEF BankRequests, Pending
    <3> QED
      BY <2>1, <2>2, <3>1 DEF BankInv, PendingOK
  <2> QED
    BY <2>1, <2>2, <2>3, <2>4, <2>5, BankFields, BankKept
<1>3. ASSUME UNCHANGED bankVars PROVE BankInv'
  <2>1. UNCHANGED <<bank, withdrawals, request, bankFaults, entangled>>
    BY <1>3 DEF bankVars
  <2>2. There' = There /\ Defaults' = Defaults /\ Pending' = Pending
    BY <2>1 DEF There, Defaults, Pending
  <2>3. \A q \in Pending : PendingOK(q)' = PendingOK(q)
    BY <2>1, <2>2 DEF PendingOK
  <2>4. ~entangled =>
          /\ \A p, q \in Pending : p = q
          /\ \A q \in Pending : PendingOK(q)
          /\ Pending = {} /\ There # {} => \E b \in There : Defaults = {b}
    BY DEF BankInv
  <2> QED
    BY <2>1, <2>2, <2>3, <2>4, BankFields, BankKept
<1> QED
  BY <1>1, <1>2, <1>3, BankBegins, BankLooks, BankEnds, Zenon DEF BankNext

\* A user with bank accounts has exactly one default between requests, unless two
\* overlapped or an account was added by half, and after that from the next request on
\* that sets the default alone (payment.service.ts: addBankInformation,
\* setDefaultBankAccount, deleteBankAccount).
THEOREM OneDefaultAlways == BankSpec => []OneDefault
<1>1. BankInv => OneDefault
  <2> SUFFICES ASSUME BankInv, ~entangled, Pending = {}, There # {} PROVE Cardinality(Defaults) = 1
    BY DEF OneDefault
  <2>1. PICK b \in There : Defaults = {b}
    BY DEF BankInv
  <2> QED
    BY <2>1, FS_Singleton
<1> QED
  BY <1>1, BankInitially, BankStep, PTL DEF BankSpec

(***************************************************************************)
(* Course progress. A request that has seen all rows commits their sum,    *)
(* unless another has changed one meanwhile; a request to start a lesson   *)
(* finds it completed only if it was completed after the request looked.   *)
(***************************************************************************)
VisitRows == [pc : {"none", "enrol", "drop", "dropping", "write", "compute", "commit", "done"},
              op : {"none", "enrol", "drop", "drop, preserveHistory", "start", "complete"},
              lesson : Lessons \cup {NoLesson}, points : Nat, all : BOOLEAN,
              deleted : SUBSET Lessons]
CourseRows == [status : {"none", "ENROLLED", "IN_PROGRESS", "COMPLETED", "DROPPED"}, points : Nat]
LessonStates == {"none", "NOT_STARTED", "IN_PROGRESS", "COMPLETED"}

\* A request to a lesson is one to start or to complete it.
LessonOK(v) ==
  visit[v].pc \in {"write", "compute", "commit"} =>
    visit[v].op \in {"start", "complete"} /\ visit[v].lesson \in Lessons

\* What request v has seen of the rows is still so, if no other has changed one.
SumOK(v) ==
  v \notin behind =>
    /\ visit[v].pc = "commit" =>
         visit[v].points = Points(View(v)) /\ (visit[v].all <=> AllDone(View(v)))
    /\ visit[v].pc = "dropping" =>
         \A l \in Lessons \ visit[v].deleted : progress[l] = "none"

\* A request to start a lesson that is completed has missed that.
LookOK(v) ==
  visit[v].pc \in {"write", "compute", "commit"} /\ visit[v].op = "start"
  /\ progress[visit[v].lesson] = "COMPLETED" => v \in missed

WritesAlone == \A l \in Lessons : \A v, w \in Writing(l) : v = w

Agrees ==
  /\ enrolment.points = Points(progress)
  /\ enrolment.status = "COMPLETED" => AllDone(progress)
  /\ AllDone(progress) => enrolment.status \in {"COMPLETED", "DROPPED"}

CourseTypes ==
  /\ enrolment \in CourseRows /\ progress \in [Lessons -> LessonStates]
  /\ visit \in [Visits -> VisitRows] /\ visitFaults \in Nat
  /\ behind \subseteq Visits /\ blind \in BOOLEAN /\ missed \subseteq Visits
  /\ \A v \in Visits : LessonOK(v)

CourseInv ==
  /\ CourseTypes /\ WritesAlone
  /\ enrolment.status = "none" => \A l \in Lessons : progress[l] = "none"
  /\ \A v \in Visits : SumOK(v) /\ LookOK(v)
  /\ ~blind => Agrees

LEMMA PointsNat == \A view : Points(view) \in Nat
<1> SUFFICES ASSUME NEW view PROVE Points(view) \in Nat  OBVIOUS
<1> DEFINE S == {l \in Lessons : view[l] = "COMPLETED"}  T == {l \in Lessons : view[l] = "IN_PROGRESS"}
<1>1. IsFiniteSet(S) /\ IsFiniteSet(T)
  BY CourseAssumption, FS_Subset DEF CourseAssumption
<1>2. Cardinality(S) \in Nat /\ Cardinality(T) \in Nat
  BY <1>1, FS_CardinalityType
<1> QED
  BY <1>2 DEF Points

LEMMA NothingDone ==
  ASSUME NEW view, \A l \in Lessons : view[l] \in {"none", "NOT_STARTED"}
  PROVE  Points(view) = 0 /\ ~AllDone(view)
<1> DEFINE S == {l \in Lessons : view[l] = "COMPLETED"}  T == {l \in Lessons : view[l] = "IN_PROGRESS"}
<1>1. S = {} /\ T = {}
  OBVIOUS
<1>2. Points(view) = 2 * Cardinality({}) + Cardinality({})
  BY <1>1 DEF Points
<1> QED
  BY <1>2, FS_EmptySet, CourseAssumption DEF CourseAssumption, AllDone

LEMMA CourseInitially == CourseInit => CourseInv
<1> SUFFICES ASSUME CourseInit PROVE CourseInv  OBVIOUS
<1>1. NoVisit \in VisitRows /\ NoVisit.pc = "none"
  BY DEF NoVisit, VisitRows
<1>2. \A v \in Visits : visit[v] = NoVisit
  BY DEF CourseInit
<1>3. enrolment \in CourseRows /\ enrolment.status = "none" /\ enrolment.points = 0
  BY DEF CourseInit, CourseRows
<1>4. progress \in [Lessons -> LessonStates] /\ \A l \in Lessons : progress[l] = "none"
  BY DEF CourseInit, LessonStates
<1>5. CourseTypes
  BY <1>1, <1>2, <1>3, <1>4 DEF CourseInit, CourseTypes, LessonOK
<1>6. WritesAlone /\ \A v \in Visits : SumOK(v) /\ LookOK(v)
  BY <1>1, <1>2 DEF WritesAlone, Writing, SumOK, LookOK
<1>7. Agrees
  BY <1>3, <1>4, NothingDone DEF Agrees
<1> QED
  BY <1>3, <1>4, <1>5, <1>6, <1>7 DEF CourseInv

(* A request goes on, and the others stay where they are.                  *)
LEMMA VisitMoves ==
  ASSUME CourseInv, NEW v \in Visits, NEW r \in VisitRows, visit' = [visit EXCEPT ![v] = r]
  PROVE  /\ visit' \in [Visits -> VisitRows] /\ visit'[v] = r
         /\ \A w \in Visits \ {v} : visit'[w] = visit[w]
BY DEF CourseInv, CourseTypes

(* Request v goes on, and nothing else happens.                            *)
LEMMA VisitOnly ==
  ASSUME CourseInv, NEW v \in Visits, NEW r \in VisitRows, visit' = [visit EXCEPT ![v] = r],
         UNCHANGED <<enrolment, progress, visitFaults, courseHistory>>,
         r.pc \in {"write", "compute", "commit"} =>
           /\ r.lesson \in Lessons /\ r.op \in {"start", "complete"}
           /\ r.op = "start" /\ progress[r.lesson] = "COMPLETED" => v \in missed,
         r.pc \in {"compute", "commit"} => Writing(r.lesson) \subseteq {v},
         r.pc = "dropping" => \A l \in r.deleted : Writing(l) = {},
         SumOK(v)'
  PROVE  CourseInv'
<1>1. /\ visit' \in [Visits -> VisitRows] /\ visit'[v] = r
      /\ \A w \in Visits \ {v} : visit'[w] = visit[w]
  BY VisitMoves
<1>2. UNCHANGED <<enrolment, progress, visitFaults, behind, blind, missed>>
  BY DEF courseHistory
<1>3. CourseTypes'
  BY <1>1, <1>2 DEF CourseInv, CourseTypes, LessonOK
<1>4. WritesAlone'
  <2> SUFFICES ASSUME NEW l \in Lessons, NEW w \in Writing(l)', NEW x \in Writing(l)' PROVE w = x
    BY DEF WritesAlone
  <2>1. \A y \in Writing(l)' : y # v => y \in Writing(l)
    BY <1>1 DEF Writing
  <2>2. v \in Writing(l)' => Writing(l) \subseteq {v}
    BY <1>1 DEF Writing
  <2> QED
    BY <2>1, <2>2 DEF CourseInv, WritesAlone
<1>5. ASSUME NEW w \in Visits PROVE SumOK(w)' /\ LookOK(w)'
  <2>1. CASE w = v
    BY <1>1, <1>2, <2>1 DEF LookOK
  <2>2. CASE w # v
    <3>1. visit'[w] = visit[w] /\ SumOK(w) /\ LookOK(w)
      BY <1>1, <2>2 DEF CourseInv
    <3>2. View(w)' = View(w)
      BY <1>2, <3>1 DEF View, Written
    <3> QED
      BY <1>2, <3>1, <3>2 DEF SumOK, LookOK
  <2> QED
    BY <2>1, <2>2
<1>6. ~blind' => Agrees'
  BY <1>2 DEF CourseInv, Agrees
<1> QED
  BY <1>2, <1>3, <1>4, <1>5, <1>6 DEF CourseInv

(* Request v begins.                                                       *)
LEMMA CourseBegins ==
  ASSUME CourseInv, NEW v \in Visits,
         NEW op \in {"enrol", "drop", "drop, preserveHistory", "start", "complete"},
         NEW pc \in {"enrol", "drop", "write"}, NEW l \in Lessons \cup {NoLesson},
         Visit(v, op, l, pc),
         pc = "write" => /\ l \in Lessons /\ op \in {"start", "complete"}
                         /\ op = "start" => progress[l] # "COMPLETED"
  PROVE  CourseInv'
<1> DEFINE r == [visit[v] EXCEPT !.pc = pc, !.op = op, !.lesson = l]
<1>1. visit[v] \in VisitRows
  BY DEF CourseInv, CourseTypes
<1>2. r \in VisitRows /\ r.pc = pc /\ r.op = op /\ r.lesson = l
  BY <1>1 DEF VisitRows
<1>3. visit' = [visit EXCEPT ![v] = r] /\ UNCHANGED <<enrolment, progress, visitFaults, courseHistory>>
  BY DEF Visit, CourseInv, CourseTypes
<1> HIDE DEF r
<1>4. SumOK(v)'
  BY <1>2, <1>3, VisitMoves DEF SumOK
<1> QED
  BY <1>2, <1>3, <1>4, VisitOnly

(* A statement of request v before the commit.                             *)
LEMMA CourseGoesOn ==
  ASSUME CourseInv, NEW v \in Visits, WriteLesson(v) \/ ComputeProgress(v) \/ DeleteProgress(v)
  PROVE  CourseInv'
<1>1. /\ UNCHANGED <<enrolment, progress, visitFaults, courseHistory>>
      /\ visit[v] \in VisitRows /\ LessonOK(v) /\ LookOK(v)
  BY DEF WriteLesson, ComputeProgress, DeleteProgress, CourseInv, CourseTypes
<1>2. CASE WriteLesson(v)
  <2> DEFINE pc == IF visit[v].op = "complete" /\ progress[visit[v].lesson] = "none" THEN "done" ELSE "compute"
             r == [visit[v] EXCEPT !.pc = pc]
  <2>1. /\ visit[v].pc = "write" /\ Writing(visit[v].lesson) = {} /\ visit' = [visit EXCEPT ![v] = r]
        /\ pc \in {"done", "compute"}
    BY <1>2 DEF WriteLesson
  <2> HIDE DEF pc
  <2>2. r \in VisitRows /\ r.pc = pc /\ r.op = visit[v].op /\ r.lesson = visit[v].lesson
    BY <1>1, <2>1 DEF VisitRows
  <2> HIDE DEF r
  <2>3. SumOK(v)'
    BY <2>1, <2>2, VisitMoves DEF SumOK
  <2> QED
    BY <1>1, <2>1, <2>2, <2>3, VisitOnly DEF LessonOK, LookOK
<1>3. CASE ComputeProgress(v)
  <2> DEFINE n == Points(View(v))  all == AllDone(View(v))
             r == [visit[v] EXCEPT !.pc = "commit", !.points = n, !.all = all]
  <2>1. visit[v].pc = "compute" /\ visit' = [visit EXCEPT ![v] = r]
    BY <1>3 DEF ComputeProgress
  <2>2. n \in Nat /\ all \in BOOLEAN
    BY PointsNat DEF AllDone
  <2> HIDE DEF n, all
  <2>3. /\ r \in VisitRows /\ r.pc = "commit" /\ r.op = visit[v].op /\ r.lesson = visit[v].lesson
        /\ r.points = n /\ r.all = all
    BY <1>1, <2>2 DEF VisitRows
  <2> HIDE DEF r
  <2>4. visit'[v] = r
    BY <2>1, <2>3, VisitMoves
  <2>5. View(v)' = View(v)
    BY <1>1, <2>3, <2>4 DEF View, Written
  <2>6. SumOK(v)'
    <3>1. Points(View(v)') = n /\ (AllDone(View(v)') <=> all)
      BY <2>5 DEF n, all
    <3>2. Points(View(v))' = n /\ (AllDone(View(v))' <=> all)
      BY <3>1 DEF Points, AllDone
    <3> QED
      BY <2>3, <2>4, <3>2 DEF SumOK
  <2>7. Writing(visit[v].lesson) \subseteq {v}
    BY <1>1, <2>1 DEF CourseInv, WritesAlone, Writing, LessonOK
  <2> QED
    BY <1>1, <2>1, <2>3, <2>6, <2>7, VisitOnly DEF LessonOK, LookOK
<1>4. CASE DeleteProgress(v)
  <2> DEFINE there == {l \in Lessons : progress[l] # "none"}
             r == [visit[v] EXCEPT !.pc = "dropping", !.deleted = there]
  <2>1. /\ visit' = [visit EXCEPT ![v] = r] /\ there \in SUBSET Lessons
        /\ \A l \in there : Writing(l) = {}
    BY <1>4 DEF DeleteProgress
  <2>2. \A l \in Lessons \ there : progress[l] = "none"
    OBVIOUS
  <2> HIDE DEF there
  <2>3. r \in VisitRows /\ r.pc = "dropping" /\ r.deleted = there
    BY <1>1, <2>1 DEF VisitRows
  <2> HIDE DEF r
  <2>4. SumOK(v)'
    BY <1>1, <2>1, <2>2, <2>3, VisitMoves DEF SumOK
  <2> QED
    BY <1>1, <2>1, <2>3, <2>4, VisitOnly
<1> QED
  BY <1>2, <1>3, <1>4

(* Request v ends, having committed the rows or none.                      *)
LEMMA CourseEnds ==
  ASSUME CourseInv, NEW v \in Visits, Leave(v), enrolment' \in CourseRows, visitFaults' \in Nat,
         progress' \in [Lessons -> LessonStates],
         behind \subseteq behind', behind' \subseteq Visits,
         progress' # progress => \A w \in Summed \ {v} : w \in behind',
         missed \subseteq missed', missed' \subseteq Visits,
         \A w \in Underway \ {v} :
           visit[w].op = "start" /\ visit[w].lesson \in Lessons
           /\ progress'[visit[w].lesson] = "COMPLETED" =>
             w \in missed' \/ progress[visit[w].lesson] = "COMPLETED",
         enrolment'.status = "none" => \A l \in Lessons : progress'[l] = "none",
         blind' \in BOOLEAN, ~blind' => Agrees'
  PROVE  CourseInv'
<1> DEFINE r == [visit[v] EXCEPT !.pc = "done"]
<1>1. visit[v] \in VisitRows
  BY DEF CourseInv, CourseTypes
<1>2. r \in VisitRows /\ r.pc = "done"
  BY <1>1 DEF VisitRows
<1>3. visit' = [visit EXCEPT ![v] = r]
  BY DEF Leave
<1> HIDE DEF r
<1>4. /\ visit' \in [Visits -> VisitRows] /\ visit'[v] = r
      /\ \A w \in Visits \ {v} : visit'[w] = visit[w]
  BY <1>2, <1>3, VisitMoves
<1>5. CourseTypes'
  BY <1>2, <1>4 DEF CourseInv, CourseTypes, LessonOK
<1>6. WritesAlone'
  BY <1>2, <1>4 DEF CourseInv, WritesAlone, Writing
<1>7. ASSUME NEW w \in Visits PROVE SumOK(w)' /\ LookOK(w)'
  <2>1. CASE w = v
    BY <1>2, <1>4, <2>1 DEF SumOK, LookOK
  <2>2. CASE w # v
    <3>1. visit'[w] = visit[w] /\ SumOK(w) /\ LookOK(w) /\ LessonOK(w)
      BY <1>4, <2>2 DEF CourseInv, CourseTypes
    <3>2. SumOK(w)'
      <4>1. CASE progress' = progress
        <5>1. View(w)' = View(w)
          BY <3>1, <4>1 DEF View, Written
        <5> QED
          BY <3>1, <4>1, <5>1 DEF SumOK
      <4>2. CASE progress' # progress
        BY <2>2, <3>1, <4>2 DEF SumOK, Summed
      <4> QED
        BY <4>1, <4>2
    <3>3. LookOK(w)'
      BY <2>2, <3>1 DEF LookOK, LessonOK, Underway
    <3> QED
      BY <3>2, <3>3
  <2> QED
    BY <2>1, <2>2
<1> QED
  BY <1>5, <1>6, <1>7 DEF CourseInv

(* What CommitRows does to the histories.                                  *)
LEMMA RowsCommitted ==
  ASSUME CourseInv, NEW v \in Visits, NEW view, CommitRows(v, view)
  PROVE  /\ progress' = view /\ behind \subseteq behind' /\ behind' \subseteq Visits
         /\ progress' # progress => \A w \in Summed \ {v} : w \in behind'
         /\ blind' \in BOOLEAN /\ (~blind' => v \notin behind)
<1>1. /\ progress' = view /\ blind' = (v \in behind)
      /\ behind' = IF view = progress THEN behind ELSE behind \cup (Summed \ {v})
  BY DEF CommitRows
<1>2. behind \subseteq Visits /\ Summed \subseteq Visits
  BY DEF Summed, CourseInv, CourseTypes
<1>3. behind \subseteq behind' /\ behind' \subseteq Visits
  BY <1>1, <1>2
<1>4. progress' # progress => \A w \in Summed \ {v} : w \in behind'
  BY <1>1
<1>5. blind' \in BOOLEAN /\ (~blind' => v \notin behind)
  <2>1. blind' = (v \in behind)
    BY DEF CommitRows
  <2>2. CASE v \in behind
    BY <2>1, <2>2
  <2>3. CASE v \notin behind
    BY <2>1, <2>3
  <2> QED
    BY <2>2, <2>3
<1> QED
  BY <1>1, <1>3, <1>4, <1>5

LEMMA CourseCommits ==
  ASSUME CourseInv, NEW v \in Visits, CommitProgress(v)
  PROVE  CourseInv'
<1> DEFINE l == visit[v].lesson
<1>1. /\ visit[v].pc = "commit" /\ CommitRows(v, View(v)) /\ Leave(v) /\ UNCHANGED visitFaults
      /\ visitFaults \in Nat /\ missed \subseteq Visits /\ progress \in [Lessons -> LessonStates]
  BY DEF CommitProgress, CourseInv, CourseTypes
<1>2. visit[v] \in VisitRows /\ visit[v].op \in {"start", "complete"} /\ l \in Lessons
  BY <1>1 DEF CourseInv, CourseTypes, LessonOK
<1>3. /\ progress' = View(v) /\ progress' \in [Lessons -> LessonStates]
      /\ progress'[l] = Written(v) /\ \A k \in Lessons \ {l} : progress'[k] = progress[k]
  <2>1. progress' = View(v)
    BY <1>1, RowsCommitted
  <2> QED
    BY <1>1, <1>2, <2>1 DEF View, Written, LessonStates
<1> DEFINE n == visit[v].points
           s == IF visit[v].op = "complete" /\ visit[v].all THEN "COMPLETED" ELSE "IN_PROGRESS"
<1>4. enrolment' = [points |-> n, status |-> s] /\ n \in Nat /\ s \in {"COMPLETED", "IN_PROGRESS"}
  BY <1>2 DEF CommitProgress, VisitRows
<1>5. s = "COMPLETED" <=> visit[v].op = "complete" /\ visit[v].all
  OBVIOUS
<1> HIDE DEF n, s
<1>6. enrolment' \in CourseRows /\ enrolment'.points = n /\ enrolment'.status = s
  BY <1>4 DEF CourseRows
<1>7. ASSUME ~blind' PROVE Agrees'
  <2>1. n = Points(View(v)) /\ (visit[v].all <=> AllDone(View(v)))
    BY <1>1, <1>7, RowsCommitted DEF CourseInv, SumOK, n
  <2>2. AllDone(View(v)) => visit[v].op = "complete"
    BY <1>2, <1>3 DEF AllDone, Written
  <2>3. Points(progress') = n /\ (AllDone(progress') <=> s = "COMPLETED")
    BY <1>3, <1>5, <2>1, <2>2
  <2> QED
    BY <1>6, <2>3 DEF Agrees, Points, AllDone
<1>8. missed' = IF visit[v].op = "complete" THEN missed \cup Starting(l) ELSE missed
  BY DEF CommitProgress
<1>9. missed \subseteq missed' /\ missed' \subseteq Visits
  BY <1>1, <1>8 DEF Starting, Underway
<1>10. \A w \in Underway \ {v} :
         visit[w].op = "start" /\ visit[w].lesson \in Lessons
         /\ progress'[visit[w].lesson] = "COMPLETED" =>
           w \in missed' \/ progress[visit[w].lesson] = "COMPLETED"
  BY <1>2, <1>3, <1>8 DEF Starting, Written
<1> QED
  BY <1>1, <1>3, <1>4, <1>6, <1>7, <1>9, <1>10, RowsCommitted, CourseEnds

LEMMA CourseEnrols ==
  ASSUME CourseInv, NEW v \in Visits, EnrollInCourse(v)
  PROVE  CourseInv'
<1>1. /\ Leave(v) /\ UNCHANGED <<visitFaults, missed>>
      /\ enrolment \in CourseRows /\ progress \in [Lessons -> LessonStates] /\ visitFaults \in Nat
      /\ missed \subseteq Visits /\ behind \subseteq Visits /\ blind \in BOOLEAN
  BY DEF EnrollInCourse, CourseInv, CourseTypes
<1>2. CASE enrolment.status = "none"
  <2>1. /\ enrolment' = [status |-> "ENROLLED", points |-> 0]
        /\ CommitRows(v, [l \in Lessons |-> "NOT_STARTED"])
    BY <1>2 DEF EnrollInCourse
  <2>2. enrolment' \in CourseRows /\ enrolment'.status = "ENROLLED" /\ enrolment'.points = 0
    BY <2>1 DEF CourseRows
  <2>3. progress' \in [Lessons -> LessonStates] /\ \A l \in Lessons : progress'[l] = "NOT_STARTED"
    BY <2>1, RowsCommitted DEF LessonStates
  <2>4. Points(progress') = 0 /\ ~AllDone(progress')
    BY <2>3, NothingDone
  <2>5. Agrees'
    BY <2>2, <2>4 DEF Agrees, Points, AllDone
  <2> QED
    BY <1>1, <2>1, <2>2, <2>3, <2>5, RowsCommitted, CourseEnds
<1>3. CASE enrolment.status # "none"
  <2>1. UNCHANGED <<enrolment, progress, behind, blind>>
    BY <1>3 DEF EnrollInCourse
  <2>2. Agrees' = Agrees
    BY <2>1 DEF Agrees
  <2> QED
    BY <1>1, <2>1, <2>2, CourseEnds DEF CourseInv
<1> QED
  BY <1>2, <1>3

LEMMA CourseDropped ==
  ASSUME CourseInv, NEW v \in Visits, DropEnrollment(v)
  PROVE  CourseInv'
<1>1. /\ Leave(v) /\ UNCHANGED <<visitFaults, missed>>
      /\ enrolment \in CourseRows /\ progress \in [Lessons -> LessonStates] /\ visitFaults \in Nat
      /\ missed \subseteq Visits /\ behind \subseteq Visits /\ blind \in BOOLEAN
  BY DEF DropEnrollment, CourseInv, CourseTypes
<1>2. CASE visit[v].pc = "dropping"
  <2>1. /\ enrolment' = [status |-> "DROPPED", points |-> 0]
        /\ CommitRows(v, [l \in Lessons |-> IF l \in visit[v].deleted THEN "none" ELSE progress[l]])
    BY <1>2 DEF DropEnrollment
  <2>2. enrolment' \in CourseRows /\ enrolment'.status = "DROPPED" /\ enrolment'.points = 0
    BY <2>1 DEF CourseRows
  <2>3. /\ progress' \in [Lessons -> LessonStates]
        /\ \A l \in Lessons : progress'[l] = IF l \in visit[v].deleted THEN "none" ELSE progress[l]
    BY <1>1, <2>1, RowsCommitted DEF LessonStates
  <2>4. ASSUME ~blind' PROVE Agrees'
    <3>1. v \notin behind
      BY <2>1, <2>4, RowsCommitted
    <3>2. \A l \in Lessons : progress'[l] = "none"
      BY <1>2, <2>3, <3>1 DEF CourseInv, SumOK
    <3>3. Points(progress') = 0 /\ ~AllDone(progress')
      BY <3>2, NothingDone
    <3> QED
      BY <2>2, <3>3 DEF Agrees, Points, AllDone
  <2> QED
    BY <1>1, <2>1, <2>2, <2>3, <2>4, RowsCommitted, CourseEnds
<1>3. CASE visit[v].pc # "dropping"
  <2>1. /\ enrolment' = [enrolment EXCEPT !.status = "DROPPED"]
        /\ UNCHANGED <<progress, behind, blind>>
    BY <1>3 DEF DropEnrollment
  <2>2. /\ enrolment' \in CourseRows /\ enrolment'.status = "DROPPED"
        /\ enrolment'.points = enrolment.points
    BY <1>1, <2>1 DEF CourseRows
  <2>3. Agrees => Agrees'
    BY <2>1, <2>2 DEF Agrees
  <2> QED
    BY <1>1, <2>1, <2>2, <2>3, CourseEnds DEF CourseInv
<1> QED
  BY <1>2, <1>3

LEMMA CourseStep == CourseInv /\ [CourseNext]_courseVars => CourseInv'
<1> SUFFICES ASSUME CourseInv, [CourseNext]_courseVars PROVE CourseInv'  OBVIOUS
<1>1. ASSUME NEW v \in Visits, FindCourse(v) \/ FindEnrollment(v) PROVE CourseInv'
  <2>1. \E op \in {"enrol", "drop", "drop, preserveHistory"}, pc \in {"enrol", "drop"} :
          Visit(v, op, NoLesson, pc)
    BY <1>1 DEF FindCourse, FindEnrollment
  <2> QED
    BY <2>1, CourseBegins
<1>2. ASSUME NEW v \in Visits, NEW l \in Lessons, FindLesson(v, l) \/ FindStarted(v, l)
      PROVE  CourseInv'
  <2>1. CASE FindLesson(v, l)
    BY <2>1, CourseBegins DEF FindLesson, MayStart
  <2>2. CASE FindStarted(v, l)
    BY <2>2, CourseBegins DEF FindStarted
  <2> QED
    BY <1>2, <2>1, <2>2
<1>3. ASSUME NEW v \in Visits, RollBack(v) PROVE CourseInv'
  <2>1. /\ Leave(v) /\ UNCHANGED <<enrolment, progress, behind, blind, missed>> /\ visitFaults' \in Nat
        /\ enrolment \in CourseRows /\ progress \in [Lessons -> LessonStates]
        /\ missed \subseteq Visits /\ behind \subseteq Visits /\ blind \in BOOLEAN
    BY <1>3 DEF RollBack, courseHistory, CourseInv, CourseTypes
  <2>2. Agrees' = Agrees
    BY <2>1 DEF Agrees
  <2> QED
    BY <2>1, <2>2, CourseEnds DEF CourseInv
<1>4. ASSUME UNCHANGED courseVars PROVE CourseInv'
  <2>1. UNCHANGED <<enrolment, progress, visit, visitFaults, behind, blind, missed>>
    BY <1>4 DEF courseVars, courseHistory
  <2>2. Agrees' = Agrees /\ WritesAlone' = WritesAlone
    BY <2>1 DEF Agrees, WritesAlone, Writing
  <2>3. CourseTypes'
    BY <2>1 DEF CourseInv, CourseTypes, LessonOK
  <2>4. \A v \in Visits : SumOK(v)' = SumOK(v) /\ LookOK(v)' = LookOK(v)
    BY <2>1 DEF SumOK, LookOK, View, Written
  <2> QED
    BY <2>1, <2>2, <2>3, <2>4 DEF CourseInv
<1> QED
  BY <1>1, <1>2, <1>3, <1>4, CourseGoesOn, CourseCommits, CourseEnrols, CourseDropped, Zenon DEF CourseNext

\* A course's progress is the sum of its lessons', and it is COMPLETED if all of them
\* are and it was not dropped, unless the request that wrote it last had seen the rows
\* before another changed one (course.service.ts: startLesson, completeLesson,
\* dropCourseEnrollment).
THEOREM ProgressAgreesAlways == CourseSpec => []ProgressAgrees
<1>1. CourseInv => ProgressAgrees
  BY DEF CourseInv, Agrees, ProgressAgrees, Points, AllDone
<1> QED
  BY <1>1, CourseInitially, CourseStep, PTL DEF CourseSpec

\* A completed lesson is reopened by a drop only, or by a request to start it that
\* looked at it before it was completed (course.service.ts: startLesson).
THEOREM CompletedStaysAlways == CourseSpec => CompletedStays
<1> DEFINE Stays == \A l \in Lessons :
             progress[l] = "COMPLETED" /\ progress'[l] # "COMPLETED" =>
               \/ enrolment'.status = "DROPPED"
               \/ \E v \in missed : /\ visit[v].lesson = l
                                   /\ visit[v].pc = "commit" /\ visit'[v].pc = "done"
<1>1. CourseInv /\ CourseNext => Stays
  <2> SUFFICES ASSUME CourseInv, CourseNext, progress' # progress,
                      NEW l \in Lessons, progress[l] = "COMPLETED", progress'[l] # "COMPLETED"
               PROVE  \/ enrolment'.status = "DROPPED"
                      \/ \E v \in missed : /\ visit[v].lesson = l
                                          /\ visit[v].pc = "commit" /\ visit'[v].pc = "done"
    OBVIOUS
  <2>1. PICK v \in Visits : EnrollInCourse(v) \/ DropEnrollment(v) \/ CommitProgress(v)
    BY Zenon DEF CourseNext, FindCourse, FindEnrollment, FindLesson, FindStarted, Visit, WriteLesson,
                 ComputeProgress, DeleteProgress, RollBack
  <2>2. CASE EnrollInCourse(v)
    BY <2>2 DEF EnrollInCourse, CourseInv
  <2>3. CASE DropEnrollment(v)
    <3>1. enrolment' = [status |-> "DROPPED", points |-> 0]
      BY <2>3 DEF DropEnrollment
    <3> QED
      BY <3>1
  <2>4. CASE CommitProgress(v)
    <3>1. visit[v].pc = "commit" /\ progress' = View(v) /\ Leave(v)
      BY <2>4 DEF CommitProgress, CommitRows
    <3>2. /\ progress \in [Lessons -> LessonStates] /\ visit \in [Visits -> VisitRows]
          /\ visit[v].op \in {"start", "complete"}
      BY <3>1 DEF CourseInv, CourseTypes, LessonOK
    <3>3. visit[v].lesson = l /\ visit[v].op = "start"
      BY <3>1, <3>2 DEF View, Written
    <3>4. v \in missed
      BY <3>1, <3>3 DEF CourseInv, LookOK
    <3>5. visit'[v].pc = "done"
      BY <3>1, <3>2 DEF Leave, VisitRows
    <3> QED
      BY <3>1, <3>3, <3>4, <3>5
  <2> QED
    BY <2>1, <2>2, <2>3, <2>4
<1>2. UNCHANGED courseVars => [Stays]_courseVars
  OBVIOUS
<1>3. CourseInv /\ [CourseNext]_courseVars => [Stays]_courseVars
  BY <1>1, <1>2
<1> QED
  BY <1>3, CourseInitially, CourseStep, PTL DEF CourseSpec, CompletedStays

(***************************************************************************)
(* The media library. An open edit holds the keys it uploaded to, where    *)
(* its files still are unless the key was reused, and otherwise the keys   *)
(* of the row.                                                             *)
(***************************************************************************)
KeyPairs == [audio : Keys \cup {NoKey}, image : Keys \cup {NoKey}]
EntryRows == [there : BOOLEAN, audio : Keys \cup {NoKey}, image : Keys \cup {NoKey}]
Objects == [edit : Edits \cup {0}, media : Media \cup {"none"}]
EditRows == [pc : {"none", "audio", "image", "write", "done"}, of : Entries \cup {NoFile},
             audio : FileNames \cup {NoFile}, image : BOOLEAN, keys : KeyPairs]

Open(d) == edit[d].pc \notin {"none", "done"}
Put(d, m) ==
  IF m = "audio" THEN edit[d].audio # NoFile /\ edit[d].pc \in {"image", "write"}
  ELSE edit[d].image /\ edit[d].pc = "write"

EditOK(d, m) ==
  LET k == edit[d].keys[m]  e == edit[d].of IN
  /\ Put(d, m) =>
       k \in Keys /\ k[2] = m /\ (k \notin reused => storage[k] = [edit |-> d, media |-> m])
  /\ ~Put(d, m) =>
       (e \in Tracks \ stale => k = item[e][m]) /\ (e \in Resources => k = NoKey)

RowShows(e, m) ==
  LET k == item[e][m] IN
  /\ k = NoKey <=> latest[e][m] = 0
  /\ k # NoKey /\ k \notin reused => storage[k] = [edit |-> latest[e][m], media |-> m]

MediaInv ==
  /\ MediaTypeOK
  /\ \A e \in Entries, m \in Media :
       /\ ~item[e].there => item[e][m] = NoKey
       /\ latest[e][m] # 0 => edit[latest[e][m]].pc = "done"
  /\ \A e \in Entries \ stale, m \in Media : RowShows(e, m)
  /\ \A d \in Edits : Open(d) =>
       /\ edit[d].of \in Entries /\ (edit[d].of \in Resources => edit[d].audio # NoFile)
       /\ \A m \in Media : EditOK(d, m)

LEMMA MediaTypes ==
  MediaTypeOK <=>
    /\ item \in [Entries -> EntryRows] /\ storage \in [Keys -> Objects]
    /\ edit \in [Edits -> EditRows] /\ millis \in 1..MaxMillis /\ editFaults \in Nat
    /\ latest \in [Entries -> [audio : Edits \cup {0}, image : Edits \cup {0}]]
    /\ reused \subseteq Keys /\ stale \subseteq Tracks
BY DEF MediaTypeOK, EntryRows, Objects, EditRows, KeyPairs

LEMMA NoKeyIsNoKey == NoKey \notin Keys
BY DEF NoKey, Keys

LEMMA FieldOfMedia ==
  /\ \A r \in EntryRows, m \in Media : r[m] \in Keys \cup {NoKey}
  /\ \A r \in KeyPairs, m \in Media : r[m] \in Keys \cup {NoKey}
  /\ \A r \in [audio : Edits \cup {0}, image : Edits \cup {0}], m \in Media : r[m] \in Edits \cup {0}
BY DEF EntryRows, KeyPairs, Media

LEMMA ObjectIs ==
  ASSUME NEW o \in Objects, NEW c, NEW m, o = [edit |-> c, media |-> m]
  PROVE  o.edit = c /\ o.media = m
BY DEF Objects

LEMMA MediaInitially == MediaInit => MediaInv
<1> SUFFICES ASSUME MediaInit PROVE MediaInv  OBVIOUS
<1>1. NoEdit \in EditRows /\ NoEdit.pc = "none"
  BY DEF NoEdit, EditRows, KeyPairs
<1>2. /\ NoEntry \in EntryRows /\ ~NoEntry.there
      /\ \A m \in Media : NoEntry[m] = NoKey
  BY DEF NoEntry, EntryRows, Media
<1>3. Nobody \in Objects
  BY DEF Nobody, Objects
<1> DEFINE never == [audio |-> 0, image |-> 0]
<1>4. /\ never \in [audio : Edits \cup {0}, image : Edits \cup {0}]
      /\ \A m \in Media : never[m] = 0
  BY DEF Media
<1>5. latest = [e \in Entries |-> never]
  BY DEF MediaInit
<1> HIDE DEF never
<1>6. MediaTypeOK
  BY <1>1, <1>2, <1>3, <1>4, <1>5, MediaTypes, MediaAssumption DEF MediaInit, MediaAssumption
<1>7. \A d \in Edits : ~Open(d)
  BY <1>1 DEF MediaInit, Open
<1>8. \A e \in Entries : item[e] = NoEntry /\ latest[e] = never
  BY <1>5 DEF MediaInit
<1> QED
  BY <1>2, <1>4, <1>6, <1>7, <1>8 DEF MediaInv, RowShows

(* Edit d goes on, and its row is not written yet. An object it replaces   *)
(* was nobody's or its own, or the key is reused now.                      *)
LEMMA EditMoves ==
  ASSUME MediaInv, NEW d \in Edits, edit[d].pc # "done", NEW r \in EditRows, r.pc # "none",
         edit' = [edit EXCEPT ![d] = r], UNCHANGED <<item, latest, stale>>,
         storage' \in [Keys -> Objects], reused' \subseteq Keys, reused \subseteq reused',
         millis' \in 1..MaxMillis, editFaults' \in Nat,
         \A k \in Keys : storage'[k] = storage[k] \/ storage[k].edit \in {0, d} \/ k \in reused',
         r.pc # "done" =>
           /\ r.of \in Entries /\ (r.of \in Resources => r.audio # NoFile)
           /\ \A m \in Media : EditOK(d, m)'
  PROVE  MediaInv'
<1>1. /\ item \in [Entries -> EntryRows] /\ storage \in [Keys -> Objects]
      /\ edit \in [Edits -> EditRows]
      /\ latest \in [Entries -> [audio : Edits \cup {0}, image : Edits \cup {0}]]
      /\ reused \subseteq Keys /\ stale \subseteq Tracks
  BY MediaTypes DEF MediaInv
<1>2. edit' \in [Edits -> EditRows] /\ edit'[d] = r /\ \A c \in Edits \ {d} : edit'[c] = edit[c]
  BY <1>1
<1>3. MediaTypeOK'
  BY <1>1, <1>2, MediaTypes DEF MediaTypeOK, EntryRows, Objects, EditRows, KeyPairs
<1>4. ASSUME NEW e \in Entries, NEW m \in Media
      PROVE  /\ ~item'[e].there => item'[e][m] = NoKey
             /\ latest'[e][m] # 0 => edit'[latest'[e][m]].pc = "done"
  <2>1. latest[e][m] \in Edits \cup {0}
    BY <1>1, FieldOfMedia
  <2> QED
    BY <1>2, <2>1 DEF MediaInv
<1>5. ASSUME NEW e \in Entries \ stale', NEW m \in Media
      PROVE  RowShows(e, m)'
  <2> DEFINE k == item[e][m]
  <2>1. k \in Keys \cup {NoKey} /\ latest[e][m] \in Edits \cup {0}
    BY <1>1, FieldOfMedia
  <2>2. RowShows(e, m) /\ (latest[e][m] # 0 => latest[e][m] # d)
    BY DEF MediaInv
  <2>3. ASSUME k # NoKey, k \notin reused'
        PROVE  storage'[k] = storage[k]
    <3>1. k \in Keys /\ storage[k] = [edit |-> latest[e][m], media |-> m] /\ latest[e][m] # 0
      BY <2>1, <2>2, <2>3 DEF RowShows
    <3>2. storage[k].edit = latest[e][m]
      BY <1>1, <3>1, ObjectIs
    <3> QED
      BY <2>2, <2>3, <3>1, <3>2
  <2> QED
    BY <2>2, <2>3 DEF RowShows
<1>6. ASSUME NEW c \in Edits, Open(c)', NEW m \in Media, c # d
      PROVE  /\ edit'[c].of \in Entries /\ (edit'[c].of \in Resources => edit'[c].audio # NoFile)
             /\ EditOK(c, m)'
  <2>1. Open(c) /\ edit'[c] = edit[c] /\ (Put(c, m)' <=> Put(c, m))
    BY <1>2, <1>6 DEF Open, Put
  <2>2. EditOK(c, m)
    BY <2>1 DEF MediaInv
  <2>3. ASSUME Put(c, m), edit[c].keys[m] \notin reused'
        PROVE  storage'[edit[c].keys[m]] = [edit |-> c, media |-> m]
    <3> DEFINE k == edit[c].keys[m]
    <3>1. k \in Keys /\ storage[k] = [edit |-> c, media |-> m]
      BY <2>2, <2>3 DEF EditOK
    <3>2. storage[k].edit = c /\ c # 0
      BY <1>1, <3>1, ObjectIs DEF Edits
    <3> QED
      BY <1>6, <2>3, <3>1, <3>2
  <2>4. EditOK(c, m)'
    BY <2>1, <2>2, <2>3 DEF EditOK
  <2> QED
    BY <2>1, <2>4 DEF MediaInv
<1>7. Open(d)' => /\ edit'[d].of \in Entries /\ (edit'[d].of \in Resources => edit'[d].audio # NoFile)
                  /\ \A m \in Media : EditOK(d, m)'
  BY <1>2 DEF Open
<1> QED
  <2>1. \A c \in Edits : Open(c)' =>
          /\ edit'[c].of \in Entries /\ (edit'[c].of \in Resources => edit'[c].audio # NoFile)
          /\ \A m \in Media : EditOK(c, m)'
    BY <1>6, <1>7 DEF Media
  <2> QED
    BY <1>3, <1>4, <1>5, <2>1 DEF MediaInv

LEMMA EditBegins ==
  ASSUME MediaInv, NEW d \in Edits, NEW e \in Entries,
         CreateTrack(d, e) \/ CreateResource(d, e) \/ FindTrack(d, e) \/ FindResource(d, e)
  PROVE  MediaInv'
<1> DEFINE none == NoEdit.keys
<1>1. /\ item \in [Entries -> EntryRows] /\ storage \in [Keys -> Objects] /\ reused \subseteq Keys
      /\ millis \in 1..MaxMillis /\ editFaults \in Nat /\ stale \subseteq Tracks
      /\ \A m \in Media : ~item[e].there => item[e][m] = NoKey
  BY MediaTypes DEF MediaInv
<1>2. none \in KeyPairs /\ \A m \in Media : none[m] = NoKey
  BY DEF NoEdit, KeyPairs, Media
<1> HIDE DEF none
<1>3. Kept(e) \in KeyPairs /\ \A m \in Media : Kept(e)[m] = item[e][m]
  BY <1>1 DEF Kept, KeyPairs, EntryRows, Media
<1>4. PICK audio \in FileNames \cup {NoFile}, image \in BOOLEAN, keys \in KeyPairs :
        /\ BeginEdit(d, e, audio, image, keys)
        /\ e \in Resources => audio # NoFile /\ keys = none
        /\ e \in Tracks => \A m \in Media : keys[m] = item[e][m]
  <2>1. CASE CreateTrack(d, e)
    BY <1>1, <1>2, <2>1, MediaAssumption DEF CreateTrack, MediaAssumption, none
  <2>2. CASE CreateResource(d, e)
    BY <1>2, <2>2, MediaAssumption DEF CreateResource, MediaAssumption, none
  <2>3. CASE FindTrack(d, e)
    BY <1>3, <2>3, MediaAssumption DEF FindTrack, MediaAssumption
  <2>4. CASE FindResource(d, e)
    BY <1>2, <2>4, MediaAssumption DEF FindResource, MediaAssumption, none
  <2> QED
    BY <2>1, <2>2, <2>3, <2>4
<1> DEFINE r == [pc |-> "audio", of |-> e, audio |-> audio, image |-> image, keys |-> keys]
<1>5. /\ edit[d].pc = "none" /\ edit' = [edit EXCEPT ![d] = r]
      /\ UNCHANGED <<item, storage, millis, editFaults, latest, reused, stale>>
  BY <1>4 DEF BeginEdit
<1>6. /\ r \in EditRows /\ r.pc = "audio" /\ r.of = e /\ r.audio = audio /\ r.image = image
      /\ r.keys = keys
  BY DEF EditRows
<1> HIDE DEF r
<1>7. edit'[d] = r
  BY <1>5, MediaTypes DEF MediaInv
<1>8. ASSUME NEW m \in Media PROVE EditOK(d, m)'
  <2>1. ~Put(d, m)'
    BY <1>6, <1>7 DEF Put
  <2>2. edit'[d].keys[m] = keys[m] /\ edit'[d].of = e
    BY <1>6, <1>7
  <2> QED
    BY <1>2, <1>4, <1>5, <2>1, <2>2 DEF EditOK
<1> QED
  BY <1>1, <1>4, <1>5, <1>6, <1>8, EditMoves

(* Edit d uploads a file, or has none to upload.                           *)
LEMMA EditUploads ==
  ASSUME MediaInv, NEW d \in Edits, UploadAudio(d) \/ UploadImage(d)
  PROVE  MediaInv'
<1>1. /\ item \in [Entries -> EntryRows] /\ storage \in [Keys -> Objects] /\ reused \subseteq Keys
      /\ millis \in 1..MaxMillis /\ editFaults \in Nat /\ stale \subseteq Tracks
      /\ edit[d] \in EditRows /\ edit \in [Edits -> EditRows]
  BY MediaTypes DEF MediaInv
<1>2. /\ Open(d) /\ UNCHANGED <<item, millis, editFaults, latest, stale>>
      /\ edit[d].of \in Entries /\ (edit[d].of \in Resources => edit[d].audio # NoFile)
      /\ \A m \in Media : EditOK(d, m)
  BY DEF UploadAudio, UploadImage, Open, MediaInv
<1>3. PICK m \in Media, pc \in {"image", "write"} :
        /\ m = "audio" => pc = "image" /\ edit[d].pc = "audio"
        /\ m = "image" => pc = "write" /\ edit[d].pc = "image"
        /\ \/ /\ m = "audio" => edit[d].audio # NoFile
              /\ m = "image" => edit[d].image
              /\ UploadFile(d, m)
           \/ /\ m = "audio" => edit[d].audio = NoFile
              /\ m = "image" => ~edit[d].image
              /\ edit' = [edit EXCEPT ![d].pc = pc] /\ UNCHANGED <<storage, reused>>
  <2>1. CASE UploadAudio(d)
    BY <2>1 DEF UploadAudio, Media
  <2>2. CASE UploadImage(d)
    BY <2>2 DEF UploadImage, Media
  <2> QED
    BY <2>1, <2>2
<1>4. CASE edit' = [edit EXCEPT ![d].pc = pc] /\ UNCHANGED <<storage, reused>>
           /\ (m = "audio" => edit[d].audio = NoFile) /\ (m = "image" => ~edit[d].image)
  <2> DEFINE r == [edit[d] EXCEPT !.pc = pc]
  <2>1. /\ r \in EditRows /\ r.pc = pc /\ r.of = edit[d].of /\ r.audio = edit[d].audio
        /\ r.image = edit[d].image /\ r.keys = edit[d].keys
    BY <1>1 DEF EditRows
  <2>2. edit' = [edit EXCEPT ![d] = r]
    BY <1>4
  <2> HIDE DEF r
  <2>3. edit'[d] = r
    BY <1>1, <2>2
  <2>4. \A n \in Media : Put(d, n)' <=> Put(d, n)
    BY <1>3, <1>4, <2>1, <2>3 DEF Put, Media
  <2>5. \A n \in Media : EditOK(d, n)'
    BY <1>2, <1>4, <2>1, <2>3, <2>4 DEF EditOK
  <2> QED
    BY <1>1, <1>2, <1>4, <2>1, <2>2, <2>5, EditMoves DEF Open
<1>5. CASE /\ UploadFile(d, m)
           /\ (m = "audio" => edit[d].audio # NoFile) /\ (m = "image" => edit[d].image)
  <2> DEFINE k == Key(d, m)  o == [edit |-> d, media |-> m]
             keys == [edit[d].keys EXCEPT ![m] = k]
             r == [edit[d] EXCEPT !.keys = keys, !.pc = pc]
  <2>1. k \in Keys /\ k[2] = m
    <3>1. edit[d].of \in Resources /\ m = "audio" => edit[d].audio \in FileNames
      BY <1>1, <1>2, <1>5 DEF EditRows
    <3>2. edit[d].of \in Tracks \/ edit[d].of \in Resources
      BY <1>2 DEF Entries
    <3>3. CASE edit[d].of \in Tracks
      BY <1>1, <3>3 DEF Key, TrackKey, Keys
    <3>4. CASE edit[d].of \notin Tracks
      <4> DEFINE n == IF m = "image" THEN millis ELSE edit[d].audio
      <4>1. n \in FileNames \cup 1..MaxMillis
        BY <1>1, <3>1, <3>2, <3>4 DEF Media
      <4>2. k = <<"resources", m, n>>
        BY <3>4 DEF Key, ResourceKey
      <4> QED
        BY <4>1, <4>2 DEF Keys
    <3> QED
      BY <3>3, <3>4
  <2>2. /\ storage' = [storage EXCEPT ![k] = o]
        /\ reused' = IF storage[k].edit \in {0, d} THEN reused ELSE reused \cup {k}
        /\ edit' = [edit EXCEPT ![d].keys[m] = k, ![d].pc = pc]
    BY <1>3, <1>5 DEF UploadFile, Media
  <2> HIDE DEF k
  <2>3. o \in Objects
    BY DEF Objects
  <2> HIDE DEF o
  <2>4. keys \in KeyPairs /\ keys[m] = k /\ \A n \in Media \ {m} : keys[n] = edit[d].keys[n]
    BY <1>1, <2>1 DEF EditRows, KeyPairs, Media
  <2>5. edit' = [edit EXCEPT ![d] = r]
    BY <1>1, <2>2 DEF EditRows
  <2> HIDE DEF keys
  <2>6. /\ r \in EditRows /\ r.pc = pc /\ r.of = edit[d].of /\ r.audio = edit[d].audio
        /\ r.image = edit[d].image /\ r.keys = keys
    BY <1>1, <2>4 DEF EditRows
  <2> HIDE DEF r
  <2>7. edit'[d] = r
    BY <1>1, <2>5
  <2>8. /\ storage' \in [Keys -> Objects] /\ storage'[k] = o
        /\ \A j \in Keys \ {k} : storage'[j] = storage[j]
    BY <1>1, <2>1, <2>2, <2>3
  <2>9. reused' \subseteq Keys /\ reused \subseteq reused' /\ (k \in reused' \/ storage[k].edit \in {0, d})
    BY <1>1, <2>1, <2>2
  <2>10. Put(d, m)' /\ \A n \in Media \ {m} : Put(d, n)' <=> Put(d, n)
    BY <1>3, <1>5, <2>6, <2>7 DEF Put, Media
  <2>11. EditOK(d, m)'
    <3>1. edit'[d].keys[m] = k
      BY <2>4, <2>6, <2>7
    <3> QED
      BY <2>1, <2>8, <2>10, <3>1 DEF EditOK, o
  <2>12. ASSUME NEW n \in Media \ {m} PROVE EditOK(d, n)'
    <3> DEFINE j == edit[d].keys[n]
    <3>1. EditOK(d, n) /\ (Put(d, n)' <=> Put(d, n)) /\ edit'[d].keys[n] = j /\ edit'[d].of = edit[d].of
      BY <1>2, <2>4, <2>6, <2>7, <2>10
    <3>2. Put(d, n) => j \in Keys /\ j[2] = n /\ j # k
      BY <2>1, <3>1 DEF EditOK
    <3>3. Put(d, n) => storage'[j] = storage[j]
      BY <2>8, <3>2
    <3> QED
      BY <1>2, <2>9, <3>1, <3>2, <3>3 DEF EditOK
  <2> QED
    BY <1>1, <1>2, <2>5, <2>6, <2>8, <2>9, <2>11, <2>12, EditMoves DEF Open
<1> QED
  BY <1>3, <1>4, <1>5

LEMMA EditStops ==
  ASSUME MediaInv, NEW d \in Edits, EditFails(d)
  PROVE  MediaInv'
<1> DEFINE r == [edit[d] EXCEPT !.pc = "done"]
<1>1. /\ edit[d] \in EditRows /\ storage \in [Keys -> Objects] /\ reused \subseteq Keys
      /\ millis \in 1..MaxMillis /\ editFaults \in Nat
  BY MediaTypes DEF MediaInv
<1>2. /\ edit[d].pc # "done" /\ edit' = [edit EXCEPT ![d] = r] /\ editFaults' \in Nat
      /\ UNCHANGED <<item, storage, millis, latest, reused, stale>>
  BY <1>1 DEF EditFails
<1>3. r \in EditRows /\ r.pc = "done"
  BY <1>1 DEF EditRows
<1> HIDE DEF r
<1> QED
  BY <1>1, <1>2, <1>3, EditMoves

(* Edit d writes its row.                                                  *)
LEMMA EditWrites ==
  ASSUME MediaInv, NEW d \in Edits, WriteTrack(d) \/ WriteResource(d)
  PROVE  MediaInv'
<1> DEFINE e == edit[d].of  keys == edit[d].keys
           r == [edit[d] EXCEPT !.pc = "done"]
           y == [audio |-> IF edit[d].audio # NoFile THEN d ELSE latest[e].audio,
                 image |-> IF edit[d].image THEN d ELSE latest[e].image]
<1>1. /\ item \in [Entries -> EntryRows] /\ storage \in [Keys -> Objects]
      /\ edit \in [Edits -> EditRows] /\ keys \in KeyPairs
      /\ latest \in [Entries -> [audio : Edits \cup {0}, image : Edits \cup {0}]]
      /\ reused \subseteq Keys /\ stale \subseteq Tracks /\ millis \in 1..MaxMillis /\ editFaults \in Nat
  BY MediaTypes DEF MediaInv, EditRows
<1>2. /\ edit[d].pc = "write" /\ Open(d) /\ UNCHANGED <<storage, millis, editFaults, reused>>
      /\ edit' = [edit EXCEPT ![d] = r]
      /\ stale \subseteq stale' /\ stale' \subseteq Tracks
      /\ e \in Tracks \ stale' => OpenEdits(e) = {d}
  <2>1. CASE WriteTrack(d)
    BY <1>1, <2>1 DEF WriteTrack, Open
  <2>2. CASE WriteResource(d)
    <3>1. e \notin Tracks
      BY <2>2, MediaAssumption DEF WriteResource, MediaAssumption
    <3> QED
      BY <1>1, <2>2, <3>1 DEF WriteResource, Open
  <2> QED
    BY <2>1, <2>2
<1>3. e \in Entries /\ (e \in Resources => edit[d].audio # NoFile) /\ \A m \in Media : EditOK(d, m)
  BY <1>2 DEF MediaInv
<1>4. latest' = [latest EXCEPT ![e] = y]
  BY DEF WriteTrack, WriteResource, NoteLatest
<1>5. /\ y \in [audio : Edits \cup {0}, image : Edits \cup {0}]
      /\ \A m \in Media : y[m] = IF Put(d, m) THEN d ELSE latest[e][m]
  BY <1>1, <1>2, <1>3 DEF Put, Media
<1>6. r \in EditRows /\ r.pc = "done"
  BY <1>1 DEF EditRows
<1> HIDE DEF y, r
<1>7. PICK x \in EntryRows :
        /\ item' = [item EXCEPT ![e] = x] /\ x.there
        /\ \A m \in Media : Put(d, m) => x[m] = keys[m]
        /\ \A m \in Media : ~Put(d, m) /\ e \notin stale' => x[m] = item[e][m]
  <2>1. CASE WriteTrack(d)
    <3> DEFINE x == [there |-> TRUE, audio |-> keys.audio, image |-> keys.image]
    <3>1. x \in EntryRows /\ x.there /\ \A m \in Media : x[m] = keys[m]
      BY <1>1 DEF EntryRows, KeyPairs, Media
    <3>2. item' = [item EXCEPT ![e] = x] /\ e \in Tracks
      BY <2>1 DEF WriteTrack
    <3> HIDE DEF x
    <3>3. \A m \in Media : ~Put(d, m) /\ e \notin stale' => keys[m] = item[e][m]
      BY <1>2, <1>3, <3>2 DEF EditOK
    <3>4. /\ \A m \in Media : Put(d, m) => x[m] = keys[m]
          /\ \A m \in Media : ~Put(d, m) /\ e \notin stale' => x[m] = item[e][m]
      BY <3>1, <3>3
    <3> QED
      BY <3>1, <3>2, <3>4
  <2>2. CASE WriteResource(d)
    <3> DEFINE i == IF keys.image = NoKey THEN item[e].image ELSE keys.image
               x == [item[e] EXCEPT !.there = TRUE, !.audio = keys.audio, !.image = i]
    <3>1. /\ x \in EntryRows /\ x.there
          /\ x["audio"] = keys["audio"] /\ x["image"] = i
      BY <1>1, <1>3 DEF EntryRows, KeyPairs, Media
    <3>2. e \in Resources /\ item' = [item EXCEPT ![e] = x]
      BY <1>1, <1>3, <2>2 DEF WriteResource
    <3>4. Put(d, "audio")
      BY <1>2, <1>3, <3>2 DEF Put
    <3>5. /\ Put(d, "image") => i = keys["image"]
          /\ ~Put(d, "image") => i = item[e]["image"]
      BY <1>3, <3>2, NoKeyIsNoKey DEF EditOK, Media
    <3> HIDE DEF x, i
    <3> QED
      BY <3>1, <3>2, <3>4, <3>5 DEF Media
  <2> QED
    BY <2>1, <2>2
<1>8. /\ edit' \in [Edits -> EditRows] /\ edit'[d] = r /\ \A c \in Edits \ {d} : edit'[c] = edit[c]
      /\ item' \in [Entries -> EntryRows] /\ item'[e] = x
      /\ latest' \in [Entries -> [audio : Edits \cup {0}, image : Edits \cup {0}]] /\ latest'[e] = y
      /\ \A f \in Entries \ {e} : item'[f] = item[f] /\ latest'[f] = latest[f]
      /\ stale \subseteq stale' /\ stale' \subseteq Tracks
  BY <1>1, <1>2, <1>3, <1>4, <1>5, <1>6, <1>7
<1> HIDE DEF e, keys
<1>9. MediaTypeOK'
  BY <1>1, <1>2, <1>8 DEF MediaTypeOK, EntryRows, Objects, EditRows, KeyPairs
<1>10. ASSUME NEW f \in Entries, NEW m \in Media
       PROVE  /\ ~item'[f].there => item'[f][m] = NoKey
              /\ latest'[f][m] # 0 => edit'[latest'[f][m]].pc = "done"
  <2>1. latest[f][m] \in Edits \cup {0}
    BY <1>1, FieldOfMedia
  <2>2. latest[f][m] # 0 => edit'[latest[f][m]].pc = "done"
    BY <1>6, <1>8, <2>1 DEF MediaInv
  <2>3. latest'[f][m] = latest[f][m] \/ latest'[f][m] = d
    BY <1>5, <1>8
  <2>4. ~item'[f].there => item'[f][m] = NoKey
    BY <1>7, <1>8 DEF MediaInv
  <2> QED
    BY <1>6, <1>8, <2>2, <2>3, <2>4
<1>11. ASSUME NEW f \in Entries \ stale', NEW m \in Media
       PROVE  RowShows(f, m)'
  <2>1. RowShows(f, m)
    BY <1>8 DEF MediaInv
  <2>2. CASE f # e
    BY <1>2, <1>8, <2>1, <2>2 DEF RowShows
  <2>3. CASE f = e /\ Put(d, m)
    <3>1. EditOK(d, m) /\ item'[f][m] = keys[m] /\ latest'[f][m] = d /\ d # 0
      BY <1>3, <1>5, <1>7, <1>8, <2>3 DEF Edits
    <3> QED
      BY <1>2, <2>3, <3>1, NoKeyIsNoKey DEF RowShows, EditOK, keys
  <2>4. CASE f = e /\ ~Put(d, m)
    <3>1. item'[f][m] = item[f][m] /\ latest'[f][m] = latest[f][m]
      BY <1>5, <1>7, <1>8, <2>4
    <3> QED
      BY <1>2, <2>1, <3>1 DEF RowShows
  <2> QED
    BY <2>2, <2>3, <2>4
<1>12. ASSUME NEW c \in Edits, Open(c)'
       PROVE  /\ edit'[c].of \in Entries /\ (edit'[c].of \in Resources => edit'[c].audio # NoFile)
              /\ \A m \in Media : EditOK(c, m)'
  <2>1. c # d /\ Open(c) /\ edit'[c] = edit[c] /\ \A m \in Media : Put(c, m)' <=> Put(c, m)
    BY <1>6, <1>8, <1>12 DEF Open, Put
  <2>2. edit[c].of \in Tracks \ stale' => edit[c].of # e
    BY <1>2, <2>1 DEF OpenEdits, Open, e
  <2>3. edit[c].of \in Entries /\ \A m \in Media : EditOK(c, m)
    BY <2>1 DEF MediaInv
  <2>4. \A m \in Media : EditOK(c, m)'
    BY <1>2, <1>8, <2>1, <2>2, <2>3 DEF EditOK
  <2> QED
    BY <2>1, <2>4 DEF MediaInv
<1> QED
  BY <1>9, <1>10, <1>11, <1>12 DEF MediaInv

LEMMA MediaStep == MediaInv /\ [MediaNext]_mediaVars => MediaInv'
<1> SUFFICES ASSUME MediaInv, [MediaNext]_mediaVars PROVE MediaInv'  OBVIOUS
<1>1. ASSUME UNCHANGED <<item, storage, edit, editFaults, latest, reused, stale>>,
             millis' \in 1..MaxMillis
      PROVE  MediaInv'
  <2>1. MediaTypeOK'
    BY <1>1 DEF MediaInv, MediaTypeOK
  <2>2. /\ \A d \in Edits, m \in Media : EditOK(d, m)' = EditOK(d, m)
        /\ \A d \in Edits : Open(d)' = Open(d)
        /\ \A e \in Entries, m \in Media : RowShows(e, m)' = RowShows(e, m)
    BY <1>1 DEF EditOK, Put, Open, RowShows
  <2> QED
    BY <1>1, <2>1, <2>2 DEF MediaInv
<1>2. CASE Tick \/ UNCHANGED mediaVars
  <2>1. millis \in 1..MaxMillis /\ MaxMillis \in Nat
    BY MediaAssumption DEF MediaAssumption, MediaInv, MediaTypeOK
  <2> QED
    BY <1>1, <1>2, <2>1 DEF Tick, mediaVars
<1> QED
  BY <1>2, EditBegins, EditUploads, EditStops, EditWrites, Zenon DEF MediaNext

\* A track or a resource names the audio and the image it was given last, and S3 has
\* them under that key, unless the key was reused or two edits of a track overlapped
\* (music-library-admin.service.ts: updateTrack; mindfulness-admin.service.ts).
THEOREM ShowsItsFilesAlways == MediaSpec => []ShowsItsFiles
<1>1. MediaInv => ShowsItsFiles
  BY DEF MediaInv, RowShows, ShowsItsFiles
<1> QED
  BY <1>1, MediaInitially, MediaStep, PTL DEF MediaSpec

\* Types of all parts at once.
THEOREM TypesTogether == Spec => []TypeOK
<1>1. BankInv => BankTypeOK
  BY DEF BankInv
<1>2. CourseInv => CourseTypeOK
  <2> SUFFICES ASSUME CourseInv PROVE CourseTypeOK
    OBVIOUS
  <2>1. ASSUME NEW l \in Lessons PROVE Cardinality(Writing(l)) <= 1
    <3>1. \A v, w \in Writing(l) : v = w
      BY DEF CourseInv, WritesAlone
    <3>2. CASE Writing(l) = {}
      BY <3>2, FS_EmptySet
    <3>3. CASE Writing(l) # {}
      <4>1. PICK v : Writing(l) = {v}
        BY <3>1, <3>3
      <4>2. Cardinality({v}) = 1
        BY FS_Singleton
      <4> QED BY <4>1, <4>2
    <3> QED BY <3>2, <3>3
  <2> QED
    BY <2>1 DEF CourseInv, CourseTypes, CourseTypeOK, CourseRows, LessonStates, VisitRows, LessonOK
<1>3. MediaInv => MediaTypeOK
  BY DEF MediaInv
<1>4. BankSpec => []BankTypeOK
  BY <1>1, BankInitially, BankStep, PTL DEF BankSpec
<1>5. CourseSpec => []CourseTypeOK
  BY <1>2, CourseInitially, CourseStep, PTL DEF CourseSpec
<1>6. MediaSpec => []MediaTypeOK
  BY <1>3, MediaInitially, MediaStep, PTL DEF MediaSpec
<1>7. AccessTypeOK /\ AuthTypeOK /\ BankTypeOK /\ CourseTypeOK /\ ChatTypeOK /\ MediaTypeOK
        => TypeOK
  BY DEF TypeOK
<1> QED
  BY <1>4, <1>5, <1>6, <1>7, PartsStandAlone, AccessTypeCorrect, AuthTypeCorrect,
     ChatTypeCorrect, PTL

\* What is proved of each part holds of the back end as a whole, whatever its other
\* parts do meanwhile.
THEOREM TogetherAlways ==
  Spec => /\ [](SpentMeansExhausted /\ AccessWithinLimit)
          /\ [](SuspensionHolds /\ LinkUsedOnce /\ NewestCodeWorks)
          /\ [](HeardByMembers /\ SessionOfOpenSocket)
          /\ [](OneDefault /\ ProgressAgrees /\ ShowsItsFiles)
          /\ CompletedStays
BY PartsStandAlone, SpentMeansExhaustedAlways, AccessWithinLimitAlways,
   SuspensionHoldsAlways, LinkUsedOnceAlways, NewestCodeWorksAlways,
   HeardByMembersAlways, SessionOfOpenSocketAlways, OneDefaultAlways,
   ProgressAgreesAlways, CompletedStaysAlways, ShowsItsFilesAlways, PTL
=============================================================================
