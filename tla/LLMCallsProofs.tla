--------------------------- MODULE LLMCallsProofs ---------------------------
(* Proofs about LLMCalls: types, the request budget, the account of pending     *)
(* rows, the overshoot of the token budget and the requests behind one row.     *)
EXTENDS LLMCalls, FiniteSetTheorems, TLAPS

RowAt == {"waiting", "ready", "sent"}

\* A step of a thread that leaves the ledger alone and its row as it was.
Keeps(t) ==
    /\ ledger' = ledger
    /\ \E c \in CallType :
         /\ Becomes(t, c)
         /\ HasRow(t) <=> c.at \in RowAt
         /\ HasRow(t) => c.row = call[t].row
         /\ c.at # "idle" => c.row \in 1..day
         /\ c.fives < c.attempt

\* A step that ends a call that had a row.
Ends(t) == HasRow(t) /\ \E cost \in 0..2 : Finish(t, cost)

\* Every attempt adds at most one to the count of consecutive 5xx.
TypeInv == TypeOK /\ \A t \in Threads : call[t].fives < call[t].attempt

LEMMA Bounds ==
  /\ RequestBudget \in Nat /\ TokenBudget \in Nat /\ Fallbacks \in Nat
  /\ MaxCalls \in Nat /\ MaxFaults \in Nat
  /\ Permits \in Nat /\ Attempts \in Nat /\ Fives \in Nat /\ Days \in Nat
  /\ Permits > 0 /\ Attempts > 0 /\ Fives > 0 /\ Days > 0
BY CallsAssumption

LEMMA NoCallType ==
  /\ NoCall \in CallType /\ NoCall.at = "idle" /\ NoCall.posts = 0 /\ NoCall.used = 0
  /\ NoCall.fives < NoCall.attempt
BY Bounds, CallsAssumption DEF NoCall, CallType

LEMMA NextModelType ==
  ASSUME NEW c \in CallType, c.left > 0
  PROVE  /\ NextModel(c) \in CallType
         /\ NextModel(c).at = c.at /\ NextModel(c).row = c.row
         /\ NextModel(c).attempt = c.attempt /\ NextModel(c).fives = 0
<1>1. Fallbacks - c.left + 1 \in 0..Fallbacks /\ c.left - 1 \in 0..Fallbacks /\ 0 \in 0..Attempts
  BY Bounds DEF CallType
<1> QED BY <1>1 DEF CallType, NextModel

LEMMA FailEnds ==
  ASSUME TypeOK, NEW t \in Threads, call[t].at = "sent", Fail(t)
  PROVE  Ends(t)
<1>1. call[t] \in CallType /\ HasRow(t) BY DEF TypeOK, HasRow
<1>2. Cost(call[t]) \in 0..2 BY <1>1 DEF Cost, CallType
<1> QED BY <1>1, <1>2 DEF Fail, Ends

\* Another attempt keeps the row; the last one ends the call.
LEMMA AgainKeepsOrEnds ==
  ASSUME TypeOK, NEW t \in Threads, call[t].at = "sent", NEW c \in CallType,
         c.row = call[t].row, c.fives <= c.attempt, Again(t, c)
  PROVE  (Keeps(t) /\ faults' = faults) \/ Ends(t)
<1>1. CASE c.attempt < Attempts
  <2> HasRow(t) /\ call[t] \in CallType /\ call[t].row \in 1..day BY DEF HasRow, TypeOK
  <2>1. c.attempt + 1 \in 1..Attempts /\ c.fives < c.attempt + 1 BY <1>1, Bounds DEF CallType
  <2> DEFINE d == [c EXCEPT !.at = "ready", !.attempt = @ + 1]
  <2>2. d \in CallType /\ d.at = "ready" /\ d.row = c.row /\ d.fives < d.attempt
    BY <2>1 DEF CallType
  <2>3. Becomes(t, d) /\ ledger' = ledger /\ faults' = faults BY <1>1 DEF Again
  <2> HIDE DEF d
  <2> QED BY <2>2, <2>3 DEF Keeps, RowAt
<1>2. CASE ~(c.attempt < Attempts) BY <1>2, FailEnds DEF Again
<1> QED BY <1>1, <1>2

\* The errors of an answer: each is followed by an attempt or by the end.
LEMMA ErrsKeepOrEnd ==
  ASSUME TypeInv, NEW t \in Threads, Errs(t)
  PROVE  (Keeps(t) /\ faults' = faults) \/ Ends(t)
<1> DEFINE five == [call[t] EXCEPT !.fives = @ + 1]
           calm == [call[t] EXCEPT !.fives = 0]
<1> USE DEF TypeInv
<1>1. call[t] \in CallType /\ call[t].at = "sent" /\ call[t].fives < call[t].attempt
  BY DEF Errs, TypeOK
<1>2. 0 \in 0..Attempts /\ call[t].fives + 1 \in 0..Attempts
      /\ 0 <= call[t].attempt /\ call[t].fives + 1 <= call[t].attempt
  BY <1>1, Bounds DEF CallType
<1>3. calm \in CallType /\ calm.row = call[t].row /\ calm.fives <= calm.attempt
  BY <1>1, <1>2 DEF CallType
<1>4. five \in CallType /\ five.row = call[t].row /\ five.fives <= five.attempt
  BY <1>1, <1>2 DEF CallType
<1>5. ASSUME NEW c \in CallType, c.left > 0, c.row = call[t].row
      PROVE  /\ NextModel(c) \in CallType /\ NextModel(c).row = call[t].row
             /\ NextModel(c).fives <= NextModel(c).attempt
  <2>1. 0 <= c.attempt BY DEF CallType
  <2> QED BY <1>5, <2>1, NextModelType
<1> HIDE DEF five, calm
<1>6. CASE ServerError(t)
  <2>1. Again(t, five) \/ (five.left > 0 /\ Again(t, NextModel(five)))
    BY <1>6 DEF ServerError, five
  <2> QED BY <1>1, <1>4, <1>5, <2>1, AgainKeepsOrEnds
<1>7. CASE Gone(t)
  <2>1. Fail(t) \/ (call[t].left > 0 /\ Again(t, NextModel(call[t]))) BY <1>7 DEF Gone
  <2> QED BY <1>1, <1>5, <2>1, AgainKeepsOrEnds, FailEnds
<1>8. CASE Unauthorized(t) \/ Busy(t)
  <2>1. Fail(t) \/ Again(t, calm) BY <1>8 DEF Unauthorized, Busy, calm
  <2> QED BY <1>1, <1>3, <2>1, AgainKeepsOrEnds, FailEnds
<1>9. CASE Fail(t) BY <1>1, <1>9, FailEnds
<1> QED BY <1>6, <1>7, <1>8, <1>9 DEF Errs

\* A refused parameter: learnt and sent again, known already and an error, or the
\* second refusal of this attempt.
LEMMA NegotiateKeepsOrEnds ==
  ASSUME TypeInv, NEW t \in Threads, Negotiate(t)
  PROVE  (Keeps(t) /\ faults' = faults) \/ Ends(t)
<1> USE DEF TypeInv
<1>1. call[t] \in CallType /\ call[t].at = "sent" /\ call[t].fives < call[t].attempt
  BY DEF Negotiate, TypeOK
<1>2. 0 \in 0..Attempts /\ 0 <= call[t].attempt /\ call[t].posts + 1 \in Nat
  BY <1>1, Bounds DEF CallType
<1> DEFINE calm == [call[t] EXCEPT !.fives = 0]
           resend(x) == [call[t] EXCEPT !.carries = @ \ {x}, !.resent = TRUE, !.posts = @ + 1]
<1>3. calm \in CallType /\ calm.row = call[t].row /\ calm.fives <= calm.attempt
  BY <1>1, <1>2 DEF CallType
<1>4. ASSUME NEW x
      PROVE  /\ resend(x) \in CallType /\ resend(x).row = call[t].row /\ resend(x).at = "sent"
             /\ resend(x).fives < resend(x).attempt
  BY <1>1, <1>2 DEF CallType
<1> HIDE DEF calm, resend
<1>5. \/ Fail(t) \/ Again(t, calm)
      \/ ledger' = ledger /\ faults' = faults /\ \E x : Becomes(t, resend(x))
  BY DEF Negotiate, calm, resend
<1>6. HasRow(t) /\ call[t].row \in 1..day BY <1>1 DEF HasRow, TypeOK
<1> QED BY <1>1, <1>3, <1>4, <1>5, <1>6, AgainKeepsOrEnds, FailEnds DEF Keeps, RowAt

LEMMA BadReplyKeepsOrEnds ==
  ASSUME TypeInv, NEW t \in Threads, BadReply(t)
  PROVE  Keeps(t) \/ Ends(t)
<1> USE DEF TypeInv
<1>1. call[t] \in CallType /\ call[t].at = "sent" /\ HasRow(t) /\ call[t].row \in 1..day
  BY DEF BadReply, Answered, TypeOK, HasRow
<1>2. 1 \in 1..Attempts /\ 0 \in 0..Attempts /\ Fallbacks \in 0..Fallbacks
      /\ call[t].used + 1 \in 0..2 /\ 2 \in 1..2 /\ 1 \in 0..1 /\ 0 < 1
  BY <1>1, Bounds DEF CallType
<1>3. CASE call[t].round = 1
  <2> DEFINE c == [call[t] EXCEPT !.at = "ready", !.round = 2, !.attempt = 1, !.fives = 0,
                                  !.left = Fallbacks, !.used = 1]
  <2>1. c \in CallType /\ c.row = call[t].row /\ c.at = "ready" /\ c.fives < c.attempt
    BY <1>1, <1>2 DEF CallType
  <2>2. Becomes(t, c) /\ ledger' = ledger BY <1>3 DEF BadReply
  <2> HIDE DEF c
  <2> QED BY <1>1, <2>1, <2>2 DEF Keeps, RowAt
<1>4. CASE call[t].round # 1 BY <1>1, <1>2, <1>4 DEF BadReply, Ends
<1> QED BY <1>3, <1>4

\* Every step of a thread keeps its row, ends its call, or is the reservation.
LEMMA ThreadSteps ==
  ASSUME TypeInv, NEW t \in Threads,
         (\E kind \in {"complete", "stream"}, k \in Keys : Begin(t, kind, k))
         \/ Proceed(t) \/ Enter(t)
  PROVE  Keeps(t) \/ Ends(t) \/ Reserve(t)
<1> USE DEF TypeInv
<1>0. call[t] \in CallType /\ (call[t].at # "idle" => call[t].row \in 1..day) /\ day \in 1..Days
      /\ call[t].fives < call[t].attempt
  BY DEF TypeOK
<1>1. ASSUME NEW kind \in {"complete", "stream"}, NEW k \in Keys, Begin(t, kind, k)
      PROVE  Keeps(t)
  <2> DEFINE c == [NoCall EXCEPT !.at = "locking", !.kind = kind, !.key = k, !.row = day]
  <2>1. day \in 0..Days /\ day \in 1..day BY <1>0, Bounds
  <2>2. c \in CallType /\ c.at = "locking" /\ c.row = day /\ c.fives < c.attempt
    BY <2>1, NoCallType DEF CallType
  <2>3. Becomes(t, c) /\ ledger' = ledger /\ ~HasRow(t) BY <1>1 DEF Begin, HasRow
  <2> HIDE DEF c
  <2> QED BY <2>1, <2>2, <2>3 DEF Keeps, RowAt
<1>2. ASSUME Refuse(t) PROVE Keeps(t) BY <1>2, NoCallType DEF Refuse, Keeps, RowAt, HasRow
<1>3. ASSUME Enter(t) PROVE Keeps(t)
  <2> DEFINE c == [call[t] EXCEPT !.at = "ready"]
  <2>1. c \in CallType /\ c.at = "ready" /\ c.row = call[t].row /\ c.fives < c.attempt
    BY <1>0 DEF CallType
  <2>2. Becomes(t, c) /\ ledger' = ledger /\ HasRow(t) /\ call[t].at # "idle"
    BY <1>3 DEF Enter, HasRow
  <2> HIDE DEF c
  <2> QED BY <1>0, <2>1, <2>2 DEF Keeps, RowAt
<1>4. ASSUME Post(t) PROVE Keeps(t)
  <2> DEFINE carried == {x \in IF call[t].kind = "stream" THEN StreamParams ELSE Params :
                           <<call[t].model, x>> \notin off[Home[t]]}
             c == [call[t] EXCEPT !.at = "sent", !.resent = FALSE, !.posts = @ + 1,
                                  !.carries = carried]
  <2>1. carried \in SUBSET Params /\ call[t].posts + 1 \in Nat
    BY <1>0, CallsAssumption DEF CallType
  <2>2. Becomes(t, c) /\ ledger' = ledger /\ HasRow(t) /\ call[t].at # "idle"
    BY <1>4 DEF Post, HasRow
  <2> HIDE DEF carried
  <2>3. c \in CallType /\ c.at = "sent" /\ c.row = call[t].row /\ c.fives < c.attempt
    BY <1>0, <2>1 DEF CallType
  <2> HIDE DEF c
  <2> QED BY <1>0, <2>2, <2>3 DEF Keeps, RowAt
<1>5. ASSUME StreamEnds(t) \/ Quota(t) PROVE Ends(t) BY <1>5, FailEnds DEF StreamEnds, Quota
<1>6. ASSUME Reply(t) PROVE Ends(t)
  <2>1. call[t].used + 1 \in 0..2 BY <1>0 DEF CallType
  <2> QED BY <1>6, <2>1 DEF Reply, Answered, Ends, HasRow
<1> QED BY <1>1, <1>2, <1>3, <1>4, <1>5, <1>6, ErrsKeepOrEnd, NegotiateKeepsOrEnds,
            BadReplyKeepsOrEnds DEF Proceed

-----------------------------------------------------------------------------
\* The variables the ledger's account does not read.
RestOK ==
    /\ cache \in [Keys -> {"none", "valid", "invalid"}]
    /\ latch \in [Processes -> 0..Days]
    /\ off \in [Processes -> SUBSET ((0..Fallbacks) \X Params)]
    /\ begun \in 0..MaxCalls
    /\ faults \in 0..MaxFaults

LEMMA FinishFaults ==
  ASSUME faults \in 0..MaxFaults, NEW t, NEW cost, Finish(t, cost)
  PROVE  faults' \in 0..MaxFaults
BY Bounds DEF Finish

LEMMA RestTyped == TypeInv /\ [Next]_vars => RestOK'
<1> SUFFICES ASSUME TypeInv, [Next]_vars PROVE RestOK' OBVIOUS
<1> USE DEF TypeInv
<1>0. RestOK /\ day \in 0..Days /\ day + 0 \in 0..Days BY Bounds DEF TypeOK, RestOK
<1>1. ASSUME NEW t \in Threads, NEW kind \in {"complete", "stream"}, NEW k \in Keys,
             Begin(t, kind, k)
      PROVE  RestOK'
  <2>1. begun + 1 \in 0..MaxCalls BY <1>0, <1>1, Bounds DEF Begin, RestOK
  <2> QED BY <1>0, <1>1, <2>1 DEF Begin, RestOK
<1>2. ASSUME NEW t \in Threads, Reserve(t) \/ Enter(t) \/ Post(t)
      PROVE  RestOK'
  BY <1>0, <1>2 DEF Reserve, Enter, Post, RestOK
<1>3. ASSUME NEW t \in Threads, Refuse(t)
      PROVE  RestOK'
  <2>1. faults < MaxFaults => faults + 1 \in 0..MaxFaults BY <1>0, Bounds DEF RestOK
  <2> QED BY <1>0, <1>3, <2>1 DEF Refuse, RestOK
<1>4. ASSUME NEW t \in Threads, Negotiate(t)
      PROVE  RestOK'
  <2>1. faults' \in 0..MaxFaults
    BY <1>0, <1>4, NegotiateKeepsOrEnds, FinishFaults DEF RestOK, Ends
  <2>2. call[t] \in CallType /\ Home[t] \in Processes BY CallsAssumption DEF TypeOK
  <2>3. off' \in [Processes -> SUBSET ((0..Fallbacks) \X Params)]
    <3>1. PICK x \in call[t].carries \cap Rejects :
              off' = off \/ off' = [off EXCEPT ![Home[t]] = @ \cup {<<call[t].model, x>>}]
      BY <1>4 DEF Negotiate
    <3>2. <<call[t].model, x>> \in (0..Fallbacks) \X Params BY <2>2 DEF CallType
    <3> QED BY <1>0, <2>2, <3>1, <3>2 DEF RestOK
  <2> QED BY <1>0, <1>4, <2>1, <2>3 DEF Negotiate, RestOK
<1>5. ASSUME NEW t \in Threads, Errs(t) \/ StreamEnds(t) \/ BadReply(t)
      PROVE  RestOK'
  <2>1. faults' \in 0..MaxFaults
    <3>1. CASE Errs(t) BY <1>0, <3>1, ErrsKeepOrEnd, FinishFaults DEF RestOK, Ends
    <3>2. CASE StreamEnds(t) BY <1>0, <3>2, FinishFaults DEF StreamEnds, Fail, RestOK
    <3>3. CASE BadReply(t) BY <1>0, <3>3, FinishFaults DEF BadReply, RestOK
    <3> QED BY <1>5, <3>1, <3>2, <3>3
  <2> QED BY <1>0, <1>5, <2>1 DEF Errs, StreamEnds, BadReply, RestOK
<1>6. ASSUME NEW t \in Threads, Quota(t)
      PROVE  RestOK'
  <2>1. faults' \in 0..MaxFaults BY <1>0, <1>6, FinishFaults DEF Quota, Fail, RestOK
  <2> QED BY <1>0, <1>6, <2>1 DEF Quota, RestOK
<1>7. ASSUME NEW t \in Threads, Reply(t)
      PROVE  RestOK'
  <2>1. faults' \in 0..MaxFaults BY <1>0, <1>7, FinishFaults DEF Reply, RestOK
  <2> QED BY <1>0, <1>7, <2>1 DEF Reply, RestOK
<1>8. ASSUME NEW p \in Processes, Crash(p)
      PROVE  RestOK'
  <2>1. faults + 1 \in 0..MaxFaults /\ 0 \in 0..Days BY <1>0, <1>8, Bounds DEF Crash, RestOK
  <2> QED BY <1>0, <1>8, <2>1 DEF Crash, RestOK
<1>9. CASE Midnight \/ UNCHANGED vars BY <1>0, <1>9 DEF Midnight, vars, RestOK
<1> QED BY <1>1, <1>2, <1>3, <1>4, <1>5, <1>6, <1>7, <1>8, <1>9 DEF Next, Proceed

-----------------------------------------------------------------------------
(***************************************************************************)
(* Who has a row of day d, before and after each kind of step.             *)
(***************************************************************************)
LEMMA OpenCounted ==
  ASSUME NEW d
  PROVE  /\ IsFiniteSet(Open(d)) /\ Cardinality(Open(d)) \in Nat
         /\ Cardinality(Threads) \in Nat /\ Cardinality(Open(d)) <= Cardinality(Threads)
<1>1. Open(d) \in SUBSET Threads BY DEF Open
<1> QED BY <1>1, CallsAssumption, FS_Subset, FS_CardinalityType

LEMMA OpenKept ==
  ASSUME TypeInv, NEW t \in Threads, Keeps(t), NEW d
  PROVE  Open(d)' = Open(d)
BY DEF TypeInv, TypeOK, Keeps, Becomes, Open, HasRow, RowAt

LEMMA OpenClosed ==
  ASSUME TypeInv, NEW t \in Threads, call' = [call EXCEPT ![t] = NoCall], NEW d
  PROVE  Open(d)' = Open(d) \ {t}
BY NoCallType DEF TypeInv, TypeOK, Open, HasRow

LEMMA OpenReserved ==
  ASSUME TypeInv, NEW t \in Threads, Reserve(t), NEW d
  PROVE  /\ t \notin Open(d)
         /\ Open(d)' = IF d = call[t].row THEN Open(d) \cup {t} ELSE Open(d)
BY DEF TypeInv, TypeOK, Reserve, Becomes, Open, HasRow

LEMMA OpenAfterCrash ==
  ASSUME TypeInv, NEW p \in Processes, Crash(p), NEW d
  PROVE  Open(d)' = Open(d) \ {t \in Open(d) : Home[t] = p}
BY NoCallType DEF TypeInv, TypeOK, Crash, Open, HasRow

-----------------------------------------------------------------------------
\* One day's account: pending rows, requests, tokens.  The tokens already reported and
\* the two that each call at work may still bring stay below the bound.
Balanced(d) ==
    /\ ledger[d].pending = Cardinality(Open(d)) + ledger[d].orphans
    /\ RequestBudget > 0 => ledger[d].requests - ledger[d].late <= RequestBudget
    /\ TokenBudget > 0 =>
         ledger[d].tokens + 2 * Cardinality(Open(d))
           < TokenBudget + 2 * (Cardinality(Threads) + ledger[d].late)

CallsInv == TypeInv /\ \A d \in 1..Days : Balanced(d)

LEMMA CallsInit == Init => CallsInv
<1> SUFFICES ASSUME Init PROVE CallsInv OBVIOUS
<1>1. TypeInv BY NoCallType, Bounds DEF Init, TypeInv, TypeOK, RowsType, NoRows
<1>2. ASSUME NEW d \in 1..Days PROVE Balanced(d)
  <2>1. Open(d) = {} BY NoCallType DEF Init, Open, HasRow
  <2>2. ledger[d] = NoRows BY DEF Init
  <2> QED BY <2>1, <2>2, FS_EmptySet, OpenCounted, Bounds DEF Balanced, NoRows
<1> QED BY <1>1, <1>2 DEF CallsInv

\* A call ends: its row is finished and reports at most two tokens, or is orphaned.
LEMMA EndsBalanced ==
  ASSUME CallsInv, NEW t \in Threads, Ends(t)
  PROVE  ledger' \in [1..Days -> RowsType] /\ \A d \in 1..Days : Balanced(d)'
<1> USE DEF CallsInv, TypeInv
<1>1. PICK cost \in 0..2 : Finish(t, cost) BY DEF Ends
<1>2. call' = [call EXCEPT ![t] = NoCall] /\ t \in Open(call[t].row) /\ call[t].row \in 1..Days
  BY <1>1 DEF Ends, Finish, Becomes, Open, HasRow, TypeOK, CallType
<1>r. PICK r \in 1..Days : r = call[t].row BY <1>2
<1>3. /\ ledger[r] \in RowsType /\ Balanced(r)
      /\ Cardinality(Open(r)) \in Nat /\ Cardinality(Open(r)) > 0
    BY <1>2, <1>r, OpenCounted, FS_EmptySet DEF TypeOK
<1>4. /\ Open(r)' = Open(r) \ {t} /\ Cardinality(Open(r)') = Cardinality(Open(r)) - 1
      /\ \A d : d # r => Open(d)' = Open(d)
  <2>1. \A d : Open(d)' = Open(d) \ {t} BY <1>2, OpenClosed
  <2>2. \A d : d # r => t \notin Open(d) BY <1>r DEF Open
  <2>3. \A d : d # r => Open(d) \ {t} = Open(d) BY <2>2
  <2>4. Cardinality(Open(r) \ {t}) = Cardinality(Open(r)) - 1
    BY <1>2, <1>r, OpenCounted, FS_RemoveElement
  <2> QED BY <2>1, <2>3, <2>4
<1>5. CASE ledger' = [ledger EXCEPT ![r] = Finished(ledger[r], cost)]
  <2> DEFINE n == ledger[r].pending - 1
             m == ledger[r].tokens + cost
  <2>1. n \in Nat /\ m \in Nat /\ n = Cardinality(Open(r)) - 1 + ledger[r].orphans
    BY <1>3, Bounds DEF Balanced, RowsType
  <2>2. ledger' = [ledger EXCEPT ![r] = [ledger[r] EXCEPT !.pending = n, !.tokens = m]]
    BY <1>5 DEF Finished
  <2>3. m <= ledger[r].tokens + 2 BY <1>3 DEF RowsType
  <2> HIDE DEF n, m
  <2>4. /\ ledger' \in [1..Days -> RowsType]
        /\ ledger'[r] = [ledger[r] EXCEPT !.pending = n, !.tokens = m]
        /\ \A d \in 1..Days : d # r => ledger'[d] = ledger[d]
    BY <1>2, <1>3, <2>1, <2>2 DEF RowsType, TypeOK
  <2>5. /\ ledger'[r].pending = n /\ ledger'[r].tokens = m
        /\ ledger'[r].requests = ledger[r].requests /\ ledger'[r].late = ledger[r].late
        /\ ledger'[r].orphans = ledger[r].orphans
    BY <1>3, <2>4 DEF RowsType
  <2>6. Balanced(r)' BY <1>3, <1>4, <2>1, <2>3, <2>5, OpenCounted, Bounds DEF Balanced, RowsType
  <2> QED BY <1>4, <2>4, <2>6 DEF Balanced
<1>6. CASE ledger' = [ledger EXCEPT ![r].orphans = @ + 1]
  <2> DEFINE n == ledger[r].orphans + 1
  <2>1. n \in Nat BY <1>3 DEF RowsType
  <2>2. ledger' = [ledger EXCEPT ![r] = [ledger[r] EXCEPT !.orphans = n]] BY <1>6
  <2>3. n = ledger[r].orphans + 1 OBVIOUS
  <2> HIDE DEF n
  <2>4. /\ ledger' \in [1..Days -> RowsType]
        /\ ledger'[r] = [ledger[r] EXCEPT !.orphans = n]
        /\ \A d \in 1..Days : d # r => ledger'[d] = ledger[d]
    BY <1>2, <1>3, <2>1, <2>2 DEF RowsType, TypeOK
  <2>5. /\ ledger'[r].pending = ledger[r].pending /\ ledger'[r].tokens = ledger[r].tokens
        /\ ledger'[r].requests = ledger[r].requests /\ ledger'[r].late = ledger[r].late
        /\ ledger'[r].orphans = n
    BY <1>3, <2>4 DEF RowsType
  <2>6. Balanced(r)' BY <1>3, <1>4, <2>3, <2>5, OpenCounted, Bounds DEF Balanced, RowsType
  <2> QED BY <1>4, <2>4, <2>6 DEF Balanced
<1> QED BY <1>1, <1>r, <1>5, <1>6 DEF Finish

\* A reservation: today's is within both budgets; yesterday's counts as late.
LEMMA ReserveBalanced ==
  ASSUME CallsInv, NEW t \in Threads, Reserve(t)
  PROVE  ledger' \in [1..Days -> RowsType] /\ \A d \in 1..Days : Balanced(d)'
<1> USE DEF CallsInv, TypeInv
<1>1. call[t].row \in 1..day /\ day \in 1..Days BY DEF Reserve, TypeOK
<1>r. PICK r \in 1..Days : r = call[t].row BY <1>1, Bounds
<1>2. /\ Open(r)' = Open(r) \cup {t} /\ Cardinality(Open(r)') = Cardinality(Open(r)) + 1
      /\ \A d : d # r => Open(d)' = Open(d)
      /\ Cardinality(Open(r)') <= Cardinality(Threads)
  <2>1. t \notin Open(r) /\ Open(r)' = Open(r) \cup {t} /\ \A d : d # r => Open(d)' = Open(d)
    BY <1>r, OpenReserved
  <2>2. Cardinality(Open(r) \cup {t}) = Cardinality(Open(r)) + 1
    BY <2>1, OpenCounted, FS_AddElement
  <2>3. Open(r) \cup {t} \in SUBSET Threads BY DEF Open
  <2>4. Cardinality(Open(r) \cup {t}) <= Cardinality(Threads)
    BY <2>3, CallsAssumption, FS_Subset
  <2> QED BY <2>1, <2>2, <2>4
<1> DEFINE old == ledger[r]
           asked == old.requests + 1
           open == old.pending + 1
           late == IF r < day THEN old.late + 1 ELSE old.late
<1>3. /\ old \in RowsType /\ Balanced(r) /\ Cardinality(Open(r)) \in Nat /\ Cardinality(Threads) \in Nat
  BY OpenCounted DEF TypeOK
<1>4. asked \in Nat /\ open \in Nat /\ late \in Nat BY <1>3 DEF RowsType
<1>5. ledger' = [ledger EXCEPT ![r] = [ledger[r] EXCEPT !.requests = asked, !.pending = open,
                                                        !.late = late]]
  BY <1>r DEF Reserve, Reserved
<1>6. asked = ledger[r].requests + 1 /\ open = ledger[r].pending + 1
      /\ (r < day => late = ledger[r].late + 1) /\ (r = day => late = ledger[r].late)
  BY <1>1, <1>r
<1>7. r < day \/ r = day BY <1>1, <1>r
<1>8. r = day => (RequestBudget > 0 => ledger[r].requests < RequestBudget)
                 /\ (TokenBudget > 0 => ledger[r].tokens < TokenBudget)
  BY <1>3, Bounds DEF Reserve, RequestsSpent, TokensSpent, RowsType
<1> HIDE DEF asked, open, late
<1>9. /\ ledger' \in [1..Days -> RowsType]
      /\ ledger'[r] = [ledger[r] EXCEPT !.requests = asked, !.pending = open, !.late = late]
      /\ \A d \in 1..Days : d # r => ledger'[d] = ledger[d]
  BY <1>3, <1>4, <1>5 DEF RowsType, TypeOK
<1>10. /\ ledger'[r].requests = asked /\ ledger'[r].pending = open /\ ledger'[r].late = late
       /\ ledger'[r].tokens = ledger[r].tokens /\ ledger'[r].orphans = ledger[r].orphans
  BY <1>3, <1>9 DEF RowsType
<1>11. Balanced(r)'
  <2>1. ledger'[r].pending = Cardinality(Open(r)') + ledger'[r].orphans
    BY <1>2, <1>3, <1>6, <1>10 DEF Balanced, RowsType
  <2>2. RequestBudget > 0 => ledger'[r].requests - ledger'[r].late <= RequestBudget
    BY <1>3, <1>6, <1>7, <1>8, <1>10, Bounds DEF Balanced, RowsType
  <2>3. TokenBudget > 0 => ledger'[r].tokens + 2 * Cardinality(Open(r)')
                             < TokenBudget + 2 * (Cardinality(Threads) + ledger'[r].late)
    BY <1>2, <1>3, <1>6, <1>7, <1>8, <1>10, Bounds DEF Balanced, RowsType
  <2> QED BY <2>1, <2>2, <2>3 DEF Balanced
<1> QED BY <1>2, <1>9, <1>11 DEF Balanced

\* A process dies: the rows of its calls become orphans.
LEMMA CrashBalanced ==
  ASSUME CallsInv, NEW p \in Processes, Crash(p)
  PROVE  ledger' \in [1..Days -> RowsType] /\ \A d \in 1..Days : Balanced(d)'
<1> DEFINE Lost(d) == {t \in Open(d) : Home[t] = p}
<1>1. ASSUME NEW d \in 1..Days
      PROVE  ledger'[d] \in RowsType /\ Balanced(d)'
  <2>1. /\ IsFiniteSet(Lost(d)) /\ Cardinality(Lost(d)) \in Nat /\ Cardinality(Open(d)) \in Nat
        /\ Cardinality(Open(d) \ Lost(d)) = Cardinality(Open(d)) - Cardinality(Lost(d))
    <3>1. IsFiniteSet(Open(d)) /\ Lost(d) \in SUBSET Open(d) /\ Open(d) \cap Lost(d) = Lost(d)
      BY OpenCounted
    <3> HIDE DEF Lost
    <3>2. IsFiniteSet(Lost(d)) BY <3>1, FS_Subset
    <3>3. Cardinality(Open(d) \ Lost(d)) = Cardinality(Open(d)) - Cardinality(Open(d) \cap Lost(d))
      BY <3>1, FS_Difference
    <3> QED BY <3>1, <3>2, <3>3, FS_CardinalityType
  <2>2. Open(d)' = Open(d) \ Lost(d) BY OpenAfterCrash DEF CallsInv
  <2>3. ledger'[d] = [ledger[d] EXCEPT !.orphans = @ + Cardinality(Lost(d))] BY DEF Crash
  <2>4. ledger[d] \in RowsType /\ Balanced(d) /\ Cardinality(Threads) \in Nat
    BY OpenCounted DEF CallsInv, TypeInv, TypeOK
  <2> DEFINE lost == Cardinality(Lost(d))
             n == ledger[d].orphans + lost
  <2>5. lost \in Nat /\ n \in Nat /\ n = ledger[d].orphans + lost BY <2>1, <2>4 DEF RowsType
  <2>6. ledger'[d] = [ledger[d] EXCEPT !.orphans = n] BY <2>3
  <2>7. Cardinality(Open(d)') = Cardinality(Open(d)) - lost BY <2>1, <2>2
  <2> HIDE DEF lost, n, Lost
  <2>8. /\ ledger'[d] \in RowsType /\ ledger'[d].orphans = n
        /\ ledger'[d].requests = ledger[d].requests /\ ledger'[d].pending = ledger[d].pending
        /\ ledger'[d].late = ledger[d].late /\ ledger'[d].tokens = ledger[d].tokens
    BY <2>4, <2>5, <2>6 DEF RowsType
  <2>9. Balanced(d)' BY <2>1, <2>4, <2>5, <2>7, <2>8, Bounds DEF Balanced, RowsType
  <2> QED BY <2>8, <2>9
<1>2. ledger' = [d \in 1..Days |-> ledger'[d]] BY DEF Crash
<1> QED BY <1>1, <1>2

\* The types that are left, and the account, after every step.
LEMMA CallsNext == CallsInv /\ [Next]_vars => CallsInv'
<1> SUFFICES ASSUME CallsInv, [Next]_vars PROVE CallsInv' OBVIOUS
<1> USE DEF CallsInv
<1>0. RestOK' /\ TypeInv /\ TypeOK BY RestTyped DEF TypeInv
<1>1. ASSUME /\ call' \in [Threads -> CallType] /\ day' \in 1..Days
             /\ \A t \in Threads : call'[t].at # "idle" => call'[t].row \in 1..day'
             /\ \A t \in Threads : call'[t].fives < call'[t].attempt
             /\ ledger' \in [1..Days -> RowsType] /\ \A d \in 1..Days : Balanced(d)'
      PROVE  CallsInv'
  BY <1>0, <1>1 DEF TypeInv, TypeOK, RestOK
<1>2. ASSUME NEW t \in Threads, Keeps(t), day' = day
      PROVE  CallsInv'
  <2>1. \A d \in 1..Days : Open(d)' = Open(d) /\ ledger'[d] = ledger[d]
    BY <1>0, <1>2, OpenKept DEF Keeps
  <2>2. \A d \in 1..Days : Balanced(d)' BY <2>1 DEF Balanced
  <2> QED BY <1>0, <1>1, <1>2, <2>2 DEF Keeps, Becomes, TypeInv, TypeOK
<1>3. ASSUME NEW t \in Threads, Ends(t), day' = day
      PROVE  CallsInv'
  <2>1. call' = [call EXCEPT ![t] = NoCall] BY <1>3 DEF Ends, Finish, Becomes
  <2> QED BY <1>0, <1>1, <1>3, <2>1, EndsBalanced, NoCallType DEF TypeInv, TypeOK
<1>4. ASSUME NEW t \in Threads, Reserve(t)
      PROVE  CallsInv'
  <2> DEFINE c == [call[t] EXCEPT !.at = "waiting"]
  <2>1. c \in CallType /\ c.row = call[t].row /\ c.fives = call[t].fives /\ c.attempt = call[t].attempt
    BY <1>0 DEF TypeOK, CallType
  <2>2. call' = [call EXCEPT ![t] = c] /\ day' = day /\ call[t].at # "idle"
    BY <1>4 DEF Reserve, Becomes
  <2> HIDE DEF c
  <2> QED BY <1>0, <1>1, <1>4, <2>1, <2>2, ReserveBalanced DEF TypeInv, TypeOK
<1>5. ASSUME NEW p \in Processes, Crash(p)
      PROVE  CallsInv'
  <2>1. \A t \in Threads : call'[t] = NoCall \/ call'[t] = call[t] BY <1>5 DEF Crash
  <2>2. call' \in [Threads -> CallType] /\ day' = day
    BY <1>0, <1>5, <2>1, NoCallType DEF Crash, TypeOK
  <2> QED BY <1>0, <1>1, <1>5, <2>1, <2>2, CrashBalanced, NoCallType DEF TypeInv, TypeOK
<1>6. CASE Midnight
  <2>1. day' \in 1..Days /\ \A n \in 1..day : n \in 1..day'
    BY <1>0, <1>6, Bounds DEF Midnight, TypeOK
  <2>2. \A d \in 1..Days : Open(d)' = Open(d) BY <1>6 DEF Midnight, Open, HasRow
  <2>3. \A d \in 1..Days : Balanced(d)' BY <1>6, <2>2 DEF Midnight, Balanced
  <2> QED BY <1>0, <1>1, <1>6, <2>1, <2>3 DEF Midnight, TypeInv, TypeOK
<1>7. CASE UNCHANGED vars
  <2>1. \A d \in 1..Days : Balanced(d)' BY <1>7 DEF vars, Balanced, Open, HasRow
  <2> QED BY <1>0, <1>1, <1>7, <2>1 DEF vars, TypeInv, TypeOK
<1>8. ASSUME NEW t \in Threads,
             (\E kind \in {"complete", "stream"}, k \in Keys : Begin(t, kind, k))
             \/ Proceed(t) \/ Enter(t)
      PROVE  day' = day
  BY <1>8 DEF Begin, Proceed, Enter, Reserve, Refuse, Post, Negotiate, Errs, StreamEnds, Quota,
              Reply, BadReply
<1> QED BY <1>0, <1>2, <1>3, <1>4, <1>5, <1>6, <1>7, <1>8, ThreadSteps DEF Next

LEMMA CallsInvariant == Spec => []CallsInv
BY CallsInit, CallsNext, PTL DEF Spec

\* Every component keeps its type, whatever the provider answers and whoever dies.
THEOREM TypeCorrect == Spec => []TypeOK
<1>1. CallsInv => TypeOK BY DEF CallsInv, TypeInv
<1> QED BY <1>1, CallsInvariant, PTL

\* The request budget of a day holds but for reservations that crossed midnight: the
\* count and the row are one step under the advisory lock, whoever else reserves.
THEOREM RequestsWithinBudget == Spec => []RequestBudgetHolds
<1>1. CallsInv => RequestBudgetHolds BY DEF CallsInv, Balanced, RequestBudgetHolds
<1> QED BY <1>1, CallsInvariant, PTL

\* A pending row is a call at work, or one whose process died or could not write.
THEOREM RowsAccounted == Spec => []PendingAccounted
<1>1. CallsInv => PendingAccounted BY DEF CallsInv, Balanced, PendingAccounted
<1> QED BY <1>1, CallsInvariant, PTL

\* The token budget is overshot by at most two answers for each thread and for each
\* reservation that crossed midnight.
THEOREM TokenOvershoot == Spec => []TokenOvershootBounded
<1>1. CallsInv => TokenOvershootBounded
  <2> SUFFICES ASSUME CallsInv, TokenBudget > 0, NEW d \in 1..Days
               PROVE  ledger[d].tokens < TokenBudget + 2 * (Cardinality(Threads) + ledger[d].late)
    BY DEF TokenOvershootBounded
  <2>1. ledger[d] \in RowsType /\ Balanced(d) BY DEF CallsInv, TypeInv, TypeOK
  <2> QED BY <2>1, OpenCounted, Bounds DEF Balanced, RowsType
<1> QED BY <1>1, CallsInvariant, PTL

-----------------------------------------------------------------------------
(***************************************************************************)
(* The requests behind one row.                                            *)
(***************************************************************************)
\* PostsBounded is not inductive: each request is paid for by an attempt of one of two
\* rounds, or by something its process has learnt to leave out.
Learnt(p) == Cardinality(off[p])

Within(c, n) ==
    c.posts <= (IF c.round = 2 THEN Attempts ELSE 0) + c.attempt - 1
                 + (IF c.at = "sent" THEN 1 ELSE 0) + n

PostsInv == \A t \in Threads : Within(call[t], Learnt(Home[t]))

\* A process can learn no more than every parameter of every model.
LEMMA AllCounted ==
  ASSUME NEW S \in SUBSET ((0..Fallbacks) \X Params)
  PROVE  /\ IsFiniteSet(S) /\ Cardinality(S) \in Nat
         /\ Cardinality(S) <= (Fallbacks + 1) * Cardinality(Params)
<1> DEFINE All == (0..Fallbacks) \X Params
<1>1. IsFiniteSet(0..Fallbacks) /\ Cardinality(0..Fallbacks) = Fallbacks + 1
  BY Bounds, FS_Interval
<1>2. IsFiniteSet(All) /\ Cardinality(All) = (Fallbacks + 1) * Cardinality(Params)
  BY <1>1, CallsAssumption, FS_Product
<1>3. S \in SUBSET All OBVIOUS
<1> HIDE DEF All
<1>4. IsFiniteSet(S) /\ Cardinality(S) <= Cardinality(All) BY <1>2, <1>3, FS_Subset
<1> QED BY <1>2, <1>4, FS_CardinalityType

LEMMA LearntCounted ==
  /\ TypeOK => \A p \in Processes :
       /\ IsFiniteSet(off[p]) /\ Learnt(p) \in Nat
       /\ Learnt(p) <= (Fallbacks + 1) * Cardinality(Params)
  /\ TypeOK' => \A p \in Processes : IsFiniteSet(off'[p]) /\ Learnt(p)' \in Nat
<1>1. ASSUME TypeOK, NEW p \in Processes
      PROVE  /\ IsFiniteSet(off[p]) /\ Learnt(p) \in Nat
             /\ Learnt(p) <= (Fallbacks + 1) * Cardinality(Params)
  <2>1. off[p] \in SUBSET ((0..Fallbacks) \X Params) BY <1>1 DEF TypeOK
  <2> QED BY <2>1, AllCounted DEF Learnt
<1>2. ASSUME TypeOK', NEW p \in Processes
      PROVE  IsFiniteSet(off'[p]) /\ Learnt(p)' \in Nat
  <2>1. off'[p] \in SUBSET ((0..Fallbacks) \X Params) BY <1>2 DEF TypeOK
  <2> QED BY <2>1, AllCounted DEF Learnt
<1> QED BY <1>1, <1>2

\* A call that has not begun has sent nothing, and what pays for a call may grow.
LEMMA WithinGrows ==
  ASSUME NEW n \in Nat
  PROVE  /\ Within(NoCall, n)
         /\ \A c \in CallType, m \in Nat : m <= n /\ Within(c, m) => Within(c, n)
<1>1. Within(NoCall, n) BY Bounds DEF Within, NoCall
<1>2. ASSUME NEW c \in CallType, NEW m \in Nat, m <= n, Within(c, m) PROVE Within(c, n)
  BY <1>2, Bounds DEF Within, CallType
<1> QED BY <1>1, <1>2

\* The next attempt of a round pays for the request of the last.
LEMMA AgainWithin ==
  ASSUME NEW t \in Threads, NEW c \in CallType, NEW n \in Nat, c.at = "sent", Within(c, n),
         Again(t, c)
  PROVE  \E d : Becomes(t, d) /\ Within(d, n)
<1>1. CASE c.attempt < Attempts
  <2> DEFINE a == c.attempt + 1
             d == [c EXCEPT !.at = "ready", !.attempt = a]
  <2>1. a \in Nat /\ a = c.attempt + 1 BY DEF CallType
  <2>2. Becomes(t, d) BY <1>1 DEF Again
  <2> HIDE DEF a
  <2>3. d.posts = c.posts /\ d.round = c.round /\ d.attempt = a /\ d.at = "ready"
    BY DEF CallType
  <2> HIDE DEF d
  <2>4. Within(d, n) BY <2>1, <2>3, Bounds DEF Within, CallType
  <2> QED BY <2>2, <2>4
<1>2. CASE ~(c.attempt < Attempts) BY <1>2, WithinGrows DEF Again, Fail, Finish
<1> QED BY <1>1, <1>2

\* An answer that is an error: another attempt, or the end.
LEMMA ErrsWithin ==
  ASSUME TypeInv, NEW t \in Threads, Errs(t), NEW n \in Nat, Within(call[t], n)
  PROVE  \E d : Becomes(t, d) /\ Within(d, n)
<1> USE DEF TypeInv
<1>1. call[t] \in CallType /\ call[t].at = "sent" BY DEF Errs, TypeOK
<1> DEFINE five == [call[t] EXCEPT !.fives = @ + 1]
           calm == [call[t] EXCEPT !.fives = 0]
<1>2. five \in CallType /\ calm \in CallType
  <2>1. 0 \in 0..Attempts /\ call[t].fives + 1 \in 0..Attempts
    BY <1>1, Bounds DEF CallType, TypeOK
  <2> QED BY <1>1, <2>1 DEF CallType
<1>3. /\ five.at = "sent" /\ five.posts = call[t].posts /\ five.round = call[t].round
      /\ five.attempt = call[t].attempt
      /\ calm.at = "sent" /\ calm.posts = call[t].posts /\ calm.round = call[t].round
      /\ calm.attempt = call[t].attempt
  BY <1>1 DEF CallType
<1>4. ASSUME NEW c \in CallType, c.left > 0, c.at = "sent", c.posts = call[t].posts,
             c.round = call[t].round, c.attempt = call[t].attempt
      PROVE  /\ NextModel(c) \in CallType /\ NextModel(c).at = "sent"
             /\ NextModel(c).posts = call[t].posts /\ NextModel(c).round = call[t].round
             /\ NextModel(c).attempt = call[t].attempt
  BY <1>4, NextModelType DEF NextModel, CallType
<1>5. PICK c : \/ Becomes(t, NoCall)
               \/ /\ c \in CallType /\ Again(t, c) /\ c.at = "sent"
                  /\ c.posts = call[t].posts /\ c.round = call[t].round
                  /\ c.attempt = call[t].attempt
  <2> HIDE DEF five, calm
  <2>1. ASSUME ServerError(t) \/ Gone(t) PROVE
          \/ Becomes(t, NoCall) \/ Again(t, five)
          \/ five.left > 0 /\ Again(t, NextModel(five))
          \/ call[t].left > 0 /\ Again(t, NextModel(call[t]))
    BY <2>1 DEF ServerError, Gone, Fail, Finish, five
  <2>2. ASSUME Unauthorized(t) \/ Busy(t) \/ Fail(t) PROVE Becomes(t, NoCall) \/ Again(t, calm)
    BY <2>2 DEF Unauthorized, Busy, Fail, Finish, calm
  <2> QED BY <1>1, <1>2, <1>3, <1>4, <2>1, <2>2 DEF Errs
<1>6. CASE Becomes(t, NoCall) BY <1>6, WithinGrows
<1>7. CASE /\ c \in CallType /\ Again(t, c) /\ c.at = "sent"
           /\ c.posts = call[t].posts /\ c.round = call[t].round /\ c.attempt = call[t].attempt
  <2>1. Within(c, n) BY <1>1, <1>7 DEF Within
  <2> QED BY <1>7, <2>1, AgainWithin
<1> QED BY <1>5, <1>6, <1>7

\* A refused parameter: the request that is sent once more is paid for by what was learnt.
LEMMA NegotiateWithin ==
  ASSUME TypeInv, TypeOK', NEW t \in Threads, Negotiate(t), Within(call[t], Learnt(Home[t]))
  PROVE  \E d : Becomes(t, d) /\ Within(d, Learnt(Home[t])')
<1> USE DEF TypeInv
<1> DEFINE p == Home[t]
           m == Learnt(Home[t])
           n == Learnt(Home[t])'
<1>1. /\ call[t] \in CallType /\ call[t].at = "sent" /\ p \in Processes
      /\ m \in Nat /\ n \in Nat
  BY CallsAssumption, LearntCounted DEF Negotiate, TypeOK
<1>2. PICK x \in call[t].carries \cap Rejects :
        \/ Fail(t)
        \/ /\ <<call[t].model, x>> \notin off[p]
           /\ off' = [off EXCEPT ![p] = @ \cup {<<call[t].model, x>>}]
           /\ \/ Again(t, [call[t] EXCEPT !.fives = 0])
              \/ Becomes(t, [call[t] EXCEPT !.carries = @ \ {x}, !.resent = TRUE, !.posts = @ + 1])
  BY DEF Negotiate
<1>3. CASE Fail(t) BY <1>1, <1>3, WithinGrows DEF Fail, Finish
<1>4. ASSUME /\ <<call[t].model, x>> \notin off[p]
             /\ off' = [off EXCEPT ![p] = @ \cup {<<call[t].model, x>>}]
      PROVE  n = m + 1
  <2>1. off'[p] = off[p] \cup {<<call[t].model, x>>} BY <1>1, <1>4 DEF TypeOK
  <2> QED BY <1>1, <1>4, <2>1, LearntCounted, FS_AddElement DEF Learnt
<1>5. ASSUME n = m + 1, Again(t, [call[t] EXCEPT !.fives = 0])
      PROVE  \E d : Becomes(t, d) /\ Within(d, n)
  <2> DEFINE c == [call[t] EXCEPT !.fives = 0]
  <2>1. c \in CallType /\ c.at = "sent" /\ c.posts = call[t].posts /\ c.round = call[t].round
        /\ c.attempt = call[t].attempt
    <3>1. 0 \in 0..Attempts BY Bounds
    <3> QED BY <1>1, <3>1 DEF CallType
  <2>2. Again(t, c) BY <1>5
  <2> HIDE DEF c, m, n
  <2>3. Within(call[t], m) BY DEF m
  <2>4. Within(c, m) BY <1>1, <2>1, <2>3 DEF Within
  <2>5. Within(c, n) BY <1>1, <1>5, <2>1, <2>4, WithinGrows
  <2> QED BY <1>1, <2>1, <2>2, <2>5, AgainWithin
<1>6. ASSUME n = m + 1,
             Becomes(t, [call[t] EXCEPT !.carries = @ \ {x}, !.resent = TRUE, !.posts = @ + 1])
      PROVE  \E d : Becomes(t, d) /\ Within(d, n)
  <2> DEFINE k == call[t].posts + 1
             d == [call[t] EXCEPT !.carries = @ \ {x}, !.resent = TRUE, !.posts = k]
  <2>1. k \in Nat /\ k = call[t].posts + 1 BY <1>1 DEF CallType
  <2>2. Becomes(t, d) BY <1>6
  <2> HIDE DEF k
  <2>3. d.posts = k /\ d.round = call[t].round /\ d.attempt = call[t].attempt /\ d.at = "sent"
    BY <1>1 DEF CallType
  <2> HIDE DEF d, m, n
  <2>4. Within(call[t], m) BY DEF m
  <2>5. Within(d, n) BY <1>1, <1>6, <2>1, <2>3, <2>4, Bounds DEF Within, CallType
  <2> QED BY <2>2, <2>5
<1> QED BY <1>2, <1>3, <1>4, <1>5, <1>6

\* What a thread does is paid for, by an attempt or by what it learnt.
LEMMA StepWithin ==
  ASSUME TypeInv, TypeOK', NEW t \in Threads, Within(call[t], Learnt(Home[t])),
         (\E kind \in {"complete", "stream"}, k \in Keys : Begin(t, kind, k))
         \/ Proceed(t) \/ Enter(t)
  PROVE  \E d : Becomes(t, d) /\ Within(d, Learnt(Home[t])')
<1> USE DEF TypeInv
<1> DEFINE n == Learnt(Home[t])
<1>1. call[t] \in CallType /\ n \in Nat /\ Learnt(Home[t])' \in Nat
  BY CallsAssumption, LearntCounted DEF TypeOK
<1>2. off' = off => Learnt(Home[t])' = n BY DEF Learnt
<1>3. ASSUME NEW kind \in {"complete", "stream"}, NEW k \in Keys, Begin(t, kind, k)
      PROVE  \E d : Becomes(t, d) /\ Within(d, Learnt(Home[t])')
  <2> DEFINE d == [NoCall EXCEPT !.at = "locking", !.kind = kind, !.key = k, !.row = day]
  <2>1. Becomes(t, d) /\ d.posts = 0 /\ d.round = 1 /\ d.attempt = 1 /\ d.at = "locking"
    BY <1>3 DEF Begin, NoCall
  <2> HIDE DEF d
  <2>2. Within(d, Learnt(Home[t])') BY <1>1, <2>1, Bounds DEF Within
  <2> QED BY <2>1, <2>2
<1>4. ASSUME NEW d, Becomes(t, d), d.posts = call[t].posts, d.round = call[t].round,
             d.attempt = call[t].attempt, d.at # "sent" , call[t].at # "sent", off' = off
      PROVE  Within(d, Learnt(Home[t])')
  BY <1>1, <1>2, <1>4 DEF Within
<1>5. ASSUME NEW at \in {"waiting", "ready"}, Becomes(t, [call[t] EXCEPT !.at = at]),
             call[t].at # "sent", off' = off
      PROVE  \E d : Becomes(t, d) /\ Within(d, Learnt(Home[t])')
  <2> DEFINE d == [call[t] EXCEPT !.at = at]
  <2>1. /\ Becomes(t, d) /\ d.posts = call[t].posts /\ d.round = call[t].round
        /\ d.attempt = call[t].attempt /\ d.at # "sent"
    BY <1>1, <1>5 DEF CallType
  <2> HIDE DEF d
  <2> QED BY <1>4, <1>5, <2>1
<1>6. ASSUME Reserve(t) \/ Enter(t)
      PROVE  \E d : Becomes(t, d) /\ Within(d, Learnt(Home[t])')
  BY <1>5, <1>6 DEF Reserve, Enter
<1>7. ASSUME Becomes(t, NoCall)
      PROVE  \E d : Becomes(t, d) /\ Within(d, Learnt(Home[t])')
  BY <1>1, <1>7, WithinGrows
<1>8. ASSUME Refuse(t) \/ StreamEnds(t) \/ Quota(t) \/ Reply(t)
      PROVE  Becomes(t, NoCall)
  BY <1>8 DEF Refuse, StreamEnds, Quota, Reply, Fail, Finish
<1>9. ASSUME Post(t)
      PROVE  \E d : Becomes(t, d) /\ Within(d, Learnt(Home[t])')
  <2> DEFINE carried == {x \in IF call[t].kind = "stream" THEN StreamParams ELSE Params :
                           <<call[t].model, x>> \notin off[Home[t]]}
             k == call[t].posts + 1
             d == [call[t] EXCEPT !.at = "sent", !.resent = FALSE, !.posts = k,
                                  !.carries = carried]
  <2>1. k \in Nat /\ k = call[t].posts + 1 /\ Becomes(t, d) BY <1>1, <1>9 DEF Post, CallType
  <2> HIDE DEF carried, k
  <2>2. /\ d.posts = k /\ d.round = call[t].round /\ d.attempt = call[t].attempt /\ d.at = "sent"
        /\ call[t].at = "ready" /\ off' = off
    BY <1>1, <1>9 DEF CallType, Post
  <2> HIDE DEF d, n
  <2>3. Within(call[t], n) BY DEF n
  <2>4. Within(d, n) BY <1>1, <2>1, <2>2, <2>3, Bounds DEF Within, CallType
  <2> QED BY <1>2, <2>1, <2>2, <2>4
<1>10. ASSUME Errs(t)
       PROVE  \E d : Becomes(t, d) /\ Within(d, Learnt(Home[t])')
  BY <1>1, <1>2, <1>10, ErrsWithin DEF Errs
<1>11. ASSUME BadReply(t)
       PROVE  \E d : Becomes(t, d) /\ Within(d, Learnt(Home[t])')
  <2>1. CASE call[t].round = 1
    <3> DEFINE d == [call[t] EXCEPT !.at = "ready", !.round = 2, !.attempt = 1, !.fives = 0,
                                    !.left = Fallbacks, !.used = 1]
    <3>1. Becomes(t, d) /\ off' = off /\ call[t].at = "sent"
      BY <1>11, <2>1 DEF BadReply, Answered
    <3>2. d.posts = call[t].posts /\ d.round = 2 /\ d.attempt = 1 /\ d.at = "ready"
      BY <1>1 DEF CallType
    <3> HIDE DEF d, n
    <3>3. Within(call[t], n) BY DEF n
    <3>4. Within(d, n) BY <1>1, <2>1, <3>1, <3>2, <3>3, Bounds DEF Within, CallType
    <3> QED BY <1>2, <3>1, <3>4
  <2>2. CASE call[t].round # 1 BY <1>7, <1>11, <2>2 DEF BadReply, Finish
  <2> QED BY <2>1, <2>2
<1>12. ASSUME Negotiate(t)
       PROVE  \E d : Becomes(t, d) /\ Within(d, Learnt(Home[t])')
  BY <1>12, NegotiateWithin
<1> QED BY <1>3, <1>6, <1>7, <1>8, <1>9, <1>10, <1>11, <1>12 DEF Proceed

\* What a process has learnt it keeps until it dies.
LEMMA LearntGrows ==
  ASSUME TypeOK, TypeOK', NEW t \in Threads, NEW q \in Processes,
         (\E kind \in {"complete", "stream"}, k \in Keys : Begin(t, kind, k))
         \/ Proceed(t) \/ Enter(t)
  PROVE  Learnt(q) <= Learnt(q)'
<1>1. off[q] \subseteq off'[q]
  <2>1. CASE off' = off BY <2>1
  <2>2. ASSUME Negotiate(t) PROVE off[q] \subseteq off'[q] BY <2>2 DEF Negotiate, TypeOK
  <2>3. Negotiate(t) \/ off' = off
    BY DEF Begin, Proceed, Enter, Reserve, Refuse, Post, Errs, StreamEnds, Quota, Reply, BadReply
  <2> QED BY <2>1, <2>2, <2>3
<1>2. IsFiniteSet(off[q]) /\ IsFiniteSet(off'[q]) BY LearntCounted
<1> QED BY <1>1, <1>2, FS_Subset DEF Learnt

\* Every step keeps the account of every thread's requests.
LEMMA PostsNext == TypeInv /\ TypeOK' /\ PostsInv /\ [Next]_vars => PostsInv'
<1> SUFFICES ASSUME TypeInv, TypeOK', PostsInv, [Next]_vars PROVE PostsInv' OBVIOUS
<1>0. /\ TypeOK
      /\ \A t \in Threads : /\ Home[t] \in Processes /\ call[t] \in CallType
                            /\ Learnt(Home[t]) \in Nat /\ Learnt(Home[t])' \in Nat
                            /\ Within(call[t], Learnt(Home[t]))
  BY CallsAssumption, LearntCounted DEF TypeInv, TypeOK, PostsInv
<1>1. ASSUME NEW t \in Threads,
             (\E kind \in {"complete", "stream"}, k \in Keys : Begin(t, kind, k))
             \/ Proceed(t) \/ Enter(t)
      PROVE  PostsInv'
  <2>1. PICK d : Becomes(t, d) /\ Within(d, Learnt(Home[t])') BY <1>0, <1>1, StepWithin
  <2>2. call'[t] = d /\ \A u \in Threads \ {t} : call'[u] = call[u]
    BY <1>0, <2>1 DEF Becomes, TypeOK
  <2>3. ASSUME NEW u \in Threads \ {t} PROVE Within(call[u], Learnt(Home[u])')
    <3>1. Learnt(Home[u]) <= Learnt(Home[u])' BY <1>0, <1>1, LearntGrows
    <3> QED BY <1>0, <3>1, WithinGrows
  <2> QED BY <2>1, <2>2, <2>3 DEF PostsInv, Within
<1>2. ASSUME NEW p \in Processes, Crash(p) PROVE PostsInv'
  <2> SUFFICES ASSUME NEW u \in Threads PROVE Within(call'[u], Learnt(Home[u])')
    BY DEF PostsInv, Within
  <2>1. CASE Home[u] = p BY <1>0, <1>2, <2>1, WithinGrows DEF Crash
  <2>2. CASE Home[u] # p
    <3>1. call'[u] = call[u] /\ off'[Home[u]] = off[Home[u]]
      BY <1>0, <1>2, <2>2 DEF Crash, TypeOK
    <3> QED BY <1>0, <3>1 DEF Learnt
  <2> QED BY <2>1, <2>2
<1>3. CASE Midnight \/ UNCHANGED vars
  <2>1. call' = call /\ off' = off BY <1>3 DEF Midnight, vars
  <2> QED BY <2>1 DEF PostsInv, Within, Learnt
<1> QED BY <1>1, <1>2, <1>3 DEF Next

\* One row of the ledger never stands for more requests than two rounds of attempts and
\* one for each parameter of each model: a retry storm cannot hide behind one reservation.
THEOREM PostsStayBounded == Spec => []PostsBounded
<1>1. Init => PostsInv
  <2> SUFFICES ASSUME Init, NEW t \in Threads PROVE Within(call[t], Learnt(Home[t]))
    BY DEF PostsInv
  <2>1. Learnt(Home[t]) \in Nat
    <3>1. off[Home[t]] = {} BY CallsAssumption DEF Init
    <3> QED BY <3>1, FS_EmptySet DEF Learnt
  <2> QED BY <2>1, WithinGrows DEF Init
<1>2. TypeOK /\ PostsInv => PostsBounded
  <2> SUFFICES ASSUME TypeOK, PostsInv, NEW t \in Threads
               PROVE  call[t].posts <= 2 * Attempts + (Fallbacks + 1) * Cardinality(Params)
    BY DEF PostsBounded
  <2> DEFINE n == (Fallbacks + 1) * Cardinality(Params)
  <2>1. /\ Within(call[t], Learnt(Home[t])) /\ call[t] \in CallType
        /\ Learnt(Home[t]) \in Nat /\ Learnt(Home[t]) <= n
    BY CallsAssumption, LearntCounted DEF TypeOK, PostsInv
  <2>2. n \in Nat
    <3>1. Cardinality(Params) \in Nat /\ Fallbacks + 1 \in Nat
      BY CallsAssumption, FS_CardinalityType, Bounds
    <3> QED BY <3>1
  <2> HIDE DEF n
  <2>3. call[t].posts <= 2 * Attempts + n BY <2>1, <2>2, Bounds DEF Within, CallType
  <2> QED BY <2>3 DEF n
<1>3. CallsInv => TypeInv /\ TypeOK BY DEF CallsInv, TypeInv
<1> QED BY <1>1, <1>2, <1>3, CallsInvariant, PostsNext, PTL DEF Spec

\* A reply that did not validate never enters the cache: nothing but a validated reply
\* is written there.
THEOREM CacheStaysValid == Spec => []CacheIsValid
<1>1. Init => CacheIsValid BY DEF Init, CacheIsValid
<1>2. TypeInv /\ CacheIsValid /\ [Next]_vars => CacheIsValid'
  <2> SUFFICES ASSUME TypeInv, CacheIsValid, [Next]_vars PROVE CacheIsValid' OBVIOUS
  <2>1. CASE cache' = cache BY <2>1 DEF CacheIsValid
  <2>2. ASSUME NEW t \in Threads, Reply(t) PROVE CacheIsValid'
    BY <2>2 DEF Reply, CacheIsValid, TypeInv, TypeOK
  <2> QED BY <2>1, <2>2 DEF Next, Begin, Proceed, Enter, Reserve, Refuse, Post, Negotiate, Errs,
       StreamEnds, Quota, BadReply, Crash, Midnight, vars
<1>3. CallsInv => TypeInv BY DEF CallsInv
<1> QED BY <1>1, <1>2, <1>3, CallsInvariant, PTL DEF Spec
=============================================================================
