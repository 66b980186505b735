---------------------- MODULE CollectiveServiceProofs ----------------------
(***************************************************************************)
(* Proofs about CollectiveService, for any number of processes and calls   *)
(* and communicators of any kind: what may finish once may finish for      *)
(* ever, because calls are only appended and keep their positions, and so  *)
(* no process gets past an operation without the data it needs.            *)
(***************************************************************************)
EXTENDS CollectiveService, TLAPS

(* The parts of the inductive invariant. *)

\* Logs are sequences of valid calls.
LogsAreValid ==
  /\ log = [p \in Procs |-> log[p]]
  /\ \A p \in Procs : /\ log[p] \in Seq({log[p][s] : s \in DOMAIN log[p]})
                      /\ \A s \in DOMAIN log[p] : Valid(p, log[p][s])

\* Calls that are finished were made.
FinishedCallsWereMade == done \in [Procs -> SUBSET Nat] /\ \A p \in Procs : done[p] \subseteq DOMAIN log[p]

\* Of the blocking calls of a process, only the last one may be open.
BlockingCallsFinish ==
  \A p \in Procs : \A s \in DOMAIN log[p], t \in DOMAIN log[p] :
    log[p][s].call.blocking /\ s < t => s \in done[p]

IInv == LogsAreValid /\ FinishedCallsWereMade /\ BlockingCallsFinish /\ FinishedTogether

-----------------------------------------------------------------------------
\* A log is a sequence.
LEMMA LogDomain ==
  ASSUME LogsAreValid, NEW p \in Procs
  PROVE  Len(log[p]) \in Nat /\ DOMAIN log[p] = 1 .. Len(log[p])
BY DEF LogsAreValid

\* An entering process appends one valid call to its log.
LEMMA EnterAppends ==
  ASSUME LogsAreValid, NEW p \in Procs, Enter(p)
  PROVE  /\ LogsAreValid'
         /\ DOMAIN log'[p] = 1 .. Len(log[p]) + 1
         /\ \A q \in Procs : \A t \in DOMAIN log[q] : t \in DOMAIN log'[q] /\ log'[q][t] = log[q][t]
         /\ \A q \in Procs \ {p} : log'[q] = log[q]
<1> DEFINE entry == Last(log'[p])
           old == {log[p][s] : s \in DOMAIN log[p]}
<1>1. log' = [log EXCEPT ![p] = Append(@, entry)] /\ Valid(p, entry)
  BY DEF Enter
<1>2. log[p] \in Seq(old)
  BY DEF LogsAreValid
<1> HIDE DEF entry, old
<1>3. log[p] \in Seq(old \cup {entry})
  BY <1>2
<1>4. log'[p] = Append(log[p], entry)
  BY <1>1 DEF LogsAreValid
<1>5. \A q \in Procs \ {p} : log'[q] = log[q]
  BY <1>1 DEF LogsAreValid
<1>6. /\ Len(log'[p]) = Len(log[p]) + 1
      /\ Len(log[p]) \in Nat
      /\ DOMAIN log[p] = 1 .. Len(log[p])
      /\ DOMAIN log'[p] = 1 .. Len(log[p]) + 1
      /\ \A t \in 1 .. Len(log[p]) : log'[p][t] = log[p][t]
      /\ log'[p][Len(log[p]) + 1] = entry
  BY <1>3, <1>4
<1>7. \A q \in Procs : \A t \in DOMAIN log[q] : t \in DOMAIN log'[q] /\ log'[q][t] = log[q][t]
  BY <1>5, <1>6
<1>8. log'[p] \in Seq({log'[p][s] : s \in DOMAIN log'[p]})
  <2>1. log'[p] = [s \in 1 .. Len(log[p]) + 1 |-> log'[p][s]]
    BY <1>3, <1>4, <1>6
  <2>2. \A s \in 1 .. Len(log[p]) + 1 : log'[p][s] \in {log'[p][r] : r \in DOMAIN log'[p]}
    BY <1>6
  <2> QED BY <2>1, <2>2, <1>6
<1>9. \A q \in Procs : \A s \in DOMAIN log'[q] : Valid(q, log'[q][s])
  <2> SUFFICES ASSUME NEW q \in Procs, NEW s \in DOMAIN log'[q] PROVE Valid(q, log'[q][s])
    OBVIOUS
  <2>1. CASE q = p /\ s = Len(log[p]) + 1
    BY <2>1, <1>1, <1>6
  <2>2. CASE ~(q = p /\ s = Len(log[p]) + 1)
    <3>1. s \in DOMAIN log[q] /\ log'[q][s] = log[q][s]
      BY <2>2, <1>5, <1>6
    <3> QED BY <3>1 DEF LogsAreValid
  <2> QED BY <2>1, <2>2
<1>10. log' = [q \in Procs |-> log'[q]]
  BY <1>1 DEF LogsAreValid
<1>11. \A q \in Procs : log'[q] \in Seq({log'[q][s] : s \in DOMAIN log'[q]})
  <2> SUFFICES ASSUME NEW q \in Procs PROVE log'[q] \in Seq({log'[q][s] : s \in DOMAIN log'[q]})
    OBVIOUS
  <2>1. CASE q = p
    BY <2>1, <1>8
  <2>2. CASE q # p
    <3>1. log[q] \in Seq({log[q][s] : s \in DOMAIN log[q]})
      BY DEF LogsAreValid
    <3>2. log'[q] = log[q]
      BY <2>2, <1>5
    <3> QED BY <3>1, <3>2
  <2> QED BY <2>1, <2>2
<1>12. LogsAreValid'
  BY <1>9, <1>10, <1>11 DEF LogsAreValid, Valid
<1> QED BY <1>5, <1>6, <1>7, <1>12

\* Calls keep their position on the communicator when calls are appended.
LEMMA PositionsStay ==
  ASSUME LogsAreValid, NEW p \in Procs, Enter(p), NEW q \in Procs, NEW t \in DOMAIN log[q]
  PROVE  Position(q, t)' = Position(q, t) /\ Key(q, t)' = Key(q, t)
<1>1. \A s \in 1 .. t : s \in DOMAIN log[q]
  BY LogDomain
<1>2. \A s \in 1 .. t : log'[q][s] = log[q][s]
  BY <1>1, EnterAppends
<1>3. t \in 1 .. t
  BY LogDomain
<1>4. \A s \in 1 .. t : Key(q, s)' = Key(q, s)
  BY <1>2 DEF Key
<1>5. {s \in 1 .. t : Key(q, s) = Key(q, t)}' = {s \in 1 .. t : Key(q, s) = Key(q, t)}
  BY <1>3, <1>4
<1> QED BY <1>3, <1>4, <1>5 DEF Position

\* Whom a call needs are processes.
LEMMA NeedsAreProcesses ==
  ASSUME LogsAreValid, NEW p \in Procs, NEW s \in DOMAIN log[p], HasRoot(p, s)
  PROVE  Needs(p, s) \subseteq Procs
<1>1. Valid(p, log[p][s])
  BY DEF LogsAreValid
<1>2. \A i \in DOMAIN Table(p, s) : Table(p, s)[i] \in Procs
  BY <1>1 DEF Valid, Table, ToSet
<1> QED BY <1>1, <1>2 DEF Needs, HasRoot, Valid, Table, Rooted

\* What may finish may still finish after others have entered.
LEMMA MayFinishStays ==
  ASSUME LogsAreValid, NEW p \in Procs, Enter(p),
         NEW q \in Procs, NEW s \in DOMAIN log[q], MayFinish(q, s)
  PROVE  MayFinish(q, s)'
<1>1. log'[q][s] = log[q][s]
  BY EnterAppends
<1>2. Needs(q, s)' = Needs(q, s) /\ HasRoot(q, s)'
  BY <1>1 DEF Needs, Table, MayFinish, HasRoot
<1> SUFFICES ASSUME NEW r \in Needs(q, s) PROVE HasEntered(q, s, r)'
  BY <1>2 DEF MayFinish
<1>3. r \in Procs
  BY NeedsAreProcesses DEF MayFinish
<1>4. PICK t \in DOMAIN log[r] : Together(q, s, r, t)
  BY DEF MayFinish, HasEntered
<1>5. t \in DOMAIN log'[r]
  BY <1>3, EnterAppends
<1>6. Together(q, s, r, t)'
  BY <1>3, <1>4, PositionsStay DEF Together
<1> QED BY <1>5, <1>6 DEF HasEntered

-----------------------------------------------------------------------------
LEMMA InitHolds == Init => IInv
<1> SUFFICES ASSUME Init PROVE IInv
  OBVIOUS
<1>1. \A p \in Procs : log[p] = <<>> /\ DOMAIN log[p] = {} /\ done[p] = {}
  BY DEF Init
<1>2. LogsAreValid
  BY <1>1 DEF Init, LogsAreValid
<1>3. FinishedCallsWereMade
  BY DEF Init, FinishedCallsWereMade
<1>4. BlockingCallsFinish /\ FinishedTogether
  BY <1>1 DEF BlockingCallsFinish, FinishedTogether
<1> QED BY <1>2, <1>3, <1>4 DEF IInv

\* Entering keeps the invariant.
LEMMA EnterKeeps ==
  ASSUME IInv, NEW p \in Procs, Enter(p)
  PROVE  IInv'
<1> USE DEF IInv
<1>1. done' = done
  BY DEF Enter
<1>2. LogsAreValid'
  BY EnterAppends
<1>3. FinishedCallsWereMade'
  BY <1>1, EnterAppends DEF FinishedCallsWereMade
<1>4. BlockingCallsFinish'
  <2> SUFFICES ASSUME NEW q \in Procs, NEW s \in DOMAIN log'[q], NEW t \in DOMAIN log'[q],
                      log'[q][s].call.blocking, s < t
               PROVE  s \in done[q]
    BY <1>1 DEF BlockingCallsFinish
  <2>1. CASE q # p
    <3>1. log'[q] = log[q]
      BY <2>1, EnterAppends
    <3> QED BY <3>1 DEF BlockingCallsFinish
  <2>2. CASE q = p
    <3>1. /\ Len(log[p]) \in Nat /\ DOMAIN log[p] = 1 .. Len(log[p])
          /\ DOMAIN log'[p] = 1 .. Len(log[p]) + 1
      BY LogDomain, EnterAppends
    <3>2. s \in DOMAIN log[p] /\ log'[p][s] = log[p][s]
      BY <2>2, <3>1, EnterAppends
    <3> QED BY <2>2, <3>2 DEF Enter
  <2> QED BY <2>1, <2>2
<1>5. FinishedTogether'
  <2> SUFFICES ASSUME NEW q \in Procs, NEW s \in done[q] PROVE MayFinish(q, s)'
    BY <1>1 DEF FinishedTogether
  <2>1. s \in DOMAIN log[q] /\ MayFinish(q, s)
    BY DEF FinishedCallsWereMade, FinishedTogether
  <2> QED BY <2>1, MayFinishStays
<1> QED BY <1>2, <1>3, <1>4, <1>5

\* Finishing a call keeps the invariant.
LEMMA FinishKeeps ==
  ASSUME IInv, NEW p \in Procs, Finish(p)
  PROVE  IInv'
<1> USE DEF IInv
<1>1. log' = log
  BY DEF Finish
<1>2. PICK s \in DOMAIN log[p] \ done[p] : /\ MayFinish(p, s)
                                           /\ done' = [done EXCEPT ![p] = @ \cup {s}]
  BY DEF Finish
<1>3. s \in Nat
  BY LogDomain
<1>4. \A q \in Procs : done'[q] = IF q = p THEN done[q] \cup {s} ELSE done[q]
  BY <1>2 DEF FinishedCallsWereMade
<1>5. LogsAreValid'
  BY <1>1 DEF LogsAreValid, Valid
<1>6. FinishedCallsWereMade'
  BY <1>1, <1>2, <1>3, <1>4 DEF FinishedCallsWereMade
<1>7. BlockingCallsFinish'
  BY <1>1, <1>4 DEF BlockingCallsFinish
<1>8. FinishedTogether'
  <2> SUFFICES ASSUME NEW q \in Procs, NEW t \in done'[q] PROVE MayFinish(q, t)'
    BY DEF FinishedTogether
  <2>1. MayFinish(q, t)
    BY <1>2, <1>4 DEF FinishedTogether
  <2>2. MayFinish(q, t)' <=> MayFinish(q, t)
    BY <1>1 DEF MayFinish, HasRoot, HasEntered, Together, Needs, Table, Position, Key
  <2> QED BY <2>1, <2>2
<1> QED BY <1>5, <1>6, <1>7, <1>8

LEMMA StutterKeeps == IInv /\ UNCHANGED vars => IInv'
<1> SUFFICES ASSUME IInv, log' = log, done' = done PROVE IInv'
  BY DEF vars
<1>1. LogsAreValid' /\ FinishedCallsWereMade' /\ BlockingCallsFinish'
  BY DEF IInv, LogsAreValid, Valid, FinishedCallsWereMade, BlockingCallsFinish
<1>2. ASSUME NEW p \in Procs, NEW s \in done[p] PROVE MayFinish(p, s)' <=> MayFinish(p, s)
  BY DEF MayFinish, HasRoot, HasEntered, Together, Needs, Table, Position, Key
<1>3. FinishedTogether'
  BY <1>2 DEF IInv, FinishedTogether
<1> QED BY <1>1, <1>3 DEF IInv

THEOREM Invariance == Spec => []IInv
<1>1. IInv /\ [Next]_vars => IInv'
  BY EnterKeeps, FinishKeeps, StutterKeeps DEF Next
<1> QED BY InitHolds, <1>1, PTL DEF Spec

-----------------------------------------------------------------------------
\* No operation finishes at a process before the processes whose data it needs there have
\* entered it, for any number of processes and calls: what can_be_completed is there for.
THEOREM OperationsFinishTogether == Spec => []FinishedTogether
<1>1. IInv => FinishedTogether
  BY DEF IInv
<1> QED BY Invariance, <1>1, PTL

\* A process that has made another call after a blocking one had the data for it; behind a
\* barrier everybody has entered the barrier.
THEOREM BlockingOperationsSeparate == Spec => []BlockingCallsSeparate
<1>1. IInv => BlockingCallsSeparate
  BY DEF IInv, BlockingCallsSeparate, BlockingCallsFinish, FinishedTogether
<1> QED BY Invariance, <1>1, PTL

=============================================================================
