---------------------------- MODULE PromisesProofs ----------------------------
(***************************************************************************)
(* Proofs that the promise of a probe is kept: while a process holds one,  *)
(* the promised message is there and no receive of the process takes it;   *)
(* and that a reported deadlock is one.                                    *)
(***************************************************************************)
EXTENDS PointToPointProofs

Receives(S) == {r \in ToSet(S.active) : IsReceive(r)}
Sends(S) == {s \in ToSet(S.active) : IsSend(s)}

\* The receive r may take the message s of the sender with the rank.
Takes(r, s, rank) ==
  /\ r.comm = s.comm
  /\ r.tag \in {s.tag, AnyTag}
  /\ r.peer \in {AnySource, s.peer, rank}

\* The message s keeps the promise pr made to process p, which is in state S.
Keeps(p, S, pr, s) ==
  /\ Fits(s, p, pr.comm, pr.tag)
  /\ \A r \in Receives(S) : ~Takes(r, s, pr.rank)

\* What is true of the promise of process p in the array st of states.
PromiseOK(st, p) ==
  LET pr == st[p].probe_promise
  IN pr # NoPromise =>
       /\ pr.comm \in CommsOf(p) /\ pr.rank \in Ranks(pr.comm)
       /\ \E s \in Sends(st[RankToPid(pr.comm, pr.rank)]) : Keeps(p, st[p], pr, s)

\* The inductive strengthening of PromisesAreBacked: at a node the deterministic
\* matches are exhausted, so a promise is made only of what no receive may take.
PInv ==
  /\ \A p \in Procs : PromiseOK(states, p)
  /\ phase = "node" => \A p \in Procs : DeterministicReceives(p) = {}

\* In T the messages of S are there, and the promise of S is given up or no receive is new.
Carries(S, T) ==
  /\ Sends(S) \subseteq Sends(T)
  /\ \/ T.probe_promise = NoPromise
     \/ T.probe_promise = S.probe_promise /\ Receives(T) \subseteq Receives(S)

\* A step that carries the promises of all processes, and does not lead to a node.
StepCarries ==
  /\ phase' # "node"
  /\ \A q \in Procs : Carries(states[q], states'[q])

-----------------------------------------------------------------------------
LEMMA CarriesSame ==
  ASSUME NEW S, NEW T, T.active = S.active, T.probe_promise = S.probe_promise
  PROVE  Carries(S, T)
BY DEF Carries, Sends, Receives

LEMMA CarriesOn ==
  ASSUME NEW S, NEW T, NEW U, Carries(S, T), Carries(T, U)
  PROVE  Carries(S, U)
BY DEF Carries

LEMMA ActivateCarries ==
  ASSUME NEW p \in Procs, NEW S \in StateRecords, NEW r \in Requests, Legal(p, r)
  PROVE  Carries(S, Activate(S, p, r))
<1>1. PICK A : A = Activate(S, p, r)
  OBVIOUS
<1>2. A.probe_promise = IF IsReceive(r) THEN NoPromise ELSE S.probe_promise
  BY <1>1, ActivateFields DEF Kept
<1>3. CASE r.peer = ProcNull
  <2>1. A.active = S.active
    BY <1>1, <1>3, ActivateFields DEF PostsNothing
  <2> QED BY <1>1, <1>2, <2>1 DEF Carries, Sends, Receives
<1>4. CASE r.peer # ProcNull
  <2>1. PICK x : x = Posted(S, p, r)
    OBVIOUS
  <2>2. x \in Requests /\ x.type = r.type
    BY <1>4, <2>1, PostedFields
  <2>3. A.active = Append(S.active, x)
    BY <1>1, <1>4, <2>1, ActivateFields DEF PostsOne
  <2>4. ToSet(A.active) = ToSet(S.active) \cup {x}
    <3>1. PICK a \in Seq(Requests) : a = S.active
      BY DEF StateRecords
    <3>2. ToSet(Append(a, x)) = ToSet(a) \cup {x}
      BY <2>2, Appended
    <3> QED BY <2>3, <3>1, <3>2
  <2>5. Sends(S) \subseteq Sends(A)
    BY <2>4 DEF Sends
  <2>6. ~IsReceive(r) => Receives(A) \subseteq Receives(S)
    BY <2>2, <2>4 DEF Receives, IsReceive
  <2> QED BY <1>1, <1>2, <2>5, <2>6 DEF Carries
<1> QED BY <1>3, <1>4

LEMMA ProceedCarries ==
  ASSUME IInv, NEW p \in Procs, NEW S, NEW hs, Proceed(p, S, hs), Carries(states[p], S)
  PROVE  StepCarries
<1>1. states' = [states EXCEPT ![p] = S] /\ phase' = "match" /\ DOMAIN states = Procs
  BY DEF Proceed, IInv
<1>2. \A q \in Procs : states'[q] = IF q = p THEN S ELSE states[q]
  BY <1>1
<1> QED BY <1>1, <1>2, CarriesSame DEF StepCarries

LEMMA FailCarries ==
  ASSUME NEW name, NEW p, NEW id, Fail(name, p, id)
  PROVE  StepCarries
<1>1. states' = states /\ phase' = "error"
  BY DEF Fail
<1> QED BY <1>1, CarriesSame DEF StepCarries

\* The states that a call which posts nothing leaves a process in.
LEMMA QuietStates ==
  ASSUME NEW S \in StateRecords
  PROVE  /\ \A status, tested : /\ SetWait(S, status, tested).active = S.active
                                /\ SetWait(S, status, tested).probe_promise = S.probe_promise
         /\ \A call, flag : /\ SetProbe(S, call, flag).active = S.active
                            /\ SetProbe(S, call, flag).probe_promise = S.probe_promise
         /\ SetReady(S).active = S.active /\ SetReady(S).probe_promise = S.probe_promise
         /\ SetRunning(S).active = S.active /\ SetRunning(S).probe_promise = S.probe_promise
         /\ SetFinished(S).active = S.active /\ SetFinished(S).probe_promise = S.probe_promise
<1>1. PICK R : R = ResetState(S)
  OBVIOUS
<1>2. R.active = S.active /\ R.probe_promise = S.probe_promise /\ R \in StateRecords
  <2>1. <<>> \in Seq([id : Int, slot : 0 .. Slots])
    BY EmptySeq
  <2> QED BY <1>1, <2>1, Constants DEF ResetState, StateRecords
<1>3. ASSUME NEW status, NEW tested
      PROVE  /\ SetWait(S, status, tested).active = S.active
             /\ SetWait(S, status, tested).probe_promise = S.probe_promise
  <2>1. SetWait(S, status, tested) = [R EXCEPT !.status = status, !.tested = tested]
    BY <1>1 DEF SetWait
  <2> QED BY <1>2, <2>1 DEF StateRecords
<1>4. ASSUME NEW call, NEW flag
      PROVE  /\ SetProbe(S, call, flag).active = S.active
             /\ SetProbe(S, call, flag).probe_promise = S.probe_promise
  <2>1. PICK pd : pd = [comm |-> call.comm, source |-> call.source, tag |-> call.tag,
                        flag |-> flag]
    OBVIOUS
  <2>2. SetProbe(S, call, flag) = [R EXCEPT !.status = "Probe", !.probe_data = pd]
    BY <1>1, <2>1 DEF SetProbe
  <2> QED BY <1>2, <2>2 DEF StateRecords
<1>5. ASSUME NEW status
      PROVE  /\ [R EXCEPT !.status = status].active = S.active
             /\ [R EXCEPT !.status = status].probe_promise = S.probe_promise
  BY <1>2 DEF StateRecords
<1>6. /\ SetReady(S).active = S.active /\ SetReady(S).probe_promise = S.probe_promise
      /\ SetRunning(S).active = S.active /\ SetRunning(S).probe_promise = S.probe_promise
      /\ SetFinished(S).active = S.active /\ SetFinished(S).probe_promise = S.probe_promise
  BY <1>1, <1>5 DEF SetReady, SetRunning, SetFinished
<1> QED BY <1>3, <1>4, <1>6

LEMMA WaitCarries ==
  ASSUME NEW S \in StateRecords, NEW status, NEW tested
  PROVE  Carries(S, SetWait(S, status, tested))
BY QuietStates, CarriesSame

\* Calls that leave the active requests and the promise alone.
LEMMA QuietCarries ==
  ASSUME IInv, NEW p \in Procs, NEW S, NEW hs, Proceed(p, S, hs),
         S.active = states[p].active, S.probe_promise = states[p].probe_promise
  PROVE  StepCarries
BY CarriesSame, ProceedCarries

LEMMA PostCarries ==
  ASSUME NEW p \in Procs, NEW M, NEW D, NEW S, StateOK(p, S, M, D),
         NEW r \in Requests, Legal(p, r)
  PROVE  Carries(S, SetWait(Activate(S, p, r), "WaitAll", Tested(<<r.id>>)))
<1>1. PICK A : A = Activate(S, p, r)
  OBVIOUS
<1>2. StateOK(p, A, M, D)
  BY <1>1, ActivateOK
<1>3. PICK ids : ids = <<r.id>>
  OBVIOUS
<1>8. Carries(A, SetWait(A, "WaitAll", Tested(ids)))
  <2>1. A \in StateRecords
    BY <1>2 DEF StateOK
  <2> QED BY <2>1, WaitCarries
<1>9. S \in StateRecords
  BY DEF StateOK
<1>10. Carries(S, A)
  BY <1>1, <1>9, ActivateCarries
<1> QED BY <1>1, <1>3, <1>8, <1>10, CarriesOn

-----------------------------------------------------------------------------
(* Calls *)

LEMMA SendCarries ==
  ASSUME IInv, NEW p \in Procs, Send(p)
  PROVE  StepCarries
<1>1. PICK call, r :
         /\ call \in Calls(p, {"Send"})
         /\ r = SendRequest(states[p], p, call.mode, call)
         /\ Proceed(p, SetWait(Activate(states[p], p, r), "WaitAll", Tested(<<r.id>>)), handles[p])
  BY DEF Send
<1> call \in Calls(p, {"Send"})
  BY <1>1
<1>2. call \in MayCall(p) /\ call.op \in {"Send"}
  BY CallIsNext, Zenon
<1>3. r \in Requests /\ Legal(p, r)
  BY <1>1, <1>2, CallFields, ProcessIsOK, SendRequestFits
<1>4. Carries(states[p], SetWait(Activate(states[p], p, r), "WaitAll", Tested(<<r.id>>)))
  BY <1>3, ProcessIsOK, PostCarries
<1> QED BY <1>1, <1>4, ProceedCarries

LEMMA RecvCarries ==
  ASSUME IInv, NEW p \in Procs, Recv(p)
  PROVE  StepCarries
<1>1. PICK call, r :
         /\ call \in Calls(p, {"Recv"})
         /\ r = ReceiveRequest(states[p], p, call)
         /\ Proceed(p, IF call.source = ProcNull THEN states[p]
                       ELSE SetWait(Activate(states[p], p, r), "WaitAll", Tested(<<r.id>>)),
                    handles[p])
  BY DEF Recv
<1> call \in Calls(p, {"Recv"})
  BY <1>1
<1>2. call \in MayCall(p) /\ call.op \in {"Recv"}
  BY CallIsNext, Zenon
<1>3. r \in Requests /\ Legal(p, r)
  BY <1>1, <1>2, CallFields, ProcessIsOK, ReceiveRequestFits
<1>4. Carries(states[p], SetWait(Activate(states[p], p, r), "WaitAll", Tested(<<r.id>>)))
  BY <1>3, ProcessIsOK, PostCarries
<1>5. CASE call.source = ProcNull
  <2>1. Proceed(p, states[p], handles[p])
    BY <1>1, <1>5
  <2> QED BY <2>1, QuietCarries
<1>6. CASE call.source # ProcNull
  <2>1. Proceed(p, SetWait(Activate(states[p], p, r), "WaitAll", Tested(<<r.id>>)), handles[p])
    BY <1>1, <1>6
  <2> QED BY <1>4, <2>1, ProceedCarries
<1> QED BY <1>5, <1>6

LEMMA SendrecvCarries ==
  ASSUME IInv, NEW p \in Procs, Sendrecv(p)
  PROVE  StepCarries
<1>1. PICK call, s, S, c, r :
         /\ call \in Calls(p, {"Sendrecv"})
         /\ s = SendRequest(states[p], p, "Send", call)
         /\ S = Activate(states[p], p, s)
         /\ c = [comm |-> call.comm, source |-> call.source, tag |-> call.recvtag,
                 size |-> call.size]
         /\ r = ReceiveRequest(S, p, c)
         /\ IF call.source = ProcNull THEN Fail("Crash", p, s.id)
            ELSE Proceed(p, SetWait(Activate(S, p, r), "WaitAll", Tested(<<s.id, r.id>>)),
                         handles[p])
  BY DEF Sendrecv
<1> call \in Calls(p, {"Sendrecv"})
  BY <1>1
<1>2. call \in MayCall(p) /\ call.op \in {"Sendrecv"}
  BY CallIsNext, Zenon
<1>3. CASE call.source = ProcNull
  <2>1. Fail("Crash", p, s.id)
    BY <1>1, <1>3
  <2> QED BY <2>1, FailCarries
<1>4. CASE call.source # ProcNull
  <2>1. /\ call.comm \in CommsOf(p) /\ call.target \in Ranks(call.comm) \cup {ProcNull}
        /\ call.tag \in Tags /\ call.size \in Nat
        /\ call.source \in Ranks(call.comm) \cup {ProcNull, AnySource}
        /\ call.recvtag \in Tags \cup {AnyTag} /\ call.source \in Sources(p, call.comm)
    BY <1>2, CallFields
  <2>2. s \in Requests /\ Legal(p, s)
    BY <1>1, <2>1, ProcessIsOK, SendRequestFits
  <2>3. StateOK(p, S, matched, MatchedBy(p, matched))
    BY <1>1, <2>2, ProcessIsOK, ActivateOK
  <2>4. S \in StateRecords /\ IsFiniteSet(S.finished) /\ IsFiniteSet(S.persistent)
    BY <2>3 DEF StateOK
  <2>5. c.comm = call.comm /\ c.source = call.source /\ c.tag = call.recvtag /\ c.size = call.size
    BY <1>1
  <2>6. r \in Requests /\ Legal(p, r)
    BY <1>1, <2>1, <2>4, <2>5, ReceiveRequestFits
  <2>7. PICK A : A = Activate(S, p, r)
    OBVIOUS
  <2>8. StateOK(p, A, matched, MatchedBy(p, matched))
    BY <2>3, <2>6, <2>7, ActivateOK
  <2>9. PICK ids : ids = <<s.id, r.id>>
    OBVIOUS
  <2>12. PICK W : W = SetWait(A, "WaitAll", Tested(ids))
    OBVIOUS
  <2>13. Carries(A, W)
    <3>1. A \in StateRecords
      BY <2>8 DEF StateOK
    <3> QED BY <2>12, <3>1, WaitCarries
  <2>14. Carries(states[p], S) /\ Carries(S, A)
    BY <1>1, <2>2, <2>4, <2>6, <2>7, ProcessIsOK, ActivateCarries
  <2>15. Carries(states[p], W)
    BY <2>13, <2>14, CarriesOn
  <2>16. Proceed(p, W, handles[p])
    BY <1>1, <1>4, <2>7, <2>9, <2>12
  <2> QED BY <2>15, <2>16, ProceedCarries
<1> QED BY <1>3, <1>4

LEMMA IsendCarries ==
  ASSUME IInv, NEW p \in Procs, Isend(p)
  PROVE  StepCarries
<1>1. PICK call, r :
         /\ call \in Calls(p, {"Isend"})
         /\ r = SendRequest(states[p], p, call.mode, call)
         /\ Proceed(p, Activate(states[p], p, r), SetHandle(p, call.slot, r.id))
  BY DEF Isend
<1> call \in Calls(p, {"Isend"})
  BY <1>1
<1>2. call \in MayCall(p) /\ call.op \in {"Isend"}
  BY CallIsNext, Zenon
<1>3. r \in Requests /\ Legal(p, r)
  BY <1>1, <1>2, CallFields, ProcessIsOK, SendRequestFits
<1>4. Carries(states[p], Activate(states[p], p, r))
  BY <1>3, ProcessIsOK, ActivateCarries
<1> QED BY <1>1, <1>4, ProceedCarries

LEMMA IrecvCarries ==
  ASSUME IInv, NEW p \in Procs, Irecv(p)
  PROVE  StepCarries
<1>1. PICK call, r :
         /\ call \in Calls(p, {"Irecv"})
         /\ r = ReceiveRequest(states[p], p, call)
         /\ Proceed(p, Activate(states[p], p, r), SetHandle(p, call.slot, r.id))
  BY DEF Irecv
<1> call \in Calls(p, {"Irecv"})
  BY <1>1
<1>2. call \in MayCall(p) /\ call.op \in {"Irecv"}
  BY CallIsNext, Zenon
<1>3. r \in Requests /\ Legal(p, r)
  BY <1>1, <1>2, CallFields, ProcessIsOK, ReceiveRequestFits
<1>4. Carries(states[p], Activate(states[p], p, r))
  BY <1>3, ProcessIsOK, ActivateCarries
<1> QED BY <1>1, <1>4, ProceedCarries

LEMMA CreatePersistentCarries ==
  ASSUME IInv, NEW p \in Procs, CreatePersistent(p)
  PROVE  StepCarries
<1>1. PICK r, hs : Proceed(p, [states[p] EXCEPT !.persistent = @ \cup {r}], hs)
  BY DEF CreatePersistent
<1>2. PICK T : T = [states[p] EXCEPT !.persistent = @ \cup {r}]
  OBVIOUS
<1>3. T.active = states[p].active /\ T.probe_promise = states[p].probe_promise
  BY <1>2, ProcessIsOK DEF StateRecords
<1> QED BY <1>1, <1>2, <1>3, QuietCarries

LEMMA Request_freeCarries ==
  ASSUME IInv, NEW p \in Procs, Request_free(p)
  PROVE  StepCarries
<1>1. PICK id, name, hs : \/ Fail(name, p, id)
                          \/ Proceed(p, [states[p] EXCEPT !.persistent = {r \in @ : r.id # id}], hs)
  BY DEF Request_free
<1>2. PICK T : T = [states[p] EXCEPT !.persistent = {r \in @ : r.id # id}]
  OBVIOUS
<1>3. T.active = states[p].active /\ T.probe_promise = states[p].probe_promise
  BY <1>2, ProcessIsOK DEF StateRecords
<1> QED BY <1>1, <1>2, <1>3, QuietCarries, FailCarries

\* Starting several requests one after the other.
LEMMA StartedCarries ==
  ASSUME NEW p \in Procs, NEW M, NEW D, NEW S, StateOK(p, S, M, D),
         NEW ids, NEW n \in Nat, n = Len(ids), \A k \in 1 .. n : ids[k] \in Ids(S.persistent)
  PROVE  Carries(S, Started(S, p, ids))
<1>1. PICK f : /\ f[0] = S /\ f[n] = Started(S, p, ids)
               /\ \A k \in 1 .. n : \E r \in S.persistent :
                    r.id = ids[k] /\ f[k] = Activate(f[k - 1], p, r)
  BY StartedBySteps
<1>2. \A r \in S.persistent : r \in Requests /\ Legal(p, r)
  BY DEF StateOK, StateRecords
<1>3. PICK Bad : Bad = {k \in 0 .. n : ~(StateOK(p, f[k], M, D) /\ Carries(S, f[k]))}
  OBVIOUS
<1>4. Bad = {}
  <2> SUFFICES ASSUME Bad # {} PROVE FALSE
    OBVIOUS
  <2>1. PICK m \in Bad : \A k \in Bad : m <= k
    <3>1. Bad \in SUBSET Nat
      BY <1>3
    <3> QED BY <3>1, SmallestNumber
  <2>2. m # 0
    BY <1>1, <1>3, <2>1, CarriesSame
  <2>3. m \in 1 .. n /\ m - 1 \in 0 .. n /\ ~(m <= m - 1)
    BY <1>3, <2>1, <2>2
  <2>4. StateOK(p, f[m - 1], M, D) /\ Carries(S, f[m - 1])
    BY <1>3, <2>1, <2>3
  <2>5. PICK r \in S.persistent : f[m] = Activate(f[m - 1], p, r)
    BY <1>1, <2>3
  <2>6. StateOK(p, f[m], M, D)
    BY <1>2, <2>4, <2>5, ActivateOK
  <2>7. Carries(f[m - 1], f[m])
    <3>1. f[m - 1] \in StateRecords
      BY <2>4 DEF StateOK
    <3> QED BY <1>2, <2>5, <3>1, ActivateCarries
  <2>8. Carries(S, f[m])
    BY <2>4, <2>7, CarriesOn
  <2> QED BY <1>3, <2>1, <2>6, <2>8
<1>5. n \in 0 .. n
  OBVIOUS
<1> QED BY <1>1, <1>3, <1>4, <1>5

LEMMA StartCarries ==
  ASSUME IInv, NEW p \in Procs, Start(p)
  PROVE  StepCarries
<1>1. PICK call, S, ids, refused, name, id :
         /\ call \in Calls(p, {"Start", "Startall"})
         /\ S = states[p]
         /\ ids = [i \in DOMAIN call.slots |-> handles[p][call.slots[i]]]
         /\ refused = {i \in DOMAIN ids : ~IsPersistent(S, ids[i])
                                           \/ ids[i] \in Ids(LiveRequests(S))}
         /\ IF refused # {} THEN Fail(name, p, id) ELSE Proceed(p, Started(S, p, ids), handles[p])
  BY DEF Start
<1> call \in Calls(p, {"Start", "Startall"})
  BY <1>1
<1>2. call \in MayCall(p) /\ call.op \in {"Start", "Startall"}
  BY CallIsNext, Zenon
<1>3. call.slots \in Seq(1 .. Slots)
  BY <1>2, CallFields
<1>4. PICK n \in Nat : n = Len(call.slots) /\ DOMAIN call.slots = 1 .. n
  BY <1>3, LenProperties
<1>5. ids \in [1 .. n -> Int]
  <2>1. \A i \in 1 .. n : call.slots[i] \in 1 .. Slots
    BY <1>3, <1>4, ElementOfSeq
  <2> QED BY <1>1, <1>4, <2>1, HandlesAreNumbers
<1>6. n = Len(ids) /\ DOMAIN ids = 1 .. n
  <2>1. DOMAIN ids = 1 .. n
    BY <1>5
  <2>2. ids \in Seq(Int)
    BY <1>5, SeqDef
  <2> QED BY <2>1, <2>2, LenProperties
<1>7. CASE refused # {}
  BY <1>1, <1>7, FailCarries
<1>8. CASE refused = {}
  <2>1. \A k \in 1 .. n : ids[k] \in Ids(S.persistent)
    BY <1>1, <1>6, <1>8 DEF IsPersistent
  <2>2. Proceed(p, Started(S, p, ids), handles[p])
    BY <1>1, <1>8
  <2>3. StateOK(p, S, matched, MatchedBy(p, matched))
    BY <1>1, ProcessIsOK
  <2>4. Carries(S, Started(S, p, ids))
    BY <1>6, <2>1, <2>3, StartedCarries
  <2> QED BY <1>1, <2>2, <2>4, ProceedCarries
<1> QED BY <1>7, <1>8

LEMMA ProbeCarries ==
  ASSUME IInv, NEW p \in Procs, Probe(p) \/ Iprobe(p)
  PROVE  StepCarries
<1>1. PICK call, T, hs, flag :
         /\ Proceed(p, T, hs)
         /\ T \in {states[p], SetReady(states[p]), SetProbe(states[p], call, flag)}
  BY DEF Probe, Iprobe
<1>2. T.active = states[p].active /\ T.probe_promise = states[p].probe_promise
  BY <1>1, ProcessIsOK, QuietStates
<1> QED BY <1>1, <1>2, QuietCarries

LEMMA WaitsCarry ==
  ASSUME IInv, NEW p \in Procs,
         Wait(p) \/ Waitall(p) \/ WaitForSome(p) \/ Test(p) \/ Testall(p)
  PROVE  StepCarries
<1>1. PICK T, hs, status, tested, name, id :
         \/ Fail(name, p, id)
         \/ Proceed(p, T, hs) /\ T \in {states[p], SetWait(states[p], status, tested)}
  <2>1. CASE Wait(p)
    BY <2>1 DEF Wait
  <2>2. CASE Waitall(p)
    BY <2>2 DEF Waitall
  <2>3. CASE WaitForSome(p)
    BY <2>3 DEF WaitForSome
  <2>4. CASE Test(p)
    BY <2>4 DEF Test
  <2>5. CASE Testall(p)
    BY <2>5 DEF Testall
  <2> QED BY <2>1, <2>2, <2>3, <2>4, <2>5
<1>2. CASE Fail(name, p, id)
  BY <1>2, FailCarries
<1>3. CASE Proceed(p, T, hs) /\ T \in {states[p], SetWait(states[p], status, tested)}
  <2>1. T.active = states[p].active /\ T.probe_promise = states[p].probe_promise
    BY <1>3, ProcessIsOK, QuietStates
  <2> QED BY <1>3, <2>1, QuietCarries
<1> QED BY <1>1, <1>2, <1>3

LEMMA ExitCarries ==
  ASSUME IInv, NEW p \in Procs, Exit(p)
  PROVE  StepCarries
<1>1. states' = [states EXCEPT ![p] = SetFinished(@)] /\ phase' = "match" /\ DOMAIN states = Procs
  BY DEF Exit, IInv
<1>2. \A q \in Procs : states'[q] = IF q = p THEN SetFinished(states[p]) ELSE states[q]
  BY <1>1
<1>3. Carries(states[p], SetFinished(states[p]))
  BY ProcessIsOK, QuietStates, CarriesSame
<1> QED BY <1>1, <1>2, <1>3, CarriesSame DEF StepCarries

LEMMA CallsCarry ==
  ASSUME IInv, NEW p \in Procs, Step(p)
  PROVE  StepCarries
BY SendCarries, RecvCarries, SendrecvCarries, IsendCarries, IrecvCarries,
   CreatePersistentCarries, StartCarries, Request_freeCarries, ProbeCarries, WaitsCarry,
   ExitCarries DEF Step

-----------------------------------------------------------------------------
(* Matchings *)

\* What a matching takes away: from dst the receive r, from src the message s.
Taken(dst, src, r, s) ==
  /\ r \in Receives(states[dst]) /\ s \in Sends(states[src])
  /\ Fits(s, dst, r.comm, r.tag)
  /\ \A p \in Procs :
       /\ states'[p].probe_promise = states[p].probe_promise
       /\ Receives(states'[p]) \subseteq Receives(states[p])
       /\ \A x \in Sends(states[p]) : (p = src /\ x = s) \/ x \in Sends(states'[p])

LEMMA StaysActive ==
  ASSUME NEW X, NEW a \in Seq(X), NEW i \in DOMAIN a, NEW t, t = RemoveAt(a, i)
  PROVE  ToSet(t) \subseteq ToSet(a) /\ \A x \in ToSet(a) : x = a[i] \/ x \in ToSet(t)
<1>1. i \in 1 .. Len(a)
  BY LenProperties
<1>2. OthersStay(a, i, t)
  BY <1>1, WhatStays
<1> QED BY <1>2 DEF ToSet, OthersStay

LEMMA MatchingTakes ==
  ASSUME IInv, NEW dst \in Procs, NEW src \in Procs, NEW i \in OpenReceives(dst),
         FirstSend(src, dst, states[dst].active[i]) # 0, ApplyMatching(dst, i, src)
  PROVE  \E s : Taken(dst, src, states[dst].active[i], s)
<1>1. PICK S, Q, r, s :
         /\ S = states[dst] /\ Q = states[src] /\ r = S.active[i]
         /\ s = Q.active[FirstSend(src, dst, r)]
  OBVIOUS
<1>2. /\ i \in DOMAIN S.active /\ IsReceive(r) /\ r \in Requests
      /\ s \in Requests /\ s \in ToSet(Q.active) /\ IsSend(s)
      /\ Fits(s, dst, r.comm, r.tag)
  BY <1>1, FirstSendIsActive
<1>3. S \in StateRecords /\ Q \in StateRecords /\ states \in [Procs -> StateRecords]
  BY <1>1 DEF IInv
<1>4. PICK b \in [pid : Procs \cup {-1}, serial : Nat, size : Nat] : b = s.buffer
  BY <1>2 DEF Requests
<1>5. PICK R : R = FinishReceive(S, i, b)
  OBVIOUS
<1>6. R \in StateRecords /\ R.active = RemoveAt(S.active, i) /\ R.probe_promise = S.probe_promise
  <2>1. PICK x : x = [S.active[i] EXCEPT !.buffer = b]
    OBVIOUS
  <2>2. i \in DOMAIN S.active /\ S \in StateRecords
    BY <1>2, <1>3
  <2>3. Loses(S, R, i, S.finished \cup {x})
    BY <1>5, <2>1, <2>2, FinishReceiveFields
  <2> QED BY <2>3 DEF Loses
<1>7. /\ Receives(R) \subseteq Receives(S)
      /\ \A x \in Sends(S) : x \in Sends(R)
  <2>1. S.active \in Seq(Requests)
    BY <1>3 DEF StateRecords
  <2>2. /\ ToSet(R.active) \subseteq ToSet(S.active)
        /\ \A x \in ToSet(S.active) : x = r \/ x \in ToSet(R.active)
    <3>1. PICK a \in Seq(Requests), t \in {R.active} : a = S.active
      BY <2>1
    <3>2. i \in DOMAIN a /\ a[i] = r /\ t = RemoveAt(a, i)
      BY <1>1, <1>2, <1>6, <3>1
    <3>3. ToSet(t) \subseteq ToSet(a) /\ \A x \in ToSet(a) : x = r \/ x \in ToSet(t)
      BY <3>2, StaysActive
    <3> QED BY <3>1, <3>3
  <2> QED BY <1>2, <2>2 DEF Receives, Sends, IsSend
<1>8. PICK V : V = [states EXCEPT ![dst] = R]
  OBVIOUS
<1>9. V \in [Procs -> StateRecords] /\ \A p \in Procs : V[p] = IF p = dst THEN R ELSE states[p]
  BY <1>3, <1>6, <1>8
<1>10. s \in ToSet(V[src].active)
  BY <1>1, <1>2, <1>7, <1>9 DEF Sends
<1>11. PICK F, T : T = V[src] /\ F = FinishSend(T, s)
  OBVIOUS
<1>12. /\ F \in StateRecords /\ F.probe_promise = T.probe_promise
       /\ \E k \in DOMAIN T.active : T.active[k] = s /\ F.active = RemoveAt(T.active, k)
  <2>1. T \in StateRecords /\ s \in ToSet(T.active)
    BY <1>9, <1>10, <1>11
  <2>3. PICK f : f = IF s.type = TypeRendezvous THEN T.finished \cup {s} ELSE T.finished
    OBVIOUS
  <2>4. \E k \in DOMAIN T.active : T.active[k] = s /\ Loses(T, F, k, f)
    BY <1>11, <2>1, <2>3, FinishSendFields
  <2> QED BY <2>4 DEF Loses
<1>13. /\ Receives(F) \subseteq Receives(T)
       /\ \A x \in Sends(T) : x = s \/ x \in Sends(F)
  <2>1. PICK k \in DOMAIN T.active : T.active[k] = s /\ F.active = RemoveAt(T.active, k)
    BY <1>12
  <2>2. T.active \in Seq(Requests)
    BY <1>9, <1>11 DEF StateRecords
  <2>3. /\ ToSet(F.active) \subseteq ToSet(T.active)
        /\ \A x \in ToSet(T.active) : x = s \/ x \in ToSet(F.active)
    BY <2>1, <2>2, StaysActive
  <2> QED BY <2>3 DEF Receives, Sends
<1>14. states' = [V EXCEPT ![src] = F]
  BY <1>1, <1>3, <1>4, <1>5, <1>8, <1>9, <1>11 DEF ApplyMatching
<1>15. \A p \in Procs : states'[p] = IF p = src THEN F ELSE V[p]
  BY <1>9, <1>14
<1>16. r \in Receives(states[dst]) /\ s \in Sends(states[src])
  BY <1>1, <1>2 DEF Receives, Sends, ToSet
<1>17. ASSUME NEW p \in Procs
       PROVE  /\ states'[p].probe_promise = states[p].probe_promise
              /\ Receives(states'[p]) \subseteq Receives(states[p])
              /\ \A x \in Sends(states[p]) : (p = src /\ x = s) \/ x \in Sends(states'[p])
  <2>1. /\ V[p].probe_promise = states[p].probe_promise
        /\ Receives(V[p]) \subseteq Receives(states[p])
        /\ Sends(states[p]) \subseteq Sends(V[p])
    BY <1>1, <1>6, <1>7, <1>9
  <2>2. CASE p = src
    BY <1>11, <1>12, <1>13, <1>15, <2>1, <2>2
  <2>3. CASE p # src
    BY <1>15, <2>1, <2>3
  <2> QED BY <2>2, <2>3
<1>18. Taken(dst, src, r, s)
  BY <1>2, <1>16, <1>17 DEF Taken
<1> QED BY <1>1, <1>18

\* A promise goes on if its message does.
LEMMA PromiseGoesOn ==
  ASSUME NEW st, NEW tt, NEW p \in Procs, PromiseOK(st, p),
         tt[p].probe_promise = st[p].probe_promise,
         Receives(tt[p]) \subseteq Receives(st[p]),
         st[p].probe_promise # NoPromise =>
           \A s \in Sends(st[RankToPid(st[p].probe_promise.comm, st[p].probe_promise.rank)]) :
             Keeps(p, st[p], st[p].probe_promise, s) =>
               s \in Sends(tt[RankToPid(st[p].probe_promise.comm, st[p].probe_promise.rank)])
  PROVE  PromiseOK(tt, p)
<1>1. PICK pr, q : pr = st[p].probe_promise /\ q = RankToPid(pr.comm, pr.rank)
  OBVIOUS
<1> SUFFICES ASSUME pr # NoPromise
             PROVE  /\ pr.comm \in CommsOf(p) /\ pr.rank \in Ranks(pr.comm)
                    /\ \E s \in Sends(tt[q]) : Keeps(p, tt[p], pr, s)
  BY <1>1 DEF PromiseOK
<1>2. pr.comm \in CommsOf(p) /\ pr.rank \in Ranks(pr.comm)
  BY <1>1 DEF PromiseOK
<1>3. PICK s \in Sends(st[q]) : Keeps(p, st[p], pr, s)
  BY <1>1 DEF PromiseOK
<1>4. s \in Sends(tt[q])
  BY <1>1, <1>3
<1>5. Keeps(p, tt[p], pr, s)
  BY <1>3 DEF Keeps
<1> QED BY <1>2, <1>4, <1>5

\* No matching takes the message of a promise: the receive would have to take it.
LEMMA MatchingLeavesPromises ==
  ASSUME IInv, PInv, NEW dst \in Procs, NEW src \in Procs, NEW r, NEW s,
         Taken(dst, src, r, s),
         r.peer = AnySource \/ (r.peer \in Ranks(r.comm) /\ RankToPid(r.comm, r.peer) = src),
         NEW p \in Procs
  PROVE  PromiseOK(states', p)
<1>1. PICK pr, q : pr = states[p].probe_promise /\ q = RankToPid(pr.comm, pr.rank)
  OBVIOUS
<1>2. PromiseOK(states, p)
  BY DEF PInv
<1>3. /\ states'[p].probe_promise = states[p].probe_promise
      /\ Receives(states'[p]) \subseteq Receives(states[p])
      /\ \A x \in Sends(states[q]) : q \in Procs => (q = src /\ x = s) \/ x \in Sends(states'[q])
  BY DEF Taken
<1>4. ASSUME pr # NoPromise, NEW x \in Sends(states[q]), Keeps(p, states[p], pr, x)
      PROVE  x \in Sends(states'[q])
  <2>1. pr.comm \in Comms /\ pr.rank \in Ranks(pr.comm)
    BY <1>1, <1>2, <1>4 DEF PromiseOK, CommsOf
  <2>2. q \in Procs
    BY <1>1, <2>1, RanksArePids
  <2>3. CASE q = src /\ x = s
    <3>1. /\ Fits(s, dst, r.comm, r.tag) /\ Fits(s, p, pr.comm, pr.tag)
      BY <1>4, <2>3 DEF Taken, Keeps
    <3>2. dst = p /\ s.comm = r.comm /\ s.comm = pr.comm /\ r.tag \in {s.tag, AnyTag}
      BY <3>1 DEF Fits
    <3>3. r.peer \in {AnySource, pr.rank}
      BY <1>1, <2>1, <2>3, <3>2, RanksArePids
    <3>4. r \in Receives(states[p])
      BY <3>2 DEF Taken
    <3>5. Takes(r, s, pr.rank)
      BY <3>2, <3>3 DEF Takes
    <3> QED BY <1>4, <2>3, <3>4, <3>5 DEF Keeps
  <2> QED BY <1>3, <2>2, <2>3
<1> QED BY <1>1, <1>2, <1>3, <1>4, PromiseGoesOn

LEMMA MatchingKeepsPromises ==
  ASSUME IInv, PInv, Match \/ ChooseMatching
  PROVE  PInv'
<1>1. PICK dst \in Procs : \E i \in OpenReceives(dst) : \E src \in Procs :
        /\ FirstSend(src, dst, states[dst].active[i]) # 0
        /\ Names(states[dst].active[i], src) /\ ApplyMatching(dst, i, src)
        /\ phase' = "match"
  BY MatchIsOpen, ChooseMatchingIsOpen
<1>2. PICK i \in OpenReceives(dst) : \E src \in Procs :
        /\ FirstSend(src, dst, states[dst].active[i]) # 0
        /\ Names(states[dst].active[i], src) /\ ApplyMatching(dst, i, src)
        /\ phase' = "match"
  BY <1>1
<1>3. PICK src \in Procs :
        /\ FirstSend(src, dst, states[dst].active[i]) # 0
        /\ Names(states[dst].active[i], src) /\ ApplyMatching(dst, i, src)
        /\ phase' = "match"
  BY <1>2
<1>4. PICK r, s : r = states[dst].active[i] /\ Taken(dst, src, r, s)
  BY <1>3, MatchingTakes
<1>5. r.peer = AnySource \/ (r.peer \in Ranks(r.comm) /\ RankToPid(r.comm, r.peer) = src)
  BY <1>3, <1>4 DEF Names
<1>6. \A p \in Procs : PromiseOK(states', p)
  BY <1>4, <1>5, MatchingLeavesPromises
<1> QED BY <1>3, <1>6 DEF PInv

\* A step that carries all promises keeps them.
LEMMA CarriedPromises ==
  ASSUME IInv, PInv, \A q \in Procs : Carries(states[q], states'[q]), NEW p \in Procs
  PROVE  PromiseOK(states', p)
<1>1. PICK pr, q : pr = states[p].probe_promise /\ q = RankToPid(pr.comm, pr.rank)
  OBVIOUS
<1>2. PromiseOK(states, p)
  BY DEF PInv
<1>3. CASE states'[p].probe_promise = NoPromise
  BY <1>3 DEF PromiseOK
<1>4. CASE states'[p].probe_promise # NoPromise
  <2>1. /\ states'[p].probe_promise = states[p].probe_promise
        /\ Receives(states'[p]) \subseteq Receives(states[p])
    BY <1>4 DEF Carries
  <2>2. ASSUME pr # NoPromise, NEW x \in Sends(states[q]) PROVE x \in Sends(states'[q])
    <3>1. pr.comm \in Comms /\ pr.rank \in Ranks(pr.comm)
      BY <1>1, <1>2, <2>2 DEF PromiseOK, CommsOf
    <3>2. q \in Procs
      BY <1>1, <3>1, RanksArePids
    <3> QED BY <3>2 DEF Carries
  <2> QED BY <1>1, <1>2, <2>1, <2>2, PromiseGoesOn
<1> QED BY <1>3, <1>4

LEMMA SameDeterministic ==
  ASSUME IInv, \A q \in Procs : states'[q].active = states[q].active, NEW p \in Procs
  PROVE  DeterministicReceives(p)' = DeterministicReceives(p)
<1>1. OpenReceives(p)' = OpenReceives(p)
  BY DEF OpenReceives
<1>2. ASSUME NEW q \in Procs, NEW r PROVE FirstSend(q, p, r)' = FirstSend(q, p, r)
  BY DEF FirstSend, SelectInSeq
<1>3. ASSUME NEW i \in OpenReceives(p), states[p].active[i].peer # AnySource
      PROVE  RankToPid(states[p].active[i].comm, states[p].active[i].peer) \in Procs
  <2>1. PICK r : r = states[p].active[i]
    OBVIOUS
  <2>2. r \in ToSet(states[p].active) /\ IsReceive(r)
    BY <2>1 DEF OpenReceives, ToSet
  <2>3. Legal(p, r) /\ r.peer # ProcNull
    BY <2>2, ProcessIsOK DEF StateOK, LiveRequests
  <2>4. r.comm \in Comms /\ r.peer \in Ranks(r.comm)
    BY <1>3, <2>1, <2>2, <2>3 DEF Legal, CommsOf
  <2> QED BY <2>1, <2>4, RanksArePids
<1> QED BY <1>1, <1>2, <1>3 DEF DeterministicReceives

LEMMA ResumeKeepsPromises ==
  ASSUME IInv, PInv, Resume
  PROVE  PInv'
<1>1. \A p \in Procs : DeterministicReceives(p) = {}
  BY DEF Resume, DeterministicPids
<1>2. PICK ready, bad, name, pid :
        \/ Fail(name, pid, 0)
        \/ states' = [p \in Procs |->
             IF p \in ready THEN SetRunning(Close(states[p], DOMAIN states[p].tested))
             ELSE states[p]]
  BY Zenon DEF Resume
<1>3. \A p \in Procs : /\ states'[p].active = states[p].active
                       /\ states'[p].probe_promise = states[p].probe_promise
  <2>1. CASE Fail(name, pid, 0)
    BY <2>1 DEF Fail
  <2>2. CASE states' = [p \in Procs |->
               IF p \in ready THEN SetRunning(Close(states[p], DOMAIN states[p].tested))
               ELSE states[p]]
    <3>1. ASSUME NEW p \in Procs, NEW C, C = Close(states[p], DOMAIN states[p].tested)
          PROVE  /\ SetRunning(C).active = states[p].active
                 /\ SetRunning(C).probe_promise = states[p].probe_promise
      <4>1. StateOK(p, C, matched, MatchedBy(p, matched))
        BY <3>1, ProcessIsOK, CloseOK
      <4>2. C.active = states[p].active /\ C.probe_promise = states[p].probe_promise
        BY <3>1, ProcessIsOK, CloseOK
      <4>3. C \in StateRecords
        BY <4>1 DEF StateOK
      <4> QED BY <4>2, <4>3, QuietStates
    <3> QED BY <2>2, <3>1
  <2> QED BY <1>2, <2>1, <2>2
<1>4. \A p \in Procs : Carries(states[p], states'[p])
  BY <1>3, CarriesSame
<1>5. \A p \in Procs : PromiseOK(states', p)
  BY <1>4, CarriedPromises
<1>6. \A p \in Procs : DeterministicReceives(p)' = {}
  BY <1>1, <1>3, SameDeterministic
<1> QED BY <1>5, <1>6 DEF PInv

LEMMA ChoicesCarry ==
  ASSUME IInv, NEW p \in Procs,
         ChooseWaitAny(p) \/ ChooseWaitSome(p) \/ ChooseTestAll(p) \/ ChooseFlag0(p)
  PROVE  StepCarries
<1>1. CASE ChooseFlag0(p)
  <2>1. states' = [states EXCEPT ![p] = SetReady(@)] /\ phase' = "match" /\ DOMAIN states = Procs
    BY <1>1 DEF ChooseFlag0, IInv
  <2>2. \A q \in Procs : states'[q] = IF q = p THEN SetReady(states[p]) ELSE states[q]
    BY <2>1
  <2>3. Carries(states[p], SetReady(states[p]))
    BY ProcessIsOK, QuietStates, CarriesSame
  <2> QED BY <2>1, <2>2, <2>3, CarriesSame DEF StepCarries
<1>2. CASE ~ChooseFlag0(p)
  <2>1. PICK indices : Complete(p, indices)
    BY <1>2 DEF ChooseWaitAny, ChooseWaitSome, ChooseTestAll
  <2>2. CASE Truncates(states[p], indices)
    <3>1. Fail("MessageTruncated", p, 0)
      BY <2>1, <2>2 DEF Complete
    <3> QED BY <3>1, FailCarries
  <2>3. CASE ~Truncates(states[p], indices)
    <3>1. /\ states' = [states EXCEPT ![p] = SetReady(Close(@, indices))] /\ phase' = "match"
          /\ DOMAIN states = Procs
      BY <2>1, <2>3 DEF Complete, IInv
    <3>2. PICK C : C = Close(states[p], indices)
      OBVIOUS
    <3>3. StateOK(p, C, matched, MatchedBy(p, matched))
      BY <3>2, ProcessIsOK, CloseOK
    <3>4. C.active = states[p].active /\ C.probe_promise = states[p].probe_promise
      BY <3>2, ProcessIsOK, CloseOK
    <3>5. C \in StateRecords
      BY <3>3 DEF StateOK
    <3>6. Carries(states[p], SetReady(C))
      BY <3>4, <3>5, QuietStates, CarriesSame
    <3>7. \A q \in Procs : states'[q] = IF q = p THEN SetReady(C) ELSE states[q]
      BY <3>1, <3>2
    <3> QED BY <3>1, <3>6, <3>7, CarriesSame DEF StepCarries
  <2> QED BY <2>2, <2>3
<1> QED BY <1>1, <1>2

-----------------------------------------------------------------------------
(* Promises are made of messages that no receive may take. *)

LEMMA FirstSendFound ==
  ASSUME NEW p, NEW q \in Procs, NEW r, states[q].active \in Seq(Requests),
         NEW s \in ToSet(states[q].active), Fits(s, p, r.comm, r.tag)
  PROVE  FirstSend(q, p, r) # 0
<1>1. PICK a : a = states[q].active
  OBVIOUS
<1>2. PICK n \in Nat : n = Len(a) /\ DOMAIN a = 1 .. n
  BY <1>1, LenProperties
<1>3. PICK I : I = {i \in 1 .. n : Fits(a[i], p, r.comm, r.tag)}
  OBVIOUS
<1>4. FirstSend(q, p, r) = IF I # {} THEN Min(I) ELSE 0
  BY <1>1, <1>2, <1>3 DEF FirstSend, SelectInSeq
<1>5. I \in SUBSET (1 .. n) /\ I # {}
  BY <1>1, <1>2, <1>3 DEF ToSet
<1>6. PICK k : k = IF I # {} THEN Min(I) ELSE 0
  OBVIOUS
<1>7. k = 0 <=> I = {}
  BY <1>5, <1>6, FirstPlace
<1> QED BY <1>4, <1>5, <1>6, <1>7

\* A message that a receive of the node may take, a probe does not report.
LEMMA NoneTakes ==
  ASSUME IInv, NEW p \in Procs, NEW q \in Procs, DeterministicReceives(p) = {},
         NEW comm \in Comms, NEW tag, NEW s \in ProbedSends(p, q, comm, tag),
         NEW rank \in Ranks(comm), RankToPid(comm, rank) = q,
         NEW r \in Receives(states[p])
  PROVE  ~Takes(r, s, rank)
<1> SUFFICES ASSUME Takes(r, s, rank) PROVE FALSE
  OBVIOUS
<1>1. PICK a \in Seq(Requests) : a = states[p].active
  BY DEF IInv, StateRecords
<1>2. PICK K : K = {i \in DOMAIN a : IsReceive(a[i]) /\ Takes(a[i], s, rank)}
  OBVIOUS
<1>3. K \in SUBSET Nat /\ K # {}
  <2>1. DOMAIN a \subseteq Nat
    BY LenProperties
  <2> QED BY <1>1, <1>2, <2>1 DEF Receives, ToSet
<1>4. PICK i \in K : \A j \in K : i <= j
  BY <1>3, SmallestNumber
<1>5. PICK x : x = a[i]
  OBVIOUS
<1>6. IsReceive(x) /\ Takes(x, s, rank) /\ i \in DOMAIN a /\ x \in ToSet(states[p].active)
  BY <1>1, <1>2, <1>4, <1>5 DEF ToSet
<1>7. /\ s \in ToSet(states[q].active) /\ Fits(s, p, comm, tag)
      /\ ProbeIsPossible(p, comm, s.peer, s.tag)
  BY DEF ProbedSends
<1>8. s.comm = comm /\ x.comm = comm /\ x.tag \in {s.tag, AnyTag}
  BY <1>6, <1>7 DEF Fits, Takes
<1>9. x.peer = rank /\ x.peer # AnySource
  <2>1. x.peer \notin {AnySource, s.peer}
    BY <1>6, <1>7, <1>8 DEF ProbeIsPossible
  <2> QED BY <1>6, <2>1 DEF Takes
<1>10. i \in OpenReceives(p)
  <2>1. ASSUME NEW j \in 1 .. i - 1, IsReceive(a[j]), IsSuppressedBy(x, a[j])
        PROVE  FALSE
    <3>1. PICK y : y = a[j]
      OBVIOUS
    <3>2. /\ y.peer \in {rank, AnySource} /\ y.comm = comm /\ y.tag \in {s.tag, AnyTag}
      BY <1>8, <1>9, <2>1, <3>1 DEF IsSuppressedBy
    <3>3. Takes(y, s, rank)
      BY <1>8, <3>2 DEF Takes
    <3>4. j \in DOMAIN a /\ ~(i <= j)
      <4>1. PICK n \in Nat : DOMAIN a = 1 .. n
        BY LenProperties
      <4> QED BY <1>6, <2>1, <4>1
    <3> QED BY <1>2, <1>4, <2>1, <3>1, <3>3, <3>4
  <2> QED BY <1>1, <1>5, <1>6, <2>1 DEF OpenReceives
<1>11. FirstSend(q, p, x) # 0
  <2>1. Fits(s, p, x.comm, x.tag)
    BY <1>7, <1>8 DEF Fits
  <2>2. states[q].active \in Seq(Requests)
    BY DEF IInv, StateRecords
  <2> QED BY <1>7, <2>1, <2>2, FirstSendFound
<1>12. RankToPid(x.comm, x.peer) = q
  BY <1>8, <1>9
<1>13. i \in DeterministicReceives(p)
  BY <1>1, <1>5, <1>9, <1>10, <1>11, <1>12 DEF DeterministicReceives
<1> QED BY <1>13

\* The rank that is promised to a process has a message for it.
LEMMA PromisableHasMessage ==
  ASSUME IInv, NEW p \in Procs, NEW rank \in Promisable(p)
  PROVE  LET pd == states[p].probe_data
         IN /\ pd.comm \in CommsOf(p) /\ rank \in Ranks(pd.comm)
            /\ ProbedSends(p, RankToPid(pd.comm, rank), pd.comm, pd.tag) # {}
<1>1. PICK S, pd : S = states[p] /\ pd = S.probe_data
  OBVIOUS
<1>2. S.status = "Probe"
  BY <1>1 DEF Promisable
<1>3. WaitIsRecorded(p, S)
  BY <1>1, ProcessIsOK DEF StateOK
<1>4. pd.comm \in CommsOf(p) /\ pd.source \in Ranks(pd.comm) \cup {AnySource}
  BY <1>1, <1>2, <1>3 DEF WaitIsRecorded
<1>5. pd.comm \in Comms
  BY <1>4 DEF CommsOf
<1>6. CASE pd.source = AnySource
  <2>1. rank \in ProbeNondeterministic(p, pd.comm, pd.tag)
    BY <1>1, <1>6 DEF Promisable
  <2>2. PICK q \in Procs : /\ rank = PidToRank(pd.comm, q)
                           /\ ProbedSends(p, q, pd.comm, pd.tag) # {}
    BY <2>1 DEF ProbeNondeterministic
  <2>3. PICK s \in ToSet(states[q].active) : s.comm = pd.comm
    BY <2>2 DEF ProbedSends, Fits
  <2>4. Legal(q, s)
    BY <2>3, ProcessIsOK DEF StateOK, LiveRequests
  <2>5. q \in ToSet(Group[pd.comm])
    BY <2>3, <2>4 DEF Legal, CommsOf
  <2>6. rank \in Ranks(pd.comm) /\ RankToPid(pd.comm, rank) = q
    BY <1>5, <2>2, <2>5, PidsHaveRanks
  <2> QED BY <1>1, <1>4, <2>2, <2>6
<1>7. CASE pd.source # AnySource
  <2>1. rank = pd.source /\ ProbeDeterministic(p, pd.comm, pd.source, pd.tag)
    BY <1>1, <1>7 DEF Promisable
  <2> QED BY <1>1, <1>4, <1>7, <2>1 DEF ProbeDeterministic
<1> QED BY <1>6, <1>7

LEMMA ChoosePromiseKeepsPromises ==
  ASSUME IInv, PInv, NEW p \in Procs, ChoosePromise(p)
  PROVE  PInv'
<1>1. PICK rank, S, T, pr : Promised(p, rank, S, T, pr)
  BY PromiseFields
<1>2. /\ S = states[p] /\ rank \in Promisable(p)
      /\ pr.comm = S.probe_data.comm /\ pr.tag = S.probe_data.tag /\ pr.rank = rank
      /\ T.probe_promise = pr /\ T.active = S.active
      /\ states' = [states EXCEPT ![p] = T]
      /\ phase = "node" /\ phase' = "match"
  BY <1>1 DEF Promised
<1>3. \A q \in Procs : states'[q] = IF q = p THEN T ELSE states[q]
  BY <1>2 DEF IInv
<1>4. \A q \in Procs : /\ Sends(states'[q]) = Sends(states[q])
                       /\ Receives(states'[q]) = Receives(states[q])
  BY <1>2, <1>3 DEF Sends, Receives
<1>5. ASSUME NEW q \in Procs, q # p
      PROVE  PromiseOK(states', q)
  <2>1. PICK x, y : x = states[q].probe_promise /\ y = RankToPid(x.comm, x.rank)
    OBVIOUS
  <2>2. PromiseOK(states, q)
    BY DEF PInv
  <2>3. x # NoPromise => y \in Procs
    <3>1. x # NoPromise => x.comm \in Comms /\ x.rank \in Ranks(x.comm)
      BY <2>1, <2>2 DEF PromiseOK, CommsOf
    <3> QED BY <2>1, <3>1, RanksArePids
  <2>4. x # NoPromise => Sends(states'[y]) = Sends(states[y])
    BY <1>4, <2>3
  <2>5. states'[q].probe_promise = states[q].probe_promise
    BY <1>3, <1>5
  <2> QED BY <1>4, <2>1, <2>2, <2>4, <2>5, PromiseGoesOn
<1>6. PromiseOK(states', p)
  <2>1. PICK comm : comm = pr.comm
    OBVIOUS
  <2>2. /\ comm \in CommsOf(p) /\ rank \in Ranks(comm)
        /\ ProbedSends(p, RankToPid(comm, rank), comm, pr.tag) # {}
    BY <1>2, <2>1, PromisableHasMessage
  <2>3. comm \in Comms
    BY <2>2 DEF CommsOf
  <2>4. PICK q \in Procs : q = RankToPid(comm, rank)
    BY <2>2, <2>3, RanksArePids
  <2>5. PICK s \in ProbedSends(p, q, comm, pr.tag) : TRUE
    BY <2>2, <2>4
  <2>6. s \in Sends(states[q]) /\ Fits(s, p, comm, pr.tag)
    BY <2>5 DEF ProbedSends, Sends, Fits
  <2>7. \A r \in Receives(states[p]) : ~Takes(r, s, rank)
    <3>1. DeterministicReceives(p) = {}
      BY <1>2 DEF PInv
    <3> QED BY <2>2, <2>3, <2>4, <3>1, NoneTakes
  <2>8. s \in Sends(states'[q]) /\ \A r \in Receives(states'[p]) : ~Takes(r, s, rank)
    BY <1>4, <2>6, <2>7
  <2>9. Keeps(p, states'[p], pr, s)
    BY <1>2, <2>1, <2>6, <2>8 DEF Keeps
  <2>10. states'[p].probe_promise = pr
    BY <1>2, <1>3
  <2> QED BY <1>2, <2>1, <2>2, <2>4, <2>8, <2>9, <2>10 DEF PromiseOK
<1> QED BY <1>2, <1>5, <1>6 DEF PInv

-----------------------------------------------------------------------------
(* The theorem *)

LEMMA InitPromises ==
  ASSUME Init
  PROVE  PInv
<1>1. phase = "match" /\ \A p \in Procs : states[p] = InitialState
  BY DEF Init
<1>2. \A p \in Procs : states[p].probe_promise = NoPromise
  BY <1>1 DEF InitialState
<1> QED BY <1>1, <1>2 DEF PInv, PromiseOK

LEMMA NextKeepsPromises ==
  ASSUME IInv, PInv, [Next]_vars
  PROVE  PInv'
<1>1. CASE StepCarries
  <2>1. \A p \in Procs : PromiseOK(states', p)
    BY <1>1, CarriedPromises DEF StepCarries
  <2> QED BY <1>1, <2>1 DEF PInv, StepCarries
<1>2. CASE Match \/ ChooseMatching
  BY <1>2, MatchingKeepsPromises
<1>3. CASE Resume
  BY <1>3, ResumeKeepsPromises
<1>4. CASE \E p \in Procs : ChoosePromise(p)
  BY <1>4, ChoosePromiseKeepsPromises
<1>5. CASE Conclude
  <2>1. states' = states /\ phase' # "node"
    BY <1>5 DEF Conclude
  <2> QED BY <2>1 DEF PInv
<1>6. CASE UNCHANGED vars
  <2>1. states' = states /\ phase' = phase
    BY <1>6 DEF vars
  <2>2. \A p \in Procs : DeterministicReceives(p)' = DeterministicReceives(p)
    BY <2>1, SameDeterministic
  <2> QED BY <2>1, <2>2 DEF PInv
<1>7. \/ StepCarries \/ Match \/ ChooseMatching \/ Resume \/ Conclude \/ UNCHANGED vars
      \/ \E p \in Procs : ChoosePromise(p)
  BY CallsCarry, ChoicesCarry DEF Next, Stop
<1> QED BY <1>1, <1>2, <1>3, <1>4, <1>5, <1>6, <1>7

LEMMA PInvBacks ==
  ASSUME IInv, PInv
  PROVE  PromisesAreBacked
<1> SUFFICES ASSUME NEW p \in Procs, states[p].probe_promise # NoPromise
             PROVE  PromiseIsBacked(p)
  BY DEF PromisesAreBacked
<1>1. PICK pr, q : pr = states[p].probe_promise /\ q = RankToPid(pr.comm, pr.rank)
  OBVIOUS
<1>2. PICK s \in Sends(states[q]) : Keeps(p, states[p], pr, s)
  BY <1>1 DEF PInv, PromiseOK
<1>3. s \in ToSet(states[q].active) /\ Fits(s, p, pr.comm, pr.tag) /\ s.comm = pr.comm
  BY <1>2 DEF Sends, Keeps, Fits
<1>4. ProbeIsPossible(p, pr.comm, s.peer, s.tag)
  BY <1>2, <1>3 DEF ProbeIsPossible, Keeps, Takes, Receives
<1>5. s \in ProbedSends(p, q, pr.comm, pr.tag)
  BY <1>3, <1>4 DEF ProbedSends
<1> QED BY <1>1, <1>5 DEF PromiseIsBacked, ProbeDeterministic

\* While a process holds the promise of a probe, the promised message has been sent, has
\* not been received and is not one that a receive of the process may take: whatever the
\* processes do in between, continue_probe answers the probe with the promised message.
THEOREM PromisesAreKept == Spec => []PromisesAreBacked
<1>1. Init => PInv
  BY InitPromises
<1>2. IInv /\ PInv /\ [Next]_vars => PInv'
  BY NextKeepsPromises
<1>3. IInv /\ PInv => PromisesAreBacked
  BY PInvBacks
<1> QED BY <1>1, <1>2, <1>3, RequestsAreAccounted, PTL DEF Spec


-----------------------------------------------------------------------------
(***************************************************************************)
(* Proof that a reported deadlock is one, for programs that do not probe a *)
(* communicator on which they receive from themselves: the verifier answers*)
(* such a probe wrongly.                                                   *)
(***************************************************************************)
\* No process can go on by itself, and none runs.
AtRest ==
  \A p \in Procs :
    /\ DeterministicReceives(p) = {}
    /\ ~Resumable(p)
    /\ states[p].status # "Running"

\* The inductive strengthening of DeadlockIsReal: the worker comes to a node when all
\* processes are at rest, and reports a deadlock when the node has no actions.
DInv ==
  /\ phase \in {"node", "deadlock"} => AtRest
  /\ phase = "deadlock" => NoActions

\* A process that probes a communicator does not receive from itself there: both probe
\* functions compare the sources of its receives with its own rank.
ProbedIsNotOwn ==
  \A p \in Procs : \A c \in Probed(p) : PidToRank(c, p) \notin Sources(p, c)

-----------------------------------------------------------------------------
(* DInv is an invariant *)

LEMMA SameProbed ==
  ASSUME states' = states, NEW p, NEW q, NEW comm, NEW tag
  PROVE  ProbedSends(p, q, comm, tag)' = ProbedSends(p, q, comm, tag)
BY DEF ProbedSends, ProbeIsPossible

LEMMA SameResumable ==
  ASSUME states' = states, NEW p
  PROVE  Resumable(p)' <=> Resumable(p)
<1>1. \A comm, source, tag :
        ProbeDeterministic(p, comm, source, tag)' <=> ProbeDeterministic(p, comm, source, tag)
  BY SameProbed DEF ProbeDeterministic
<1> QED BY <1>1 DEF Resumable

LEMMA SameActions ==
  ASSUME IInv, states' = states
  PROVE  NoActions' <=> NoActions
<1>1. ASSUME NEW p \in Procs
      PROVE  NondeterministicMatches(p)' = NondeterministicMatches(p)
  <2>1. OpenReceives(p)' = OpenReceives(p)
    BY DEF OpenReceives
  <2>2. ASSUME NEW q, NEW r PROVE FirstSend(q, p, r)' = FirstSend(q, p, r)
    BY DEF FirstSend, SelectInSeq
  <2> QED BY <2>1, <2>2 DEF NondeterministicMatches
<1>2. ASSUME NEW p \in Procs
      PROVE  Promisable(p)' = Promisable(p)
  <2>1. \A comm, source, tag :
          ProbeDeterministic(p, comm, source, tag)' <=> ProbeDeterministic(p, comm, source, tag)
    BY SameProbed DEF ProbeDeterministic
  <2>2. \A comm, tag :
          ProbeNondeterministic(p, comm, tag)' = ProbeNondeterministic(p, comm, tag)
    BY SameProbed DEF ProbeNondeterministic
  <2> QED BY <2>1, <2>2 DEF Promisable
<1> QED BY <1>1, <1>2 DEF NoActions

LEMMA SameRest ==
  ASSUME IInv, states' = states
  PROVE  AtRest' <=> AtRest
<1>1. \A p \in Procs : DeterministicReceives(p)' = DeterministicReceives(p)
  BY SameDeterministic
<1> QED BY <1>1, SameResumable DEF AtRest

\* The worker comes to a node.
LEMMA ResumeComesToRest ==
  ASSUME IInv, Resume
  PROVE  /\ phase' \in {"run", "node", "error"}
         /\ phase' = "node" => states' = states /\ AtRest
<1>1. PICK ready, running, bad :
         /\ ready = {p \in Procs : Resumable(p)}
         /\ running = {p \in Procs : states[p].status = "Running"}
         /\ bad = {p \in ready : \/ BreaksPromise(p)
                                 \/ Truncates(states[p], DOMAIN states[p].tested)}
  OBVIOUS
<1>2. DeterministicPids = {}
  BY DEF Resume
<1>3. CASE bad # {}
  <2>1. phase' = "error"
    BY <1>1, <1>3 DEF Resume, Fail
  <2> QED BY <2>1
<1>4. CASE bad = {}
  <2>1. /\ states' = [p \in Procs |->
              IF p \in ready THEN SetRunning(Close(states[p], DOMAIN states[p].tested))
              ELSE states[p]]
        /\ phase' = IF ready \cup running # {} THEN "run" ELSE "node"
    BY <1>1, <1>4 DEF Resume
  <2>2. CASE ready \cup running # {}
    BY <2>1, <2>2
  <2>3. CASE ready \cup running = {}
    <3>1. phase' = "node" /\ \A p \in Procs : p \notin ready /\ p \notin running
      BY <2>1, <2>3
    <3>2. states \in [Procs -> StateRecords]
      BY DEF IInv
    <3>3. states' = states
      BY <2>1, <3>1, <3>2
    <3>4. AtRest
      BY <1>1, <1>2, <3>1 DEF AtRest, DeterministicPids
    <3> QED BY <3>1, <3>3, <3>4
  <2> QED BY <2>2, <2>3
<1> QED BY <1>3, <1>4

LEMMA StepGoesOn ==
  ASSUME NEW p \in Procs, Step(p)
  PROVE  phase' \in {"match", "error"}
BY DEF Step, Send, Recv, Sendrecv, Isend, Irecv, CreatePersistent, Start, Request_free, Probe,
       Iprobe, Wait, Waitall, WaitForSome, Test, Testall, Exit, Proceed, Fail

LEMMA ChoiceGoesOn ==
  ASSUME NEW p \in Procs,
         \/ ChooseWaitAny(p) \/ ChooseWaitSome(p) \/ ChooseTestAll(p)
         \/ ChooseFlag0(p) \/ ChoosePromise(p)
  PROVE  phase' \in {"match", "error"}
BY DEF ChooseWaitAny, ChooseWaitSome, ChooseTestAll, ChooseFlag0, ChoosePromise, Complete, Fail

LEMMA NextKeepsRest ==
  ASSUME IInv, DInv, [Next]_vars
  PROVE  DInv'
<1>1. CASE phase' \in {"match", "run", "error"}
  BY <1>1 DEF DInv
<1>2. CASE Resume
  <2>1. CASE phase' = "node"
    <3>1. states' = states /\ AtRest
      BY <1>2, <2>1, ResumeComesToRest
    <3> QED BY <2>1, <3>1, SameRest DEF DInv
  <2>2. CASE phase' # "node"
    BY <1>1, <1>2, <2>2, ResumeComesToRest
  <2> QED BY <2>1, <2>2
<1>3. CASE Conclude
  <2>1. phase = "node" /\ NoActions /\ states' = states /\ phase' # "node"
    BY <1>3 DEF Conclude
  <2>2. AtRest' /\ NoActions'
    BY <2>1, SameRest, SameActions DEF DInv
  <2> QED BY <2>1, <2>2 DEF DInv
<1>4. CASE UNCHANGED vars
  <2>1. states' = states /\ phase' = phase
    BY <1>4 DEF vars
  <2> QED BY <2>1, SameRest, SameActions DEF DInv
<1>5. CASE Match \/ ChooseMatching
  <2>1. phase' = "match"
    BY <1>5 DEF Match, ChooseMatching
  <2> QED BY <1>1, <2>1
<1>6. ASSUME NEW p \in Procs, Step(p) PROVE DInv'
  BY <1>1, <1>6, StepGoesOn
<1>7. ASSUME NEW p \in Procs,
             \/ ChooseWaitAny(p) \/ ChooseWaitSome(p) \/ ChooseTestAll(p)
             \/ ChooseFlag0(p) \/ ChoosePromise(p)
      PROVE DInv'
  BY <1>1, <1>7, ChoiceGoesOn
<1> QED BY <1>2, <1>3, <1>4, <1>5, <1>6, <1>7 DEF Next, Stop

-----------------------------------------------------------------------------
(* DInv implies DeadlockIsReal *)

\* Without deterministic and nondeterministic matches, no receive may take a message:
\* the earliest that may is one that no earlier receive suppresses.
LEMMA NothingToTake ==
  ASSUME IInv, NEW p \in Procs, NEW q \in Procs,
         DeterministicReceives(p) = {}, NondeterministicMatches(p) = {},
         NEW r \in ToSet(states[p].active), NEW s \in ToSet(states[q].active)
  PROVE  ~MayTake(p, r, q, s)
<1> SUFFICES ASSUME MayTake(p, r, q, s) PROVE FALSE
  OBVIOUS
<1>1. PICK a \in Seq(Requests) : a = states[p].active
  BY DEF IInv, StateRecords
<1>2. PICK K : K = {i \in DOMAIN a : MayTake(p, a[i], q, s)}
  OBVIOUS
<1>3. PICK n \in Nat : DOMAIN a = 1 .. n
  BY LenProperties
<1>4. K \in SUBSET Nat /\ K # {}
  BY <1>1, <1>2, <1>3 DEF ToSet
<1>5. PICK i \in K : \A j \in K : i <= j
  BY <1>4, SmallestNumber
<1>6. PICK x : x = a[i]
  OBVIOUS
<1>7. MayTake(p, x, q, s) /\ i \in 1 .. n
  BY <1>2, <1>3, <1>5, <1>6
<1>8. /\ IsReceive(x) /\ Fits(s, p, x.comm, x.tag) /\ x.tag \in {s.tag, AnyTag}
      /\ s.comm = x.comm
      /\ x.peer \in {AnySource, PidToRank(x.comm, q)}
  BY <1>7 DEF MayTake, Fits
<1>9. i \in OpenReceives(p)
  <2>1. ASSUME NEW j \in 1 .. i - 1, IsReceive(a[j]), IsSuppressedBy(x, a[j])
        PROVE  FALSE
    <3>1. PICK y : y = a[j]
      OBVIOUS
    <3>2. /\ y.comm = x.comm /\ y.tag \in {s.tag, AnyTag}
          /\ y.peer \in {AnySource, PidToRank(y.comm, q)}
      BY <1>8, <2>1, <3>1 DEF IsSuppressedBy
    <3>3. Fits(s, p, y.comm, y.tag)
      BY <1>8, <3>2 DEF Fits
    <3>4. MayTake(p, y, q, s)
      BY <2>1, <3>1, <3>2, <3>3 DEF MayTake
    <3>5. j \in 1 .. n /\ ~(i <= j)
      BY <1>7, <2>1
    <3> QED BY <1>2, <1>3, <1>5, <3>1, <3>4, <3>5
  <2> QED BY <1>1, <1>3, <1>6, <1>7, <1>8, <2>1 DEF OpenReceives
<1>10. FirstSend(q, p, x) # 0
  <2>1. states[q].active \in Seq(Requests)
    BY DEF IInv, StateRecords
  <2> QED BY <1>8, <2>1, FirstSendFound
<1>11. CASE x.peer = AnySource
  <2>1. <<i, q>> \in NondeterministicMatches(p)
    BY <1>1, <1>6, <1>9, <1>10, <1>11 DEF NondeterministicMatches
  <2> QED BY <2>1
<1>12. CASE x.peer # AnySource
  <2>1. Legal(q, s)
    BY ProcessIsOK DEF StateOK, LiveRequests
  <2>2. x.comm \in Comms /\ q \in ToSet(Group[x.comm])
    BY <1>8, <2>1 DEF Legal, CommsOf
  <2>3. x.peer = PidToRank(x.comm, q) /\ RankToPid(x.comm, PidToRank(x.comm, q)) = q
    BY <1>8, <1>12, <2>2, PidsHaveRanks
  <2>4. RankToPid(x.comm, x.peer) = q
    BY <2>3
  <2>5. i \in DeterministicReceives(p)
    BY <1>1, <1>6, <1>9, <1>10, <1>12, <2>4 DEF DeterministicReceives
  <2> QED BY <2>5
<1> QED BY <1>11, <1>12

\* The rank that a message names is that of its receiver.
LEMMA TargetIsReceiver ==
  ASSUME IInv, NEW p \in Procs, NEW q \in Procs, NEW s \in ToSet(states[q].active),
         NEW comm, NEW tag, Fits(s, p, comm, tag)
  PROVE  /\ comm \in Comms /\ s.comm = comm /\ q \in ToSet(Group[comm])
         /\ s.peer \in Ranks(comm) /\ s.peer = PidToRank(comm, p)
<1>1. /\ s.comm = comm /\ RankToPid(comm, s.peer) = p /\ IsSend(s)
  BY DEF Fits
<1>2. Legal(q, s) /\ s.peer # ProcNull
  BY ProcessIsOK DEF StateOK, LiveRequests
<1>3. comm \in Comms /\ q \in ToSet(Group[comm]) /\ s.peer \in Ranks(comm)
  BY <1>1, <1>2 DEF Legal, CommsOf
<1>4. p \in ToSet(Group[comm])
  <2>1. Len(Group[comm]) \in Nat /\ DOMAIN Group[comm] = 1 .. Len(Group[comm])
    BY <1>3, RanksArePids
  <2>2. s.peer + 1 \in DOMAIN Group[comm] /\ p = Group[comm][s.peer + 1]
    BY <1>1, <1>3, <2>1 DEF Ranks, RankToPid
  <2> QED BY <2>2 DEF ToSet
<1>5. PICK k : k = PidToRank(comm, p)
  OBVIOUS
<1>6. k \in Ranks(comm) /\ RankToPid(comm, k) = p
  BY <1>3, <1>4, <1>5, PidsHaveRanks
<1>7. s.peer = k
  BY <1>1, <1>3, <1>6, RanksArePids
<1> QED BY <1>1, <1>3, <1>5, <1>7

\* A blocking probe that is left has no message that it could report.
LEMMA NothingToProbe ==
  ASSUME IInv, AtRest, NoActions, ProbedIsNotOwn, NEW p \in Procs, NEW q \in Procs
  PROVE  ~Probable(p, q)
<1> SUFFICES ASSUME Probable(p, q) PROVE FALSE
  OBVIOUS
<1>1. PICK S, pd : S = states[p] /\ pd = S.probe_data
  OBVIOUS
<1>2. /\ pd # NoProbe /\ pd.source \in {AnySource, PidToRank(pd.comm, q)}
      /\ \E s \in ToSet(states[q].active) :
           /\ Fits(s, p, pd.comm, pd.tag)
           /\ ~\E r \in ToSet(states[p].active) : MayTake(p, r, q, s)
  BY <1>1 DEF Probable
<1>3. PICK s \in ToSet(states[q].active) :
        /\ Fits(s, p, pd.comm, pd.tag)
        /\ ~\E r \in ToSet(states[p].active) : MayTake(p, r, q, s)
  BY <1>2
<1>4. /\ pd.comm \in Comms /\ s.comm = pd.comm /\ q \in ToSet(Group[pd.comm])
      /\ s.peer \in Ranks(pd.comm) /\ s.peer = PidToRank(pd.comm, p)
  BY <1>3, TargetIsReceiver
<1>5. S.status = "Probe" /\ pd.comm \in Probed(p)
  <2>1. WaitIsRecorded(p, S)
    BY <1>1, ProcessIsOK DEF StateOK
  <2> QED BY <1>1, <1>2, <2>1 DEF WaitIsRecorded
<1>6. ~HasPromise(S)
  BY <1>1, <1>5 DEF AtRest, Resumable
<1>7. s \notin ProbedSends(p, q, pd.comm, pd.tag)
  <2>1. CASE pd.source = AnySource
    <3>1. Promisable(p) = ProbeNondeterministic(p, pd.comm, pd.tag)
      BY <1>1, <1>5, <1>6, <2>1 DEF Promisable
    <3>2. ProbeNondeterministic(p, pd.comm, pd.tag) = {}
      BY <3>1 DEF NoActions
    <3> QED BY <3>2 DEF ProbeNondeterministic
  <2>2. CASE pd.source # AnySource
    <3>1. ~pd.flag
      BY <1>1, <1>5, <1>6 DEF NoActions
    <3>2. ~ProbeDeterministic(p, pd.comm, pd.source, pd.tag)
      BY <1>1, <1>5, <2>2, <3>1 DEF AtRest, Resumable
    <3>3. RankToPid(pd.comm, pd.source) = q
      <4>1. pd.source = PidToRank(pd.comm, q)
        BY <1>2, <2>2
      <4> QED BY <1>4, <4>1, PidsHaveRanks
    <3> QED BY <3>2, <3>3 DEF ProbeDeterministic
  <2> QED BY <2>1, <2>2
<1>8. PICK r \in ToSet(states[p].active) :
        /\ IsReceive(r) /\ r.peer \in {AnySource, s.peer}
        /\ r.tag \in {s.tag, AnyTag} /\ r.comm = pd.comm
  BY <1>3, <1>7 DEF ProbedSends, ProbeIsPossible
<1>9. r.peer = AnySource
  <2>1. Legal(p, r)
    BY ProcessIsOK DEF StateOK, LiveRequests
  <2>2. r.peer \in Sources(p, pd.comm)
    BY <1>8, <2>1 DEF Legal
  <2>3. PidToRank(pd.comm, p) \notin Sources(p, pd.comm)
    BY <1>5 DEF ProbedIsNotOwn
  <2> QED BY <1>4, <1>8, <2>2, <2>3
<1>10. Fits(s, p, r.comm, r.tag)
  BY <1>3, <1>8 DEF Fits
<1>11. MayTake(p, r, q, s)
  BY <1>8, <1>9, <1>10 DEF MayTake
<1> QED BY <1>3, <1>11

\* What a process at rest waits for has not happened.
LEMMA NothingToWaitFor ==
  ASSUME IInv, AtRest, NoActions, NEW p \in Procs
  PROVE  LET S == states[p]
         IN CASE S.status = "WaitAll" -> \E id \in TestedIds(S) : id \notin Ids(S.finished)
              [] S.status \in {"WaitAny", "WaitSome"} -> TestedIds(S) \cap Ids(S.finished) = {}
              [] OTHER -> S.status \in {"Probe", "Finished"}
<1>1. PICK S : S = states[p]
  OBVIOUS
<1>2. S.status \in Statuses
  BY <1>1, ProcessIsOK DEF StateRecords
<1>3. S.status \notin {"Running", "Ready", "Test"}
  BY <1>1 DEF AtRest, Resumable, NoActions
<1>4. CASE S.status = "WaitAll"
  <2>1. ~TestedFinished(S)
    BY <1>1, <1>4 DEF AtRest, Resumable
  <2> QED BY <1>1, <1>4, <2>1 DEF TestedFinished
<1>5. CASE S.status \in {"WaitAny", "WaitSome"}
  <2>1. TestedAndFinished(S) = {}
    BY <1>1, <1>5 DEF NoActions
  <2>2. TestedIds(S) \cap Ids(S.finished) = {}
    BY <2>1 DEF TestedAndFinished, TestedIds, IdsAt
  <2> QED BY <1>1, <1>5, <2>2
<1>6. CASE S.status \in {"Probe", "Finished"}
  BY <1>1, <1>6
<1> QED BY <1>2, <1>3, <1>4, <1>5, <1>6 DEF Statuses, Completing

LEMMA DInvIsReal ==
  ASSUME ProbedIsNotOwn, IInv, DInv
  PROVE  DeadlockIsReal
<1> SUFFICES ASSUME phase = "deadlock" PROVE DeadlockIsReal
  BY DEF DeadlockIsReal
<1>1. AtRest /\ NoActions
  BY DEF DInv
<1>2. \A p, q \in Procs : ~Probable(p, q)
  BY <1>1, NothingToProbe
<1>3. \A p, q \in Procs :
        \A r \in ToSet(states[p].active), s \in ToSet(states[q].active) : ~MayTake(p, r, q, s)
  BY <1>1, NothingToTake DEF AtRest, NoActions
<1>4. \A p \in Procs :
        LET S == states[p]
        IN CASE S.status = "WaitAll" -> \E id \in TestedIds(S) : id \notin Ids(S.finished)
             [] S.status \in {"WaitAny", "WaitSome"} -> TestedIds(S) \cap Ids(S.finished) = {}
             [] OTHER -> S.status \in {"Probe", "Finished"}
  BY <1>1, NothingToWaitFor
<1> QED BY <1>2, <1>3, <1>4 DEF DeadlockIsReal

-----------------------------------------------------------------------------
(* The theorem *)

\* A reported deadlock (errormsg.Deadlock) is one, for any number of processes, programs
\* and protocols: no receive could take a message, no completed request is waited for, and
\* no blocking probe has a message. What the programs must not do is what the run
\* p2p_selfprobe shows to go wrong.
THEOREM ReportedDeadlockIsReal ==
  ASSUME ProbedIsNotOwn
  PROVE  Spec => []DeadlockIsReal
<1>1. Init => DInv
  BY DEF Init, DInv
<1>2. IInv /\ DInv /\ [Next]_vars => DInv'
  BY NextKeepsRest
<1>3. IInv /\ DInv => DeadlockIsReal
  BY DInvIsReal
<1> QED BY <1>1, <1>2, <1>3, RequestsAreAccounted, PTL DEF Spec

=============================================================================
