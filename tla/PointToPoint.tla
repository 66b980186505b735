---------------------------- MODULE PointToPoint ----------------------------
(***************************************************************************)
(* The point-to-point core of the verifier: what MPI calls of the verified *)
(* processes do to the global state (mpi/state.py, mpi/request.py), how    *)
(* sends are matched with receives, and how a worker drives one path of    *)
(* the state space (mpi/worker.py, mpi/gcontext.py, mpi/context.py).       *)
(*                                                                         *)
(* A behaviour is one path: the worker lets the processes run, exhausts    *)
(* the deterministic steps, and at a node takes one of the actions that    *)
(* get_actions lists (the others go to the queue, see module Explorer).    *)
(*                                                                         *)
(* The verified program is data: for each process a sequence of sets of    *)
(* calls; at each position the process makes any one call of the set.      *)
(***************************************************************************)
EXTENDS Integers, Sequences, FiniteSets, SequencesExt

CONSTANTS
  ProcessCount,         \* number of verified processes
  Comms,                \* communicators
  Group,                \* Group[c]: the pids of c in the order of their ranks
  Tags,                 \* tags of messages
  Slots,                \* length of the array of MPI_Request variables
  Programs,             \* the programs to verify
  SendProtocol,         \* "full", "eager", "rendezvous" or "threshold"
  EagerThreshold,       \* used by "threshold" only
  RendezvousThreshold

Procs == 0 .. ProcessCount - 1

ASSUME ProtocolAssumption ==
  /\ ProcessCount \in Nat \ {0}
  /\ Slots \in Nat
  /\ SendProtocol \in {"full", "eager", "rendezvous", "threshold"}
  /\ EagerThreshold \in Nat
  /\ RendezvousThreshold \in Nat

ASSUME GroupAssumption ==
  /\ Comms \subseteq Nat \ {0}
  /\ \A c \in Comms : Group[c] \in Seq(Procs) /\ IsInjective(Group[c])

\* consts.py
AnySource == -43520
AnyTag == -47872
ProcNull == -52224
RequestNull == -56576

Ranks(c) == 0 .. Len(Group[c]) - 1

\* The calls of process p that the checks of check.py let through.
ProgramCalls(p) ==
  LET comms == {c \in Comms : p \in ToSet(Group[c])}
      modes == {"Send", "Ssend", "Bsend"}
      tags == Tags \cup {AnyTag}
      slots == 1 .. Slots
      calls ==
        ((([op : {"Send"}, mode : modes, comm : comms, target : Int, tag : Tags, size : Nat]
           \cup [op : {"Isend", "Send_init"}, mode : modes, comm : comms, target : Int, tag : Tags,
                 size : Nat, slot : slots])
          \cup ([op : {"Recv"}, comm : comms, source : Int, tag : tags, size : Nat]
           \cup [op : {"Irecv", "Recv_init"}, comm : comms, source : Int, tag : tags, size : Nat,
                 slot : slots]))
         \cup ([op : {"Sendrecv"}, comm : comms, target : Int, tag : Tags, source : Int,
                recvtag : tags, size : Nat]
           \cup [op : {"Probe", "Iprobe"}, comm : comms, source : Int, tag : tags]))
        \cup (([op : {"Wait", "Test", "Request_free"}, slot : slots]
           \cup [op : {"Start", "Startall"}, slots : Seq(slots)])
           \cup [op : {"Waitall", "Waitany", "Waitsome", "Testall"}])
  IN {call \in calls :
        /\ "target" \in DOMAIN call => call.target \in Ranks(call.comm) \cup {ProcNull}
        /\ "source" \in DOMAIN call => call.source \in Ranks(call.comm) \cup {ProcNull, AnySource}}

ASSUME ProgramsAssumption ==
  /\ Tags \subseteq Nat
  /\ \A program \in Programs :
       /\ DOMAIN program = Procs
       /\ \A p \in Procs : program[p] \in Seq(SUBSET ProgramCalls(p))

\* request.py: the type of a request is part of its id
TypeReceive == 0
TypeStd == 1
TypeEager == 2
TypeRendezvous == 3
TypesCount == 5

VARIABLES
  states,   \* [Procs -> State]: the State objects of the current gstate
  todo,     \* what is left of the program of each process
  handles,  \* handles[p]: the array of MPI_Request variables of process p
  phase,    \* what the worker does next
  error,    \* the error message that ended the verification
  matched   \* history: the matchings made so far

vars == <<states, todo, handles, phase, error, matched>>

-----------------------------------------------------------------------------
(* Communicators: comm.py. *)

RankToPid(c, rank) == Group[c][rank + 1]

PidToRank(c, pid) == SelectInSeq(Group[c], LAMBDA q : q = pid) - 1

-----------------------------------------------------------------------------
(* The values a State starts with and the blocking status it may have. *)

NoProbe == [comm |-> 0, source |-> 0, tag |-> 0, flag |-> FALSE]
NoPromise == [comm |-> 0, source |-> 0, tag |-> 0, rank |-> -1]

-----------------------------------------------------------------------------
(* Requests.  "buffer" names the VgBuffer with the data: create_message    *)
(* makes it for a send, matching hands it to the receive.  "serial" is a   *)
(* history field: the position in the process's log of activated requests. *)

NoBuffer == [pid |-> -1, serial |-> 0, size |-> 0]

IsReceive(r) == r.type = TypeReceive
IsSend(r) == ~IsReceive(r)

\* Ids of requests of process p and type t.
RequestId(p, t, k) == TypesCount * (ProcessCount * k + p) + t

Ids(requests) == {r.id : r \in requests}
LiveRequests(S) == ToSet(S.active) \cup S.finished
IsPersistent(S, id) == id \in Ids(S.persistent)

\* Mutant of NewRequestId: ids of inactive persistent requests are given away.
NewRequestIdOfLive(S, p, t) ==
  LET used == Ids(LiveRequests(S))
      free(k) == RequestId(p, t, k) \notin used
  IN RequestId(p, t, Min({k \in 1 .. Cardinality(used) + 1 : free(k)}))

\* State.new_request_id: the smallest id that no request of the process has.
NewRequestId(S, p, t) ==
  LET used == Ids(LiveRequests(S) \cup S.persistent)
      free(k) == RequestId(p, t, k) \notin used
  IN RequestId(p, t, Min({k \in 1 .. Cardinality(used) + 1 : free(k)}))

\* mpicalls.get_send_type
SendType(mode, size) ==
  CASE mode = "Ssend" \/ (mode = "Send" /\ SendProtocol = "rendezvous") -> TypeRendezvous
    [] mode = "Bsend" \/ (mode = "Send" /\ SendProtocol = "eager") -> TypeEager
    [] mode = "Send" /\ SendProtocol = "threshold" ->
         IF size < EagerThreshold THEN TypeEager
         ELSE IF size >= RendezvousThreshold THEN TypeRendezvous ELSE TypeStd
    [] OTHER -> TypeStd

\* A request made by call; its peer is a rank.
NewRequest(S, p, type, peer, call) ==
  [id |-> NewRequestId(S, p, type), type |-> type, comm |-> call.comm, peer |-> peer,
   tag |-> call.tag, size |-> call.size, buffer |-> NoBuffer, serial |-> 0]

SendRequest(S, p, mode, call) ==
  NewRequest(S, p, SendType(mode, call.size), call.target, call)

ReceiveRequest(S, p, call) == NewRequest(S, p, TypeReceive, call.source, call)

\* What the history of a process keeps of a request.
Operation(r) ==
  [kind |-> IF IsSend(r) THEN "send" ELSE "receive", comm |-> r.comm,
   peer |-> IF r.peer = AnySource THEN AnySource ELSE RankToPid(r.comm, r.peer), tag |-> r.tag]

\* Mutants of Activate: a rendezvous send is finished at once; a receive leaves the
\* promise of a probe alone.
ActivateFinished(S, p, request) ==
  LET serial == Len(S.log) + 1
      buffer == IF IsSend(request)
                THEN [pid |-> p, serial |-> serial, size |-> request.size]
                ELSE NoBuffer
      r == [request EXCEPT !.serial = serial, !.buffer = buffer]
      T == IF IsReceive(request) THEN [S EXCEPT !.probe_promise = NoPromise] ELSE S
  IN IF request.peer = ProcNull
     THEN [T EXCEPT !.finished = @ \cup {request}]
     ELSE [T EXCEPT !.active = Append(@, r),
                    !.finished = IF IsSend(r) THEN @ \cup {r} ELSE @,
                    !.log = Append(@, Operation(r))]

ActivatePromised(S, p, request) ==
  LET serial == Len(S.log) + 1
      r == [request EXCEPT !.serial = serial,
                           !.buffer = IF IsSend(request)
                                      THEN [pid |-> p, serial |-> serial, size |-> request.size]
                                      ELSE NoBuffer]
  IN IF request.peer = ProcNull
     THEN [S EXCEPT !.finished = @ \cup {request}]
     ELSE [S EXCEPT !.active = Append(@, r),
                    !.finished = IF r.type \in {TypeStd, TypeEager} THEN @ \cup {r} ELSE @,
                    !.log = Append(@, Operation(r))]

\* State.activate_request: S after process p has activated the request.
Activate(S, p, request) ==
  LET serial == Len(S.log) + 1
      buffer == IF IsSend(request)
                THEN [pid |-> p, serial |-> serial, size |-> request.size]
                ELSE NoBuffer
      r == [request EXCEPT !.serial = serial, !.buffer = buffer]
      T == IF IsReceive(request) THEN [S EXCEPT !.probe_promise = NoPromise] ELSE S
  IN IF request.peer = ProcNull
     THEN [T EXCEPT !.finished = @ \cup {request}]
     ELSE [T EXCEPT !.active = Append(@, r),
                    !.finished = IF r.type \in {TypeStd, TypeEager} THEN @ \cup {r} ELSE @,
                    !.log = Append(@, Operation(r))]

-----------------------------------------------------------------------------
(* Matching. *)

\* Mutants of IsSuppressedBy: without the tags, without the communicators.
IsSuppressedByAnyTag(r, e) ==
  /\ r.peer = e.peer \/ e.peer = AnySource
  /\ r.comm = e.comm

IsSuppressedByAnyComm(r, e) ==
  /\ r.peer = e.peer \/ e.peer = AnySource
  /\ r.tag = e.tag \/ e.tag = AnyTag

\* ReceiveRequest.is_suppressed_by: r has to wait for the earlier receive e.
IsSuppressedBy(r, e) ==
  /\ r.peer = e.peer \/ e.peer = AnySource
  /\ r.tag = e.tag \/ e.tag = AnyTag
  /\ r.comm = e.comm

\* The send s goes to process p, on the communicator and with the tag asked for.
Fits(s, p, comm, tag) ==
  /\ IsSend(s)
  /\ s.comm = comm
  /\ RankToPid(comm, s.peer) = p
  /\ tag \in {s.tag, AnyTag}

\* Mutant of FirstSend: the search goes on after a send that fits.
LastSend(q, p, r) ==
  SelectLastInSeq(states[q].active, LAMBDA s : Fits(s, p, r.comm, r.tag))

\* Position of the send of process q that r, a receive of p, takes; 0 if none.
FirstSend(q, p, r) ==
  SelectInSeq(states[q].active, LAMBDA s : Fits(s, p, r.comm, r.tag))

\* Receives of p that no earlier receive suppresses.
OpenReceives(p) ==
  LET active == states[p].active
  IN {i \in DOMAIN active :
        /\ IsReceive(active[i])
        /\ ~\E j \in 1 .. i - 1 : IsReceive(active[j]) /\ IsSuppressedBy(active[i], active[j])}

\* Receives of p that State.find_deterministic_match would match.
DeterministicReceives(p) ==
  {i \in OpenReceives(p) :
     LET r == states[p].active[i]
     IN r.peer # AnySource /\ FirstSend(RankToPid(r.comm, r.peer), p, r) # 0}

DeterministicPids == {p \in Procs : DeterministicReceives(p) # {}}

\* <<i, q>>: receive i of p may take a message of process q.
NondeterministicMatches(p) ==
  {m \in OpenReceives(p) \X Procs :
     LET r == states[p].active[m[1]]
     IN r.peer = AnySource /\ FirstSend(m[2], p, r) # 0}

\* State.finish_receive_request and make_finished_request
FinishReceive(S, i, buffer) ==
  [S EXCEPT !.active = RemoveAt(@, i),
            !.finished = @ \cup {[S.active[i] EXCEPT !.buffer = buffer]}]

\* State.finish_send_request
FinishSend(S, s) ==
  [S EXCEPT !.active = RemoveFirst(@, s),
            !.finished = IF s.type = TypeRendezvous THEN @ \cup {s} ELSE @]

\* Mutant of ApplyMatching: the states of both processes are read before either is
\* changed, so a message to oneself is not taken from the active requests.
ApplyMatchingStale(dst, i, src) ==
  LET r == states[dst].active[i]
      s == states[src].active[FirstSend(src, dst, r)]
  IN /\ states' = [states EXCEPT ![src] = FinishSend(states[src], s),
                                ![dst] = FinishReceive(states[dst], i, s.buffer)]
     /\ matched' = matched \cup
          {[src |-> src, send |-> s.serial, dst |-> dst, recv |-> r.serial]}
     /\ UNCHANGED <<todo, handles, error>>

\* GlobalContext.apply_matching: receive i of process dst takes a message of src.
ApplyMatching(dst, i, src) ==
  LET r == states[dst].active[i]
      s == states[src].active[FirstSend(src, dst, r)]
      received == [states EXCEPT ![dst] = FinishReceive(@, i, s.buffer)]
  IN /\ states' = [received EXCEPT ![src] = FinishSend(@, s)]
     /\ matched' = matched \cup
          {[src |-> src, send |-> s.serial, dst |-> dst, recv |-> r.serial]}
     /\ UNCHANGED <<todo, handles, error>>

-----------------------------------------------------------------------------
(* Probing. *)

\* State.probe_is_possible: no active receive of p takes a message from the rank.
ProbeIsPossible(p, comm, rank, tag) ==
  ~\E r \in ToSet(states[p].active) :
      /\ IsReceive(r)
      /\ r.peer \in {AnySource, rank}
      /\ r.tag \in {tag, AnyTag}
      /\ r.comm = comm

\* Sends of q that a probe by p reports.  Both probe functions of State hand the
\* target of the send, the rank of p itself, to probe_is_possible.
ProbedSends(p, q, comm, tag) ==
  {s \in ToSet(states[q].active) :
     Fits(s, p, comm, tag) /\ ProbeIsPossible(p, comm, s.peer, s.tag)}

ProbeDeterministic(p, comm, source, tag) ==
  ProbedSends(p, RankToPid(comm, source), comm, tag) # {}

ProbeNondeterministic(p, comm, tag) ==
  {PidToRank(comm, q) : q \in {q \in Procs : ProbedSends(p, q, comm, tag) # {}}}

\* State.get_probe_promise: the promise of S answers the probe S waits in.
HasPromise(S) ==
  LET pr == S.probe_promise
      pd == S.probe_data
  IN /\ pr # NoPromise
     /\ pr.comm = pd.comm /\ pr.source = pd.source /\ pr.tag = pd.tag

PromiseIsBacked(p) ==
  LET pr == states[p].probe_promise
  IN ProbeDeterministic(p, pr.comm, pr.rank, pr.tag)

-----------------------------------------------------------------------------
(* Waiting: tested is the array of tested requests; the slot of an entry is  *)
(* where tested_requests_pointer lets closing write MPI_REQUEST_NULL, or 0.  *)

Tested(ids) == [i \in DOMAIN ids |-> [id |-> ids[i], slot |-> 0]]
TestedInPlace(ids) == [i \in DOMAIN ids |-> [id |-> ids[i], slot |-> i]]

IdsAt(S, indices) == {S.tested[i].id : i \in indices} \ {RequestNull}
TestedIds(S) == IdsAt(S, DOMAIN S.tested)

\* Mutant of ResetState: the tested requests are not forgotten.
ResetStateKeepingTests(S) == [S EXCEPT !.probe_data = NoProbe]

ResetState(S) == [S EXCEPT !.tested = <<>>, !.probe_data = NoProbe]
SetReady(S) == [ResetState(S) EXCEPT !.status = "Ready"]
SetRunning(S) == [ResetState(S) EXCEPT !.status = "Running"]
SetFinished(S) == [ResetState(S) EXCEPT !.status = "Finished"]
SetWait(S, status, tested) == [ResetState(S) EXCEPT !.status = status, !.tested = tested]
SetProbe(S, call, flag) ==
  [ResetState(S) EXCEPT !.status = "Probe",
     !.probe_data = [comm |-> call.comm, source |-> call.source, tag |-> call.tag, flag |-> flag]]

TestedFinished(S) == TestedIds(S) \subseteq Ids(S.finished)

WaitsForSingleNonNull(S) ==
  Cardinality({i \in DOMAIN S.tested : S.tested[i].id # RequestNull}) <= 1

TestedAndFinished(S) == {i \in DOMAIN S.tested : S.tested[i].id \in Ids(S.finished)}

\* Mutant of Close: the requests are unpacked and stay in the list.
CloseKeeping(S, indices) ==
  LET done == {r \in S.finished : r.id \in IdsAt(S, indices)}
  IN [S EXCEPT !.closed = @ \cup {r \in done : r.peer # ProcNull}]

\* Context.close_requests: the requests leave the list of finished ones ...
Close(S, indices) ==
  LET done == {r \in S.finished : r.id \in IdsAt(S, indices)}
  IN [S EXCEPT !.finished = @ \ done, !.closed = @ \cup {r \in done : r.peer # ProcNull}]

\* Mutant of FreeHandles: null ids, which stand for inactive persistent requests, are not skipped.
FreeHandlesOfNull(p, indices) ==
  LET S == states[p]
      freed == {S.tested[i].slot : i \in {i \in indices : ~IsPersistent(S, S.tested[i].id)}}
  IN [i \in DOMAIN handles[p] |-> IF i \in freed THEN RequestNull ELSE handles[p][i]]

\* ... the handle of each that is not persistent is freed, and null ids are skipped ...
FreeHandles(p, indices) ==
  LET S == states[p]
      freed == {S.tested[i].slot :
                  i \in {i \in indices : S.tested[i].id # RequestNull /\ ~IsPersistent(S, S.tested[i].id)}}
  IN [i \in DOMAIN handles[p] |-> IF i \in freed THEN RequestNull ELSE handles[p][i]]

\* ... and a message longer than the receive ends the verification.
Truncates(S, indices) ==
  \E r \in S.finished :
    /\ r.id \in IdsAt(S, indices)
    /\ IsReceive(r) /\ r.peer # ProcNull
    /\ r.buffer.size > r.size

Fail(name, p, id) ==
  /\ phase' = "error"
  /\ error' = [name |-> name, pid |-> p, id |-> id]
  /\ UNCHANGED <<states, todo, handles, matched>>

-----------------------------------------------------------------------------
(* Calls of process p (mpicalls.py).  In "run" a worker polls the running    *)
(* controllers; the result of one call is handled, then the worker goes on   *)
(* in continue_in_execution.                                                 *)

\* The calls with one of the names that p may make now.
Calls(p, names) ==
  IF phase = "run" /\ states[p].status = "Running" /\ todo[p] # <<>>
  THEN {call \in Head(todo[p]) : call.op \in names} ELSE {}

\* The call is done: p is left in state S, with its handles in hs.
Proceed(p, S, hs) ==
  /\ states' = [states EXCEPT ![p] = S]
  /\ handles' = [handles EXCEPT ![p] = hs]
  /\ todo' = [todo EXCEPT ![p] = Tail(@)]
  /\ phase' = "match"
  /\ UNCHANGED <<error, matched>>

SetHandle(p, slot, id) == [handles[p] EXCEPT ![slot] = id]

\* MPI_Send, MPI_Ssend, MPI_Rsend, MPI_Bsend
Send(p) == \E call \in Calls(p, {"Send"}) :
  LET r == SendRequest(states[p], p, call.mode, call)
  IN Proceed(p, SetWait(Activate(states[p], p, r), "WaitAll", Tested(<<r.id>>)), handles[p])

\* MPI_Recv
Recv(p) == \E call \in Calls(p, {"Recv"}) :
  LET r == ReceiveRequest(states[p], p, call)
  IN Proceed(p, IF call.source = ProcNull THEN states[p]
                ELSE SetWait(Activate(states[p], p, r), "WaitAll", Tested(<<r.id>>)),
             handles[p])

\* MPI_Sendrecv; call_recv gives no request to wait for if the source is null.
Sendrecv(p) == \E call \in Calls(p, {"Sendrecv"}) :
  LET s == SendRequest(states[p], p, "Send", call)
      S == Activate(states[p], p, s)
      r == ReceiveRequest(S, p, [comm |-> call.comm, source |-> call.source,
                                 tag |-> call.recvtag, size |-> call.size])
  IN IF call.source = ProcNull
     THEN Fail("Crash", p, s.id)
     ELSE Proceed(p, SetWait(Activate(S, p, r), "WaitAll", Tested(<<s.id, r.id>>)), handles[p])

\* MPI_Isend, MPI_Issend, MPI_Irsend, MPI_Ibsend
Isend(p) == \E call \in Calls(p, {"Isend"}) :
  LET r == SendRequest(states[p], p, call.mode, call)
  IN Proceed(p, Activate(states[p], p, r), SetHandle(p, call.slot, r.id))

\* MPI_Irecv
Irecv(p) == \E call \in Calls(p, {"Irecv"}) :
  LET r == ReceiveRequest(states[p], p, call)
  IN Proceed(p, Activate(states[p], p, r), SetHandle(p, call.slot, r.id))

\* MPI_Send_init and its variants, MPI_Recv_init
CreatePersistent(p) == \E call \in Calls(p, {"Send_init", "Recv_init"}) :
  LET r == IF call.op = "Send_init" THEN SendRequest(states[p], p, call.mode, call)
                                    ELSE ReceiveRequest(states[p], p, call)
  IN Proceed(p, [states[p] EXCEPT !.persistent = @ \cup {r}], SetHandle(p, call.slot, r.id))

\* S after p has activated its persistent requests with the ids, one after the other.
Started(S, p, ids) ==
  LET request(id) == CHOOSE r \in S.persistent : r.id = id
      after[k \in 0 .. Len(ids)] ==
        IF k = 0 THEN S ELSE Activate(after[k - 1], p, request(ids[k]))
  IN after[Len(ids)]

\* The error of check.check_persistent_request when id may not be started or freed.
PersistentError(S, id) ==
  IF IsPersistent(S, id) THEN "ActivePersistentRequest"
  ELSE IF id = RequestNull THEN "InvalidPersistentRequest" ELSE "NotPersistentRequest"

\* MPI_Start and MPI_Startall: every request is checked, then every one activated.
Start(p) == \E call \in Calls(p, {"Start", "Startall"}) :
  LET S == states[p]
      ids == [i \in DOMAIN call.slots |-> handles[p][call.slots[i]]]
      refused == {i \in DOMAIN ids : ~IsPersistent(S, ids[i]) \/ ids[i] \in Ids(LiveRequests(S))}
  IN IF refused # {}
     THEN LET id == ids[Min(refused)] IN Fail(PersistentError(S, id), p, id)
     ELSE Proceed(p, Started(S, p, ids), handles[p])

\* MPI_Request_free
Request_free(p) == \E call \in Calls(p, {"Request_free"}) :
  LET S == states[p]
      id == handles[p][call.slot]
  IN IF ~IsPersistent(S, id) THEN Fail(PersistentError(S, id), p, id)
     ELSE Proceed(p, [S EXCEPT !.persistent = {r \in @ : r.id # id}],
                  SetHandle(p, call.slot, RequestNull))

\* MPI_Probe, MPI_Iprobe
Probe(p) == \E call \in Calls(p, {"Probe"}) :
  Proceed(p, IF call.source = ProcNull THEN states[p]
             ELSE SetProbe(states[p], call, FALSE), handles[p])

Iprobe(p) == \E call \in Calls(p, {"Iprobe"}) :
  Proceed(p, IF call.source = ProcNull THEN SetReady(states[p])
             ELSE SetProbe(states[p], call, TRUE), handles[p])

\* check.check_request_id fails for these handles.
Invalid(p, ids) == ToSet(ids) \ (Ids(LiveRequests(states[p])) \cup {RequestNull})

\* The handles with those of non-persistent requests replaced.
Nulled(p, ids) ==
  [i \in DOMAIN ids |-> IF IsPersistent(states[p], ids[i]) THEN ids[i] ELSE RequestNull]

\* MPI_Wait
Wait(p) == \E call \in Calls(p, {"Wait"}) :
  LET id == handles[p][call.slot]
  IN IF Invalid(p, <<id>>) # {} THEN Fail("InvalidRequest", p, id)
     ELSE Proceed(p, SetWait(states[p], "WaitAll", Tested(<<id>>)),
                  SetHandle(p, call.slot, Nulled(p, <<id>>)[1]))

\* MPI_Waitall on the whole array
Waitall(p) == \E call \in Calls(p, {"Waitall"}) :
  LET bad == Invalid(p, handles[p])
  IN IF bad # {} THEN Fail("InvalidRequest", p, Min(bad))
     ELSE Proceed(p, SetWait(states[p], "WaitAll", Tested(handles[p])), Nulled(p, handles[p]))

\* MPI_Waitany and MPI_Waitsome on the whole array: inactive persistent requests
\* count as null handles, and there is nothing to wait for if all are null.
WaitForSome(p) == \E call \in Calls(p, {"Waitany", "Waitsome"}) :
  LET S == states[p]
      bad == {id \in Invalid(p, handles[p]) : ~IsPersistent(S, id)}
      ids == [i \in DOMAIN handles[p] |->
                IF handles[p][i] \in Ids(LiveRequests(S)) THEN handles[p][i] ELSE RequestNull]
      status == IF call.op = "Waitany" THEN "WaitAny" ELSE "WaitSome"
  IN IF bad # {} THEN Fail("InvalidRequest", p, Min(bad))
     ELSE Proceed(p, IF ToSet(ids) \subseteq {RequestNull} THEN S
                     ELSE SetWait(S, status, TestedInPlace(ids)), handles[p])

\* MPI_Test
Test(p) == \E call \in Calls(p, {"Test"}) :
  LET id == handles[p][call.slot]
  IN IF Invalid(p, <<id>>) # {} THEN Fail("InvalidRequest", p, id)
     ELSE Proceed(p, SetWait(states[p], "Test", <<[id |-> id, slot |-> call.slot]>>), handles[p])

\* MPI_Testall on the whole array
Testall(p) == \E call \in Calls(p, {"Testall"}) :
  LET bad == Invalid(p, handles[p])
  IN IF bad # {} THEN Fail("InvalidRequest", p, Min(bad))
     ELSE Proceed(p, SetWait(states[p], "Test", TestedInPlace(handles[p])), handles[p])

\* The process ends (Context.process_run_result).
Exit(p) ==
  /\ phase = "run"
  /\ states[p].status = "Running"
  /\ todo[p] = <<>>
  /\ states' = [states EXCEPT ![p] = SetFinished(@)]
  /\ phase' = "match"
  /\ UNCHANGED <<todo, handles, error, matched>>

Step(p) ==
  \/ Send(p) \/ Recv(p) \/ Sendrecv(p) \/ Isend(p) \/ Irecv(p)
  \/ CreatePersistent(p) \/ Start(p) \/ Request_free(p)
  \/ Probe(p) \/ Iprobe(p)
  \/ Wait(p) \/ Waitall(p) \/ WaitForSome(p) \/ Test(p) \/ Testall(p)
  \/ Exit(p)

-----------------------------------------------------------------------------
(* The worker: Worker.fast_expand and Worker.continue_in_execution. *)

\* The first deterministic match, from the lowest pid.
Match ==
  /\ phase = "match"
  /\ DeterministicPids # {}
  /\ LET p == Min(DeterministicPids)
         i == Min(DeterministicReceives(p))
         r == states[p].active[i]
     IN ApplyMatching(p, i, RankToPid(r.comm, r.peer))
  /\ UNCHANGED phase

\* Worker.fast_expand_state continues process p.
Resumable(p) ==
  LET S == states[p]
      pd == S.probe_data
  IN \/ S.status = "Ready"
     \/ S.status = "WaitAll" /\ TestedFinished(S)
     \/ S.status \in {"WaitAny", "WaitSome"} /\ WaitsForSingleNonNull(S) /\ TestedFinished(S)
     \/ S.status = "Probe" /\ HasPromise(S)
     \/ /\ S.status = "Probe"
        /\ pd.source # AnySource /\ ~pd.flag
        /\ ProbeDeterministic(p, pd.comm, pd.source, pd.tag)

\* continue_probe finds no message.
BreaksPromise(p) ==
  states[p].status = "Probe" /\ HasPromise(states[p]) /\ ~PromiseIsBacked(p)

\* No deterministic match is left: every process that can go on is started; with
\* none running, the path has come to a node.
Resume ==
  /\ phase = "match"
  /\ DeterministicPids = {}
  /\ LET ready == {p \in Procs : Resumable(p)}
         all(p) == DOMAIN states[p].tested
         bad == {p \in ready : BreaksPromise(p) \/ Truncates(states[p], all(p))}
         running == {p \in Procs : states[p].status = "Running"}
     IN IF bad # {}
        THEN LET p == Min(bad)
             IN Fail(IF BreaksPromise(p) THEN "Crash" ELSE "MessageTruncated", p, 0)
        ELSE /\ states' = [p \in Procs |->
                  IF p \in ready THEN SetRunning(Close(states[p], all(p))) ELSE states[p]]
             /\ handles' = [p \in Procs |->
                  IF p \in ready THEN FreeHandles(p, all(p)) ELSE handles[p]]
             /\ phase' = IF ready \cup running # {} THEN "run" ELSE "node"
             /\ UNCHANGED <<todo, error, matched>>

-----------------------------------------------------------------------------
(* A node: the actions of Worker.get_actions, one of which the path takes.   *)
(* Each is applied (action.py) and the worker goes on in fast_expand.        *)

ChooseMatching ==
  /\ phase = "node"
  /\ \E p \in Procs : \E m \in NondeterministicMatches(p) : ApplyMatching(p, m[1], m[2])
  /\ phase' = "match"

\* Close the tested requests of p at the indices and make p ready.
Complete(p, indices) ==
  IF Truncates(states[p], indices) THEN Fail("MessageTruncated", p, 0)
  ELSE /\ states' = [states EXCEPT ![p] = SetReady(Close(@, indices))]
       /\ handles' = [handles EXCEPT ![p] = FreeHandles(p, indices)]
       /\ phase' = "match"
       /\ UNCHANGED <<todo, error, matched>>

ChooseWaitAny(p) ==
  /\ phase = "node"
  /\ states[p].status = "WaitAny"
  /\ \E i \in TestedAndFinished(states[p]) : Complete(p, {i})

ChooseWaitSome(p) ==
  /\ phase = "node"
  /\ states[p].status = "WaitSome"
  /\ \E indices \in SUBSET TestedAndFinished(states[p]) \ {{}} : Complete(p, indices)

ChooseTestAll(p) ==
  /\ phase = "node"
  /\ states[p].status = "Test"
  /\ TestedFinished(states[p])
  /\ Complete(p, DOMAIN states[p].tested)

\* Worker.expand_testall and expand_probe list the answer "no" in any case.
ChooseFlag0(p) ==
  /\ phase = "node"
  /\ \/ states[p].status = "Test"
     \/ states[p].status = "Probe" /\ ~HasPromise(states[p]) /\ states[p].probe_data.flag
  /\ states' = [states EXCEPT ![p] = SetReady(@)]
  /\ phase' = "match"
  /\ UNCHANGED <<todo, handles, error, matched>>

\* The ranks Worker.expand_probe may promise to process p.
Promisable(p) ==
  LET pd == states[p].probe_data
  IN IF states[p].status # "Probe" \/ HasPromise(states[p]) THEN {}
     ELSE IF pd.source = AnySource THEN ProbeNondeterministic(p, pd.comm, pd.tag)
     ELSE IF pd.flag /\ ProbeDeterministic(p, pd.comm, pd.source, pd.tag) THEN {pd.source}
     ELSE {}

ChoosePromise(p) ==
  /\ phase = "node"
  /\ \E rank \in Promisable(p) :
       LET pd == states[p].probe_data
       IN states' = [states EXCEPT ![p].probe_promise =
            [comm |-> pd.comm, source |-> pd.source, tag |-> pd.tag, rank |-> rank]]
  /\ phase' = "match"
  /\ UNCHANGED <<todo, handles, error, matched>>

\* Worker.get_actions lists nothing.
NoActions ==
  \A p \in Procs :
    /\ NondeterministicMatches(p) = {}
    /\ states[p].status \in {"WaitAny", "WaitSome"} => TestedAndFinished(states[p]) = {}
    /\ states[p].status # "Test"
    /\ Promisable(p) = {}
    /\ states[p].status = "Probe" => HasPromise(states[p]) \/ ~states[p].probe_data.flag

\* Worker.continue_in_execution: the end of the program or a deadlock.
Conclude ==
  /\ phase = "node"
  /\ NoActions
  /\ phase' = IF \A p \in Procs : states[p].status = "Finished" THEN "done" ELSE "deadlock"
  /\ UNCHANGED <<states, todo, handles, error, matched>>

Stop ==
  /\ phase \in {"done", "deadlock", "error"}
  /\ UNCHANGED vars

-----------------------------------------------------------------------------
InitialState ==
  [status |-> "Ready", active |-> <<>>, finished |-> {}, persistent |-> {}, tested |-> <<>>,
   probe_data |-> NoProbe, probe_promise |-> NoPromise, log |-> <<>>, closed |-> {}]

Init ==
  /\ states = [p \in Procs |-> InitialState]
  /\ todo \in Programs
  /\ handles = [p \in Procs |-> [i \in 1 .. Slots |-> RequestNull]]
  /\ phase = "match"
  /\ error = [name |-> "none", pid |-> -1, id |-> 0]
  /\ matched = {}

Next ==
  \/ \E p \in Procs : Step(p)
  \/ Match
  \/ Resume
  \/ ChooseMatching
  \/ \E p \in Procs : \/ ChooseWaitAny(p) \/ ChooseWaitSome(p) \/ ChooseTestAll(p)
                      \/ ChooseFlag0(p) \/ ChoosePromise(p)
  \/ Conclude
  \/ Stop

Spec == Init /\ [][Next]_vars

-----------------------------------------------------------------------------
(* Properties *)

Operations ==
  [kind : {"send"}, comm : Comms, peer : Procs, tag : Tags]
    \cup [kind : {"receive"}, comm : Comms, peer : Procs \cup {AnySource},
          tag : Tags \cup {AnyTag}]

Requests ==
  [id : Nat, type : 0 .. TypesCount - 1, comm : Comms, peer : Int, tag : Int, size : Nat,
   buffer : [pid : Procs \cup {-1}, serial : Nat, size : Nat], serial : Nat]

\* The type invariant.
TypeOK ==
  /\ DOMAIN states = Procs
  /\ \A p \in Procs :
       LET S == states[p]
       IN /\ S.status \in {"Running", "Ready", "Finished", "WaitAll", "WaitAny", "WaitSome",
                           "Test", "Probe"}
          /\ LiveRequests(S) \cup S.persistent \cup S.closed \subseteq Requests
          /\ S.log \in Seq(Operations)
          /\ S.tested \in Seq([id : Int, slot : 0 .. Slots])
          /\ S.tested # <<>> => S.status \in {"WaitAll", "WaitAny", "WaitSome", "Test"}
          /\ Slots > 0 /\ S.status \in {"WaitAll", "WaitAny", "WaitSome", "Test"} => S.tested # <<>>
          /\ S.probe_data # NoProbe <=> S.status = "Probe"
          /\ S.probe_promise # NoPromise => S.probe_promise.comm \in Comms
  /\ handles \in [Procs -> [1 .. Slots -> Nat \cup {RequestNull}]]
  /\ phase \in {"run", "match", "node", "done", "deadlock", "error"}
  /\ error.name # "none" <=> phase = "error"

Matched(p, serial) ==
  \E m \in matched : \/ m.src = p /\ m.send = serial
                     \/ m.dst = p /\ m.recv = serial

\* No operation is lost or taken twice: what a process has posted is active
\* (exactly once) or matched, never both; add_request, finish_send_request and
\* finish_receive_request move requests between the lists of two processes.
Conservation ==
  \A p \in Procs : \A i \in DOMAIN states[p].log :
    Cardinality({j \in DOMAIN states[p].active : states[p].active[j].serial = i})
      = IF Matched(p, i) THEN 0 ELSE 1

\* A receive completes, and a synchronous send returns, only after its matching;
\* the buffer a receive unpacks is the message of the send it was matched with.
CompletionFollowsMatching ==
  \A p \in Procs : \A r \in states[p].closed :
    /\ r.type = TypeRendezvous => Matched(p, r.serial)
    /\ IsReceive(r) =>
         \E m \in matched : /\ m.dst = p /\ m.recv = r.serial
                            /\ m.src = r.buffer.pid /\ m.send = r.buffer.serial

\* Ids identify requests: two live requests share an id only if they are the two
\* entries of one buffered send, and a handle of the program that is not null
\* names a request that is live or persistent (new_request_id reuses ids).
IdsAreUnique ==
  \A p, q \in Procs :
    /\ \A r \in LiveRequests(states[p]), s \in LiveRequests(states[q]) :
         r.id = s.id => p = q /\ r = s
    /\ \A r, s \in states[p].persistent : r.id = s.id => r = s
    /\ Range(handles[p]) \subseteq
         Ids(LiveRequests(states[p]) \cup states[p].persistent) \cup {RequestNull}

\* A wait or test that is answered takes the handles of what it completes and no others: a
\* handle that changes while its process makes no call named a finished request that is closed
\* by the step and is not persistent.  The handles of inactive persistent requests stay
\* (MPI_Waitany and MPI_Waitsome treat them as null; close_requests, _close_request).
HandlesFollowCompletion ==
  [][\A p \in Procs : todo'[p] = todo[p] =>
       \A i \in 1 .. Slots : handles'[p][i] # handles[p][i] =>
         /\ handles'[p][i] = RequestNull
         /\ handles[p][i] \in Ids(states[p].finished \ states'[p].finished)
         /\ ~IsPersistent(states[p], handles[p][i])]_vars

\* While a process holds the promise of a probe, the promised message is there:
\* continue_probe always finds it and the probe can be answered again.
PromisesAreBacked ==
  \A p \in Procs : states[p].probe_promise # NoPromise => PromiseIsBacked(p)

\* An active receive of p that could still take the message s of process q.
MayTake(p, r, q, s) ==
  /\ IsReceive(r)
  /\ Fits(s, p, r.comm, r.tag)
  /\ r.peer \in {AnySource, PidToRank(r.comm, q)}

\* A blocking probe of p has a message of q that no active receive can take.
Probable(p, q) ==
  LET pd == states[p].probe_data
  IN /\ pd # NoProbe
     /\ pd.source \in {AnySource, PidToRank(pd.comm, q)}
     /\ \E s \in ToSet(states[q].active) :
          /\ Fits(s, p, pd.comm, pd.tag)
          /\ ~\E r \in ToSet(states[p].active) : MayTake(p, r, q, s)

\* A reported deadlock (errormsg.Deadlock) is one: no message fits any receive,
\* no process waits for something that has happened, and no probe has a message.
DeadlockIsReal ==
  phase = "deadlock" =>
    /\ \A p, q \in Procs : ~Probable(p, q)
    /\ \A p, q \in Procs :
         \A r \in ToSet(states[p].active), s \in ToSet(states[q].active) : ~MayTake(p, r, q, s)
    /\ \A p \in Procs :
         LET S == states[p]
         IN CASE S.status = "WaitAll" -> \E id \in TestedIds(S) : id \notin Ids(S.finished)
              [] S.status \in {"WaitAny", "WaitSome"} -> TestedIds(S) \cap Ids(S.finished) = {}
              [] OTHER -> S.status \in {"Probe", "Finished"}

\* A persistent request reported as active (errormsg.ActivePersistentRequest) has been
\* started and not been completed since, or it is a buffered send, which is completed
\* before its message is received and may be reported until then.
ActiveErrorIsReal ==
  error.name = "ActivePersistentRequest" =>
    LET S == states[error.pid]
    IN /\ IsPersistent(S, error.id)
       /\ \E r \in LiveRequests(S) :
            /\ r.id = error.id
            /\ r \in S.closed => r.type \in {TypeStd, TypeEager} /\ r \in ToSet(S.active)

-----------------------------------------------------------------------------
(* Refinement: posted operations and matchings obey the rules of MPI. *)

Matching == INSTANCE MpiMatching WITH
  posted <- [p \in Procs |-> states[p].log],
  Batches <- {<<o>> : o \in Operations} \cup
             {<<o1, o2>> : o1, o2 \in Operations},
  MaxPosted <- 100

\* What the verifier matches, and in which order, is what MPI allows.
Implements == Matching!Spec

\* Receives are served in the order in which they were posted.
PostingOrder == Matching!PostingOrder

=============================================================================
