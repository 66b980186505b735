-------------------------- MODULE MCPointToPoint --------------------------
(***************************************************************************)
(* Instances of PointToPoint for TLC: small programs, each position of     *)
(* which offers a set of calls, so that one run checks many programs.      *)
(***************************************************************************)
EXTENDS PointToPoint

World == 1
Pair == 2
MCGroup == <<[i \in 1 .. ProcessCount |-> i - 1], <<1, 0>>>>

send(mode, target, tag) ==
  [op |-> "Send", mode |-> mode, comm |-> World, target |-> target, tag |-> tag, size |-> 1]
isend(mode, target, tag, slot) ==
  [op |-> "Isend", mode |-> mode, comm |-> World, target |-> target, tag |-> tag, size |-> 1,
   slot |-> slot]
send_init(mode, target, tag, slot) == [isend(mode, target, tag, slot) EXCEPT !.op = "Send_init"]
recv(source, tag) ==
  [op |-> "Recv", comm |-> World, source |-> source, tag |-> tag, size |-> 2]
irecv(source, tag, slot) ==
  [op |-> "Irecv", comm |-> World, source |-> source, tag |-> tag, size |-> 2, slot |-> slot]
recv_init(source, tag, slot) == [irecv(source, tag, slot) EXCEPT !.op = "Recv_init"]
sendrecv(target, tag, source, recvtag) ==
  [op |-> "Sendrecv", comm |-> World, target |-> target, tag |-> tag, source |-> source,
   recvtag |-> recvtag, size |-> 1]
probe(source, tag) == [op |-> "Probe", comm |-> World, source |-> source, tag |-> tag]
iprobe(source, tag) == [op |-> "Iprobe", comm |-> World, source |-> source, tag |-> tag]
start(slot) == [op |-> "Start", slots |-> <<slot>>]
startall(slots) == [op |-> "Startall", slots |-> slots]
request_free(slot) == [op |-> "Request_free", slot |-> slot]
wait(slot) == [op |-> "Wait", slot |-> slot]
test(slot) == [op |-> "Test", slot |-> slot]
waitall == [op |-> "Waitall"]
waitany == [op |-> "Waitany"]
waitsome == [op |-> "Waitsome"]
testall == [op |-> "Testall"]

sized(call, size) == [call EXCEPT !.size = size]
on(comm, call) == [call EXCEPT !.comm = comm]

\* The calls of three processes.
Program(p0, p1, p2) == [p \in Procs |-> IF p = 0 THEN p0 ELSE IF p = 1 THEN p1 ELSE p2]

-----------------------------------------------------------------------------
\* Wildcard receives against messages of two senders, completed in every way.
MatchingPrograms ==
  { Program(<<{irecv(AnySource, 1, 1), irecv(2, 2, 1)},
              {irecv(1, 1, 2), irecv(AnySource, 1, 2)},
              {waitall, waitany, waitsome},
              {waitall, recv(2, 1)}>>,
            <<{send("Send", 0, 1), send("Ssend", 0, 1), isend("Send", 0, 2, 1)},
              {send("Bsend", 0, 1), send("Ssend", 0, 2)},
              {waitall}>>,
            <<{send("Send", 0, 1), sized(send("Send", 0, 2), 3)}, {isend("Ssend", 0, 1, 1)},
              {wait(1)}>>),
    Program(<<{sendrecv(1, 1, 1, 1), sendrecv(ProcNull, 1, 1, AnyTag), sendrecv(1, 1, ProcNull, 1)},
              {irecv(ProcNull, 1, 1), irecv(0, 2, 1)},
              {isend("Ssend", 0, 2, 2), isend("Send", ProcNull, 2, 2)},
              {wait(1), test(1), testall, waitsome},
              {waitall}>>,
            <<{sendrecv(0, 1, AnySource, AnyTag), recv(0, 1)},
              {send("Send", ProcNull, 1), recv(ProcNull, 1)}>>,
            <<>>) }


\* Probes before and between receives, on two communicators.
ProbingPrograms ==
  LET someprobe == {probe(AnySource, 1), iprobe(AnySource, AnyTag), probe(1, AnyTag),
                    iprobe(1, 1), probe(ProcNull, 1), iprobe(ProcNull, 1)}
  IN { Program(<<{irecv(AnySource, 1, 1), irecv(2, 2, 1), on(Pair, irecv(AnySource, 1, 1))},
                 someprobe,
                 someprobe \cup {recv(AnySource, 1)},
                 {recv(AnySource, AnyTag), recv(1, 1), probe(AnySource, 1)},
                 {wait(1)}>>,
               <<{sized(send("Send", 0, 1), 0), send("Ssend", 0, 1)},
                 {send("Send", 0, 2), on(Pair, send("Ssend", 1, 1))}>>,
               <<{send("Send", 0, 1), sized(send("Send", 0, 2), 2)}>>) }

\* Persistent requests; those that are inactive are waited for as well, and started again.
PersistentPrograms ==
  { Program(<<{recv_init(AnySource, 1, 1), recv_init(1, AnyTag, 1)},
              {send_init("Ssend", 1, 2, 2), send_init("Bsend", 1, 2, 2), recv_init(AnySource, 1, 2)},
              {startall(<<1, 2>>), startall(<<2, 1>>)},
              {waitall, waitany, waitsome, testall, start(1)},
              {start(1), start(2), wait(1), request_free(1)},
              {waitsome, waitall, request_free(2), test(2)},
              {start(1), start(2), request_free(1)},
              {waitany}>>,
            <<{send("Send", 0, 1), recv(0, 2)},
              {send("Send", 0, 1), recv(0, AnyTag), irecv(0, 2, 1)}>>,
            <<{send("Send", 0, 1)}, {isend("Send", 0, 1, 1), request_free(1)}>>) }

RequestPrograms == ProbingPrograms \cup PersistentPrograms

-----------------------------------------------------------------------------
\* Programs in which the verifier departs from what it promises.

\* Two receives posted at once: the second one, with a wildcard tag, fits the
\* message as well as the first one, with a wildcard source.
PostingPrograms ==
  { Program(<<{irecv(AnySource, 1, 1)}, {irecv(1, AnyTag, 2), irecv(AnySource, AnyTag, 2)},
              {recv(1, 2)}, {waitall}>>,
            <<{send("Send", 0, 1)}, {send("Send", 0, 2)}, {send("Send", 0, 1)}>>,
            <<>>) }

\* A receive from the process itself is pending while it probes for another one.
SelfProbePrograms ==
  { Program(<<{irecv(0, 1, 1), irecv(0, 2, 1)}, {probe(1, 1), probe(AnySource, 1)}, {recv(1, 1)},
              {isend("Send", 0, 1, 2), isend("Send", 0, 2, 2)}, {waitall}>>,
            <<{send("Send", 0, 1)}, {recv(0, 1), probe(0, 1)}>>,
            <<{send("Send", 1, 1)}>>) }

=============================================================================
