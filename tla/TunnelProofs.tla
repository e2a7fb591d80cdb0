----------------------------- MODULE TunnelProofs -----------------------------
(***************************************************************************)
(* Theorems about Tunnel, for any answers and any number of bytes.         *)
(***************************************************************************)
EXTENDS Tunnel, TLAPS

USE TunnelAssumption
    DEF Ends, Ways, From, To, Quarters, MaxData, Open, SockType,
        dialVars, peerVars, relayVars, timeVars

\* No byte is made up: what an end was given, what a copy holds for it and what waits for it
\* is what the other end sent, unless a reset discarded some.  The upstream is never shut
\* for reading.
SocketsInv ==
    /\ ~sock["b"].rdShut
    /\ \A w \in Ways :
          /\ got[To(w)] + hand[w] + sock[From(w)].rx <= sent[From(w)]
          /\ ~sock[From(w)].rst => got[To(w)] + hand[w] + sock[From(w)].rx = sent[From(w)]

\* Every IPv6 address tried for a name was counted as failed while its dials go on.
DialsInv ==
    /\ pc = "dial" => dialErrs = 0 /\ answers = 0
    /\ pc = "names" => target = "name" /\ dialErrs + todo = answers
    /\ pc \in {"dial", "names"} => family = 0
    /\ pc = "relay" => family # 0
    /\ FourIsLast

\* A copy that is done has counted what its peer was given.
CountInv ==
    /\ CountersMatch
    /\ \A w \in Ways : copier[w] = "done" => bytes[w] = got[To(w)]
    /\ pc = "closed" /\ family # 0 => \A w \in Ways : copier[w] = "done"

IInv == TunnelTypeOK /\ SocketsInv /\ DialsInv /\ CountInv

\* A connection's record stays one whatever is noted in it.
LEMMA SockTypes ==
  ASSUME sock \in [Ends -> SockType], NEW e \in Ends
  PROVE  /\ [sock EXCEPT ![e].fin = TRUE] \in [Ends -> SockType]
         /\ [sock EXCEPT ![e].rst = TRUE, ![e].rx = 0] \in [Ends -> SockType]
         /\ [sock EXCEPT ![e].rdShut = TRUE] \in [Ends -> SockType]
         /\ [sock EXCEPT ![e].wrShut = TRUE] \in [Ends -> SockType]
<1>1. sock[e] \in SockType OBVIOUS
<1>2. [sock[e] EXCEPT !.fin = TRUE] \in SockType BY <1>1
<1> DEFINE reset == [sock[e] EXCEPT !.rst = TRUE]
<1>3. reset \in SockType BY <1>1
<1>4. [reset EXCEPT !.rx = 0] \in SockType
  <2> HIDE DEF reset
  <2> QED BY <1>3
<1>5. [sock[e] EXCEPT !.rdShut = TRUE] \in SockType BY <1>1
<1>6. [sock[e] EXCEPT !.wrShut = TRUE] \in SockType BY <1>1
<1>7. [sock EXCEPT ![e].rst = TRUE, ![e].rx = 0] =
        [sock EXCEPT ![e] = [[sock[e] EXCEPT !.rst = TRUE] EXCEPT !.rx = 0]]
  OBVIOUS
<1> QED BY <1>2, <1>4, <1>5, <1>6, <1>7

LEMMA TunnelInit == Init => IInv
<1> SUFFICES ASSUME Init PROVE IInv OBVIOUS
<1>1. \A e \in Ends : sock[e] = Open /\ got[e] = 0 /\ sent[e] = 0
  BY DEF Init
<1>0. \A w \in Ways : hand[w] = 0 BY DEF Init
<1>2. TunnelTypeOK
  <2>1. Open \in SockType OBVIOUS
  <2>2. sock \in [Ends -> SockType] BY <2>1 DEF Init
  <2>3. /\ sent \in [Ends -> Nat] /\ got \in [Ends -> Nat] /\ unread \in [Ends -> 0..Window]
        /\ \A e \in Ends : sent[e] <= MaxData(e)
    BY DEF Init
  <2>4. /\ copier \in [Ways -> {"copying", "done"}] /\ hand \in [Ways -> 0..1]
        /\ bytes \in [Ways -> Nat]
    BY DEF Init
  <2>5. timer \in [Ends -> 0..Quarters] /\ due \in [Ends -> BOOLEAN] BY DEF Init
  <2>6. /\ target \in Targets /\ pc \in {"dial", "names", "relay", "closed"}
        /\ answers \in 0..MaxAnswers /\ todo \in 0..answers /\ family \in {0, 4, 6}
        /\ dialErrs \in 0..(MaxAnswers + 1) /\ activeConns \in 0..1
    <3> HIDE DEF SockType, Open
    <3> QED BY DEF Init
  <2>7. firstDone \in BOOLEAN BY DEF Init
  <2> HIDE DEF SockType
  <2> QED BY <2>2, <2>3, <2>4, <2>5, <2>6, <2>7 DEF TunnelTypeOK
<1>3. SocketsInv BY <1>0, <1>1 DEF SocketsInv
<1>4. DialsInv BY DEF Init, DialsInv, FourIsLast
<1>5. CountInv BY DEF Init, CountInv, CountersMatch
<1> QED BY <1>2, <1>3, <1>4, <1>5 DEF IInv

\* The dials, which move no byte.
LEMMA DialStep == ASSUME IInv, Dial PROVE IInv'
<1> USE DEF IInv, TunnelTypeOK, SocketsInv, DialsInv, CountInv, CountersMatch, FourIsLast,
            Connected, Failed
<1>1. CASE DialLiteral BY <1>1 DEF DialLiteral
<1>2. CASE Resolve BY <1>2 DEF Resolve
<1>3. CASE DialSix BY <1>3 DEF DialSix
<1>4. CASE DialFour BY <1>4 DEF DialFour
<1> QED BY <1>1, <1>2, <1>3, <1>4 DEF Dial

\* The peers.
LEMMA PeerStep ==
  ASSUME IInv, NEW e \in Ends, PeerSend(e) \/ PeerRead(e) \/ PeerFin(e) \/ PeerReset(e)
  PROVE  IInv'
<1> USE DEF IInv, TunnelTypeOK, SocketsInv, DialsInv, CountInv, CountersMatch, FourIsLast
<1>0. PeerSend(e) \/ PeerRead(e) \/ PeerFin(e) \/ PeerReset(e) =>
          DialsInv' /\ CountInv'
  BY DEF PeerSend, PeerRead, PeerFin, PeerReset
<1>1. CASE PeerSend(e)
  <2>1. /\ pc = "relay" /\ sent' = [sent EXCEPT ![e] = @ + 1] /\ sent[e] < MaxData(e)
        /\ sock' = [sock EXCEPT ![e].rx = @ + 1]
        /\ UNCHANGED <<pc, target, answers, todo, family, dialErrs, got, unread, copier, hand,
                       firstDone, activeConns, bytes, timer, due>>
    BY <1>1 DEF PeerSend
  <2>2. sent[e] + 1 <= MaxData(e) /\ sock[e].rx + 1 \in Nat BY <2>1
  <2>3. TunnelTypeOK' BY <2>1, <2>2
  <2>4. SocketsInv' BY <2>1
  <2> QED BY <1>0, <1>1, <2>3, <2>4
<1>2. CASE PeerFin(e)
  <2>1. TunnelTypeOK'
    <3>1. sock' \in [Ends -> SockType] BY <1>2, SockTypes DEF PeerFin
    <3> QED BY <1>2, <3>1 DEF PeerFin
  <2>2. SocketsInv' BY <1>2 DEF PeerFin
  <2> QED BY <1>0, <1>2, <2>1, <2>2
<1>3. CASE PeerReset(e)
  <2>1. TunnelTypeOK'
    <3>1. sock' \in [Ends -> SockType] BY <1>3, SockTypes DEF PeerReset
    <3> QED BY <1>3, <3>1 DEF PeerReset
  <2>2. SocketsInv' BY <1>3 DEF PeerReset
  <2> QED BY <1>0, <1>3, <2>1, <2>2
<1>4. CASE PeerRead(e) BY <1>4 DEF PeerRead
<1> QED BY <1>1, <1>2, <1>3, <1>4

\* The copies.
LEMMA MoveStep == ASSUME IInv, NEW w \in Ways, Move(w) PROVE IInv'
<1> USE DEF IInv, TunnelTypeOK, SocketsInv, DialsInv, CountInv, CountersMatch, FourIsLast
<1>1. CASE CopyRead(w)
  <2>1. /\ pc = "relay" /\ copier[w] = "copying" /\ hand[w] = 0
        /\ sock[From(w)].rx > 0 /\ ~sock[From(w)].rst
        /\ sock' = [sock EXCEPT ![From(w)].rx = @ - 1]
        /\ hand' = [hand EXCEPT ![w] = 1]
        /\ UNCHANGED <<pc, target, answers, todo, family, dialErrs, sent, got, unread, copier,
                       firstDone, activeConns, bytes, timer, due>>
    BY <1>1 DEF CopyRead
  <2>2. TunnelTypeOK' BY <2>1
  <2>3. SocketsInv' BY <2>1
  <2>4. DialsInv' /\ CountInv' BY <2>1
  <2> QED BY <2>2, <2>3, <2>4
<1>3. CASE CopyWrite(w)
  <2>1. /\ pc = "relay" /\ copier[w] = "copying" /\ hand[w] = 1 /\ unread[To(w)] < Window
        /\ got' = [got EXCEPT ![To(w)] = @ + 1]
        /\ unread' = [unread EXCEPT ![To(w)] = @ + 1]
        /\ hand' = [hand EXCEPT ![w] = 0]
        /\ UNCHANGED <<pc, target, answers, todo, family, dialErrs, sent, sock, copier,
                       firstDone, activeConns, bytes, timer, due>>
    BY <1>3 DEF CopyWrite
  <2>2. TunnelTypeOK' BY <2>1
  <2>3. SocketsInv' BY <2>1
  <2>4. DialsInv' /\ CountInv' BY <2>1
  <2> QED BY <2>2, <2>3, <2>4
<1>2. CASE CopyEnd(w)
  <2>1. /\ pc = "relay" /\ copier[w] = "copying"
        /\ bytes' = [bytes EXCEPT ![w] = got[To(w)]]
        /\ sock' = [sock EXCEPT ![To(w)].wrShut = TRUE]
        /\ copier' = [copier EXCEPT ![w] = "done"]
        /\ UNCHANGED <<pc, target, answers, todo, family, dialErrs, sent, got, unread, hand,
                       firstDone, activeConns, timer, due>>
    BY <1>2 DEF CopyEnd
  <2>2. TunnelTypeOK'
    <3>1. sock' \in [Ends -> SockType] BY <2>1, SockTypes
    <3> QED BY <2>1, <3>1
  <2>3. SocketsInv' BY <2>1
  <2>4. DialsInv' /\ CountInv' BY <2>1
  <2> QED BY <2>2, <2>3, <2>4
<1> QED BY <1>1, <1>2, <1>3 DEF Move

\* The relay's own steps and time.
LEMMA RelayStep ==
  ASSUME IInv, Relay \/ Tick \/ (\E e \in Ends : KeepAlive(e)) \/ UNCHANGED vars PROVE IInv'
<1> USE DEF IInv, TunnelTypeOK, SocketsInv, DialsInv, CountInv, CountersMatch, FourIsLast
<1>1. CASE FirstDone
  <2>1. TunnelTypeOK'
    <3>1. sock' \in [Ends -> SockType] BY <1>1, SockTypes DEF FirstDone
    <3> QED BY <1>1, <3>1 DEF FirstDone
  <2>2. SocketsInv' BY <1>1 DEF FirstDone
  <2>3. DialsInv' /\ CountInv' BY <1>1 DEF FirstDone
  <2> QED BY <2>1, <2>2, <2>3
<1>2. CASE RelayEnd BY <1>2 DEF RelayEnd
<1>3. CASE Tick BY <1>3 DEF Tick
<1>4. ASSUME NEW e \in Ends, KeepAlive(e) PROVE IInv' BY <1>4 DEF KeepAlive
<1>5. CASE UNCHANGED vars BY <1>5 DEF vars
<1> QED BY <1>1, <1>2, <1>3, <1>4, <1>5 DEF Relay

LEMMA TunnelStep == ASSUME IInv, [Next]_vars PROVE IInv'
  BY DialStep, PeerStep, MoveStep, RelayStep DEF Next

\* The invariant holds in every state.
THEOREM TunnelInvariant == Spec => []IInv
<1>1. IInv /\ [Next]_vars => IInv' BY TunnelStep
<1> QED BY <1>1, TunnelInit, PTL DEF Spec

\* Types, with the bounds on failures and bytes.
THEOREM TunnelTypeCorrect == Spec => []TunnelTypeOK
<1>1. IInv => TunnelTypeOK BY DEF IInv
<1> QED BY <1>1, TunnelInvariant, PTL

\* The active-connection gauge and the byte counters.
THEOREM TunnelCountersMatch == Spec => []CountersMatch
<1>1. IInv => CountersMatch BY DEF IInv, CountInv
<1> QED BY <1>1, TunnelInvariant, PTL

\* IPv4 only after every IPv6 address, and no name given up before IPv4.
THEOREM TunnelFourIsLast == Spec => []FourIsLast
<1>1. IInv => FourIsLast BY DEF IInv, DialsInv
<1> QED BY <1>1, TunnelInvariant, PTL

\* A response is cut by a reset or a deadline only.
THEOREM TunnelResponseComplete == Spec => ResponseComplete
<1> DEFINE Complete == pc = "relay" /\ copier["in"] = "copying" /\ copier'["in"] = "done" =>
                          \/ sock["b"].fin /\ got["a"] = sent["b"]
                          \/ \E e \in Ends : Broken(e)
<1>1. ASSUME IInv, [Next]_vars PROVE [Complete]_vars
  <2> SUFFICES ASSUME pc = "relay", copier["in"] = "copying", copier'["in"] = "done"
      PROVE  \/ sock["b"].fin /\ got["a"] = sent["b"]
             \/ \E e \in Ends : Broken(e)
    OBVIOUS
  <2>1. CopyEnd("in")
    <3>1. ~Dial BY DEF Dial, DialLiteral, Resolve, DialSix, DialFour
    <3>2. ~Relay /\ ~Tick /\ ~UNCHANGED vars BY DEF Relay, FirstDone, RelayEnd, Tick, vars
    <3>3. ASSUME NEW e \in Ends PROVE ~(PeerSend(e) \/ PeerRead(e) \/ PeerFin(e) \/ PeerReset(e) \/ KeepAlive(e))
      BY DEF PeerSend, PeerRead, PeerFin, PeerReset, KeepAlive
    <3>4. \A w \in Ways : ~CopyRead(w) /\ ~CopyWrite(w) BY DEF CopyRead, CopyWrite
    <3>5. ~CopyEnd("out") BY <1>1 DEF CopyEnd, IInv, TunnelTypeOK
    <3> QED BY <1>1, <3>1, <3>2, <3>3, <3>4, <3>5 DEF Next, Move
  <2>2. (hand["in"] = 0 /\ ReadEOF("b")) \/ Broken("b") \/ Broken("a") BY <2>1 DEF CopyEnd
  <2>3. CASE hand["in"] = 0 /\ ReadEOF("b") /\ ~sock["b"].rst
    <3>1. sock["b"].rx = 0 /\ sock["b"].fin BY <1>1, <2>3 DEF ReadEOF, IInv, SocketsInv
    <3>2. got["a"] + hand["in"] + sock["b"].rx = sent["b"] BY <1>1, <2>3 DEF IInv, SocketsInv
    <3>3. got["a"] \in Int BY <1>1 DEF IInv, TunnelTypeOK
    <3> QED BY <2>3, <3>1, <3>2, <3>3
  <2>4. CASE sock["b"].rst BY <2>4 DEF Broken
  <2> QED BY <2>2, <2>3, <2>4
<1>2. [][Complete]_vars => ResponseComplete BY PTL DEF ResponseComplete
<1> QED BY <1>1, <1>2, TunnelInvariant, PTL DEF Spec
=============================================================================
