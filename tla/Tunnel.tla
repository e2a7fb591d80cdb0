-------------------------------- MODULE Tunnel --------------------------------
(***************************************************************************)
(* One CONNECT or SOCKS5 tunnel from the dial to its end: dialTarget       *)
(* (proxy.go:505-559), handleCONNECT and relay with its two copying        *)
(* goroutines and the two keepAlive tickers (http.go:106-189,              *)
(* socks5.go:117-135).                                                     *)
(*                                                                         *)
(* The client's connection is end "a", the upstream one end "b".  A byte   *)
(* is a count; a deadline is a countdown in quarters of idleRelay, the     *)
(* keepAlive tickers' period.  Window bytes fit between the proxy and a    *)
(* peer that does not read; a copy with more to write waits.  A deadline   *)
(* reached and then moved before the blocked call runs again is not seen   *)
(* by it (Go's poller), so timer 0 is only an enabled error.  The dials    *)
(* use context.Background(), which never ends.                             *)
(***************************************************************************)
EXTENDS Integers

CONSTANTS Targets,      \* subset of {"v6", "v4", "name"}
          MaxAnswers,   \* most IPv6 addresses a name resolves to
          Request, Response,    \* most bytes the client and the upstream send
          Window        \* bytes an end takes that its peer does not read

ASSUME TunnelAssumption ==
    /\ Targets \subseteq {"v6", "v4", "name"}
    /\ MaxAnswers \in Nat /\ Request \in Nat /\ Response \in Nat /\ Window \in Nat \ {0}

Ends == {"a", "b"}
Ways == {"out", "in"}
From(w) == IF w = "out" THEN "a" ELSE "b"
To(w) == IF w = "out" THEN "b" ELSE "a"
Quarters == 4
MaxData(e) == IF e = "a" THEN Request ELSE Response

VARIABLES target, pc,
          answers, todo,            \* IPv6 addresses the name has, and those not tried yet
          family, dialErrs,
          sent, got, unread,        \* per end: bytes its peer has sent and has been given,
                                    \* and those of them it has not read
          sock,                     \* per end: the connection as the proxy holds it
          copier, hand,             \* per way: "copying" or "done"; bytes read, not written
          firstDone,                \* relay is past its first receive from done
          activeConns, bytes,       \* metrics: the gauge, and bytes counted per way
          timer, due                \* per end: time to the deadline; its ticker has fired
dialVars == <<target, answers, todo, family, dialErrs>>
peerVars == <<sent, got, unread, sock>>
relayVars == <<copier, hand, firstDone, activeConns, bytes>>
timeVars == <<timer, due>>
vars == <<pc, dialVars, peerVars, relayVars, timeVars>>

Open == [rx |-> 0, fin |-> FALSE, rst |-> FALSE, rdShut |-> FALSE, wrShut |-> FALSE]

Init ==
    /\ target \in Targets /\ pc = "dial" /\ answers = 0 /\ todo = 0
    /\ family = 0 /\ dialErrs = 0
    /\ sent = [e \in Ends |-> 0] /\ got = [e \in Ends |-> 0]
    /\ unread = [e \in Ends |-> 0] /\ sock = [e \in Ends |-> Open]
    /\ copier = [w \in Ways |-> "copying"] /\ hand = [w \in Ways |-> 0] /\ firstDone = FALSE
    /\ activeConns = 0 /\ bytes = [w \in Ways |-> 0]
    /\ timer = [e \in Ends |-> 0] /\ due = [e \in Ends |-> FALSE]
-----------------------------------------------------------------------------
\* A dial of the family succeeds: 200 or a SOCKS5 reply is written, the relay starts with
\* both deadlines set (http.go:143, 162-166).
Connected(f) ==
    /\ family' = f /\ pc' = "relay" /\ activeConns' = activeConns + 1
    /\ timer' = [e \in Ends |-> Quarters]
    /\ UNCHANGED <<dialErrs, copier, hand, firstDone, bytes, due>>

\* A dial fails and is counted; the request goes to place next.
Failed(next) ==
    /\ dialErrs' = dialErrs + 1 /\ pc' = next
    /\ UNCHANGED <<family, relayVars, timeVars>>

DialLiteral ==
    /\ pc = "dial" /\ target # "name"
    /\ Connected(IF target = "v6" THEN 6 ELSE 4) \/ Failed("closed")
    /\ UNCHANGED <<target, answers, todo, peerVars>>

\* LookupIP: an error ends the request uncounted.
Resolve ==
    /\ pc = "dial" /\ target = "name"
    /\ \/ pc' = "closed" /\ UNCHANGED <<answers, todo>>
       \/ pc' = "names" /\ answers' \in 0..MaxAnswers /\ todo' = answers'
    /\ UNCHANGED <<target, family, dialErrs, peerVars, relayVars, timeVars>>

\* The answers' IPv6 addresses in turn, then the name over IPv4.
DialSix ==
    /\ pc = "names" /\ todo > 0 /\ todo' = todo - 1
    /\ Connected(6) \/ Failed("names")
    /\ UNCHANGED <<target, answers, peerVars>>

\* Faulty variant: IPv4 is tried before the IPv6 addresses are exhausted.
DialFourEarly ==
    /\ pc = "names"
    /\ Connected(4) \/ Failed("closed")
    /\ UNCHANGED <<target, answers, todo, peerVars>>

DialFour ==
    /\ pc = "names" /\ todo = 0
    /\ Connected(4) \/ Failed("closed")
    /\ UNCHANGED <<target, answers, todo, peerVars>>
-----------------------------------------------------------------------------
\* The peers send, read, end their stream, or reset the connection.
PeerSend(e) ==
    /\ pc = "relay" /\ ~sock[e].fin /\ ~sock[e].rst /\ sent[e] < MaxData(e)
    /\ sent' = [sent EXCEPT ![e] = @ + 1]
    /\ sock' = [sock EXCEPT ![e].rx = @ + 1]
    /\ UNCHANGED <<pc, dialVars, got, unread, relayVars, timeVars>>

PeerRead(e) ==
    /\ pc = "relay" /\ unread[e] > 0
    /\ unread' = [unread EXCEPT ![e] = @ - 1]
    /\ UNCHANGED <<pc, dialVars, sent, got, sock, relayVars, timeVars>>

PeerFin(e) ==
    /\ pc = "relay" /\ ~sock[e].fin /\ ~sock[e].rst
    /\ sock' = [sock EXCEPT ![e].fin = TRUE]
    /\ UNCHANGED <<pc, dialVars, sent, got, unread, relayVars, timeVars>>

PeerReset(e) ==
    /\ pc = "relay" /\ ~sock[e].rst
    /\ sock' = [sock EXCEPT ![e].rst = TRUE, ![e].rx = 0]
    /\ unread' = [unread EXCEPT ![e] = 0]
    /\ UNCHANGED <<pc, dialVars, sent, got, relayVars, timeVars>>

Broken(e) == sock[e].rst \/ timer[e] = 0
ReadEOF(e) == sock[e].rx = 0 /\ (sock[e].fin \/ sock[e].rdShut)

\* io.Copy reads, and then writes what it has read; the write waits while the peer it is
\* for does not read.
CopyRead(w) ==
    /\ pc = "relay" /\ copier[w] = "copying" /\ hand[w] = 0
    /\ sock[From(w)].rx > 0 /\ ~sock[From(w)].rst
    /\ sock' = [sock EXCEPT ![From(w)].rx = @ - 1]
    /\ hand' = [hand EXCEPT ![w] = 1]
    /\ UNCHANGED <<pc, dialVars, sent, got, unread, copier, firstDone, activeConns, bytes, timeVars>>

CopyWrite(w) ==
    /\ pc = "relay" /\ copier[w] = "copying" /\ hand[w] = 1
    /\ ~sock[To(w)].rst /\ unread[To(w)] < Window
    /\ got' = [got EXCEPT ![To(w)] = @ + 1]
    /\ unread' = [unread EXCEPT ![To(w)] = @ + 1]
    /\ hand' = [hand EXCEPT ![w] = 0]
    /\ UNCHANGED <<pc, dialVars, sent, sock, copier, firstDone, activeConns, bytes, timeVars>>

\* A copy ends at the end of its input or at an error of the call it is in, a read or a
\* write: the bytes are counted, the other end's stream is ended, and the goroutine
\* reports (lines 168-183).
CopyEnd(w) ==
    /\ pc = "relay" /\ copier[w] = "copying"
    /\ \/ hand[w] = 0 /\ (ReadEOF(From(w)) \/ Broken(From(w)))
       \/ hand[w] = 1 /\ Broken(To(w))
    /\ bytes' = [bytes EXCEPT ![w] = got[To(w)]]
    /\ sock' = [sock EXCEPT ![To(w)].wrShut = TRUE]
    /\ copier' = [copier EXCEPT ![w] = "done"]
    /\ UNCHANGED <<pc, dialVars, sent, got, unread, hand, firstDone, activeConns, timeVars>>

\* Faulty variants: both connections are shut for reading, or none.
FirstDoneShuts(ends) ==
    /\ pc = "relay" /\ ~firstDone /\ \E w \in Ways : copier[w] = "done"
    /\ firstDone' = TRUE
    /\ sock' = [e \in Ends |-> [sock[e] EXCEPT !.rdShut = e \in ends]]
    /\ UNCHANGED <<pc, dialVars, sent, got, unread, copier, hand, activeConns, bytes, timeVars>>
FirstDoneShutsBoth == FirstDoneShuts(Ends)
FirstDoneShutsNone == FirstDoneShuts({})

\* The first report: nothing more is read from the client (lines 184-187).
FirstDone ==
    /\ pc = "relay" /\ ~firstDone /\ \E w \in Ways : copier[w] = "done"
    /\ firstDone' = TRUE
    /\ sock' = [sock EXCEPT !["a"].rdShut = TRUE]
    /\ UNCHANGED <<pc, dialVars, sent, got, unread, copier, hand, activeConns, bytes, timeVars>>

\* Faulty variants: the gauge goes down for each copy, or not at all.
RelayEndGauge(n) ==
    /\ pc = "relay" /\ firstDone /\ \A w \in Ways : copier[w] = "done"
    /\ pc' = "closed" /\ activeConns' = activeConns - n
    /\ UNCHANGED <<dialVars, peerVars, copier, hand, firstDone, bytes, timeVars>>
RelayEndTwice == RelayEndGauge(2)
RelayEndUncounted == RelayEndGauge(0)

\* The second report: the tickers stop, the gauge goes down, both connections close.
RelayEnd ==
    /\ pc = "relay" /\ firstDone /\ \A w \in Ways : copier[w] = "done"
    /\ pc' = "closed" /\ activeConns' = activeConns - 1
    /\ UNCHANGED <<dialVars, peerVars, copier, hand, firstDone, bytes, timeVars>>

\* A quarter of idleRelay passes; keepAlive's goroutine then moves its deadline.
Tick ==
    /\ pc = "relay"
    /\ timer' = [e \in Ends |-> IF timer[e] = 0 THEN 0 ELSE timer[e] - 1]
    /\ due' = [e \in Ends |-> TRUE]
    /\ UNCHANGED <<pc, dialVars, peerVars, relayVars>>

KeepAlive(e) ==
    /\ pc = "relay" /\ due[e]
    /\ timer' = [timer EXCEPT ![e] = Quarters]
    /\ due' = [due EXCEPT ![e] = FALSE]
    /\ UNCHANGED <<pc, dialVars, peerVars, relayVars>>

Dial == DialLiteral \/ Resolve \/ DialSix \/ DialFour
Move(w) == CopyRead(w) \/ CopyWrite(w) \/ CopyEnd(w)
Relay == FirstDone \/ RelayEnd

Next ==
    \/ Dial \/ Relay \/ Tick
    \/ \E e \in Ends : PeerSend(e) \/ PeerRead(e) \/ PeerFin(e) \/ PeerReset(e) \/ KeepAlive(e)
    \/ \E w \in Ways : Move(w)

Spec == Init /\ [][Next]_vars

\* Dials end (dial_timeout_seconds) and runnable goroutines run; the peers owe nothing.
Fairness == WF_vars(Dial) /\ WF_vars(Relay) /\ \A w \in Ways : WF_vars(Move(w))
FairSpec == Spec /\ Fairness

\* Time passes and the tickers' goroutines run, too.
TimedSpec == FairSpec /\ WF_vars(Tick) /\ \A e \in Ends : WF_vars(KeepAlive(e))
-----------------------------------------------------------------------------
SockType == [rx : Nat, fin : BOOLEAN, rst : BOOLEAN, rdShut : BOOLEAN, wrShut : BOOLEAN]

TunnelTypeOK ==
    /\ target \in Targets /\ pc \in {"dial", "names", "relay", "closed"}
    /\ answers \in 0..MaxAnswers /\ todo \in 0..answers /\ family \in {0, 4, 6}
    /\ dialErrs \in 0..(MaxAnswers + 1)
    /\ sent \in [Ends -> Nat] /\ got \in [Ends -> Nat] /\ \A e \in Ends : sent[e] <= MaxData(e)
    /\ unread \in [Ends -> 0..Window] /\ hand \in [Ways -> 0..1]
    /\ sock \in [Ends -> SockType]
    /\ copier \in [Ways -> {"copying", "done"}] /\ firstDone \in BOOLEAN
    /\ activeConns \in 0..1 /\ bytes \in [Ways -> Nat]
    /\ timer \in [Ends -> 0..Quarters] /\ due \in [Ends -> BOOLEAN]

\* The client is told its stream ended only when it has all the upstream sent, also when
\* it ended its own stream first and relay is waiting for the other copy: nothing but a
\* reset or a deadline (http.go:184-188, proxied half-close) cuts a response.
ResponseComplete ==
    [][pc = "relay" /\ copier["in"] = "copying" /\ copier'["in"] = "done" =>
          \/ sock["b"].fin /\ got["a"] = sent["b"]
          \/ \E e \in Ends : Broken(e)]_vars

\* The gauge counts the relay exactly while it runs, and the byte counters hold what each
\* peer was given once it is over (http.go:161-162, 170-178).
CountersMatch ==
    /\ activeConns = IF pc = "relay" THEN 1 ELSE 0
    /\ pc = "closed" /\ family # 0 => bytes["out"] = got["b"] /\ bytes["in"] = got["a"]

\* dialTarget's comment, "preferring IPv6 and falling back to IPv4" (proxy.go:502-503): a
\* name is reached over IPv4 only after each of its IPv6 addresses failed and was counted,
\* and a name that resolved is given up only after IPv4 failed as well.
FourIsLast ==
    target = "name" =>
        /\ family = 4 => dialErrs = answers
        /\ pc = "closed" /\ family = 0 =>
              dialErrs = answers + 1 \/ (answers = 0 /\ dialErrs = 0)

\* Once the upstream has ended its stream or gone, the tunnel ends, although the client
\* stays silent and the copy from it is blocked in a read (http.go:184-188), if neither
\* peer leaves a write of the proxy's waiting for ever.  (CloseRead wakes a read only, and
\* keepAlive moves the deadline of a write as well.)
KeepsReading(e) == []<>(unread[e] < Window)
UpstreamEndEnds ==
    (\A e \in Ends : KeepsReading(e)) =>
        ((pc = "relay" /\ (sock["b"].fin \/ sock["b"].rst)) ~> pc = "closed")

\* http.go:17-19, "prevents leaked goroutines when a peer goes silent": the peers send
\* finitely many bytes here, so every relay is idle in the end and must be over.
SilentRelayEnds == pc = "relay" ~> pc = "closed"
=============================================================================
