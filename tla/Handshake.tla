------------------------------- MODULE Handshake -------------------------------
(***************************************************************************)
(* One client connection up to its relay: HandleSOCKS5 (socks5.go:15-136), *)
(* handleHTTP with its answers and handleCONNECT's head (http.go:34-135),  *)
(* and the account table both consult (proxy.go:112-120, 181-201).  What   *)
(* the dial does and what follows in relay is in Tunnel.                   *)
(*                                                                         *)
(* A user name is its parts between the separators "-session-" (an empty   *)
(* last part is an empty token, which pins nothing).  A SOCKS5 request is  *)
(* read part by part from the bytes that have come; of the other messages  *)
(* only the outcome matters.  Time is in units, timer is what is left of   *)
(* the deadline in force; a read or a write past its deadline fails even   *)
(* if it could be served.  A forwarded body's writes to the client have no *)
(* deadline: they last while a client that stays does not read.            *)
(***************************************************************************)
EXTENDS Integers, Sequences

CONSTANTS Configured,     \* the accounts in the file: [username, password]
          Users, Passwords,             \* what clients present
          Forms,                        \* the layouts of their SOCKS5 requests
          HandshakeTime, ForwardTime,   \* handshakeTimeout, httpRequestTimeout
          MaxRequests, MaxEarly         \* bounds: HTTP requests, bytes behind a request

Names == {Configured[i].username : i \in DOMAIN Configured}

ASSUME HandshakeAssumption ==
    /\ Configured \in Seq([username : Seq(STRING), password : Passwords])
    /\ \A u \in Users \union Names : u \in Seq(STRING) /\ u # <<>>
    /\ Forms \subseteq [atyp : {"v4", "v6", "name", "odd"}, len : Nat]
    /\ HandshakeTime \in Nat \ {0} /\ ForwardTime \in Nat \ {0}
    /\ MaxRequests \in Nat /\ MaxEarly \in Nat

Nobody == 0
Logins == [user : Users, pass : Passwords]
NoLogin == [user |-> <<>>, pass |-> ""]
NoForm == [atyp |-> "odd", len |-> 0]
Forever == -1
Early == 0..MaxEarly

VARIABLES proto, stage, timer, left,
          login, acct, key,     \* the credentials of this request, its account and token
          said, rejected,       \* answers sent; metrics.Rejected
          form, sent, taken,    \* the layout of the client's request; the bytes sent from its
                                \* first on (HTTP: behind its header) and those read or dropped
          clientGone, blocked,  \* the client has left; a write waits for it to read
          declared, unzipped, told,     \* a forwarded body: the upstream declares its length,
                                \* the transport decompresses it, its length is in the answer
          whole, seen           \* it was all there; the client takes it for complete
who == <<login, acct, key>>
bytes == <<sent, taken>>
client == <<form, clientGone>>
body == <<declared, unzipped, told, whole, seen>>
vars == <<proto, stage, timer, left, who, said, rejected, bytes, client, blocked, body>>

RequestStages == {"head", "length", "address", "port"}
SocksStages == {"greet", "login"} \union RequestStages
Serving == {"dial", "relay", "forward", "body"}
Stages == SocksStages \union Serving \union {"accepted", "http", "closed"}

Init ==
    /\ proto \in {"socks", "http"} /\ stage = "accepted" /\ timer = Forever
    /\ left = MaxRequests /\ login = NoLogin /\ acct = Nobody /\ key = <<>>
    /\ said = <<>> /\ rejected = 0 /\ sent = 0 /\ taken = 0
    /\ form \in (IF proto = "socks" THEN Forms ELSE {NoForm})
    /\ clientGone = FALSE /\ blocked = FALSE
    /\ declared = FALSE /\ unzipped = FALSE /\ told = FALSE /\ whole = FALSE /\ seen = "no"

Live == timer # 0
Say(answer) == said' = IF Live THEN Append(said, answer) ELSE said
-----------------------------------------------------------------------------
Entries(name) == {i \in DOMAIN Configured : Configured[i].username = name}

\* Faulty variant: the table keeps the first account of a name.
AccountFirst(name) ==
    LET first == {i \in Entries(name) : \A j \in Entries(name) : i <= j} IN
    IF first = {} THEN Nobody ELSE CHOOSE i \in first : TRUE

\* New fills the table in the order of the file: the last account of a name stays.
Account(name) ==
    LET last == {i \in Entries(name) : \A j \in Entries(name) : j <= i} IN
    IF last = {} THEN Nobody ELSE CHOOSE i \in last : TRUE

\* splitUsername cuts at the first separator; authenticate compares the password.
Base(user) == <<Head(user)>>
Token(user) == Tail(user)

Authenticate(user, pass) ==
    LET a == Account(Base(user)) IN
    IF a # Nobody /\ Configured[a].password = pass THEN a ELSE Nobody

LogIn(l) ==
    /\ login' = l
    /\ acct' = Authenticate(l.user, l.pass)
    /\ key' = IF acct' = Nobody THEN <<>> ELSE Token(l.user)
-----------------------------------------------------------------------------
\* Faulty variant: the handshake has no deadline.
AcceptNoDeadline ==
    /\ stage = "accepted" /\ stage' = IF proto = "socks" THEN "greet" ELSE "http"
    /\ UNCHANGED <<proto, timer, left, who, said, rejected, bytes, client, blocked, body>>

\* serveSOCKS5 and http.Serve start a goroutine per connection; SOCKS5 sets a deadline,
\* net/http's zero Server none.
Accept ==
    /\ stage = "accepted" /\ stage' = IF proto = "socks" THEN "greet" ELSE "http"
    /\ timer' = IF proto = "socks" THEN HandshakeTime ELSE Forever
    /\ UNCHANGED <<proto, left, who, said, rejected, bytes, client, blocked, body>>

\* The version, the number of methods and the methods (socks5.go:22-48).
Greet ==
    /\ stage = "greet" /\ Live
    /\ \/ stage' = "closed" /\ UNCHANGED said              \* not SOCKS5, bad count
       \/ stage' = "closed" /\ Say("no method")
       \/ stage' = "login" /\ Say("method")
    /\ UNCHANGED <<proto, timer, left, who, rejected, bytes, client, blocked, body>>

\* User name and password (socks5.go:50-75).
Login ==
    /\ stage = "login" /\ Live
    /\ \E l \in Logins : LogIn(l)
    /\ IF acct' = Nobody
       THEN stage' = "closed" /\ Say("denied") /\ rejected' = rejected + 1
       ELSE stage' = "head" /\ Say("granted") /\ UNCHANGED rejected
    /\ UNCHANGED <<proto, timer, left, bytes, client, blocked, body>>

\* The parts of a request and their lengths in bytes; a host name has its length in front.
HeadLen == 4
PortLen == 2
AddressLen(f) == CASE f.atyp = "v4" -> 4 [] f.atyp = "v6" -> 16 [] OTHER -> f.len

\* Faulty variants: a part is read through a buffer, which takes what is behind it; one
\* Read is taken for all of a part.
ReadBuffered(n) == Live /\ sent - taken >= n /\ taken' = sent
ReadShort(n) == Live /\ sent - taken >= 1 /\ taken' = taken + n

\* io.ReadFull of n bytes.  What it has read of a part that never becomes whole is lost
\* with the connection.
ReadFull(n) == Live /\ sent - taken >= n /\ taken' = taken + n

ReadPart(here, n, next) ==
    /\ stage = here /\ ReadFull(n) /\ stage' = next
    /\ UNCHANGED <<proto, left, who, rejected, sent, client, blocked, body>>

\* The head (lines 77-83, 107-109): a version or an address type that is refused, or what
\* the address needs.
ReadHead ==
    /\ UNCHANGED timer
    /\ \/ ReadPart("head", HeadLen, "closed") /\ UNCHANGED said
       \/ form.atyp = "odd" /\ ReadPart("head", HeadLen, "closed") /\ Say("bad address type")
       \/ form.atyp = "name" /\ ReadPart("head", HeadLen, "length") /\ UNCHANGED said
       \/ form.atyp \in {"v4", "v6"} /\ ReadPart("head", HeadLen, "address") /\ UNCHANGED said

ReadLength == ReadPart("length", 1, "address") /\ UNCHANGED <<timer, said>>
ReadAddress == ReadPart("address", AddressLen(form), "port") /\ UNCHANGED <<timer, said>>

\* The port, and only then the command (lines 111-119).
ReadPortRefused ==
    ReadPart("port", PortLen, "closed") /\ Say("bad command") /\ UNCHANGED timer

\* Faulty variant: the handshake's deadline stays.
ReadPortKeepsDeadline == ReadPart("port", PortLen, "dial") /\ UNCHANGED <<timer, said>>

\* With the request complete the deadline is removed (line 121).
ReadPort == ReadPart("port", PortLen, "dial") /\ timer' = Forever /\ UNCHANGED said

\* A handshake ends at its deadline, or because the client has gone.
HandshakeFails ==
    /\ stage \in SocksStages /\ (~Live \/ clientGone)
    /\ stage' = "closed"
    /\ UNCHANGED <<proto, timer, left, who, said, rejected, bytes, client, blocked, body>>
-----------------------------------------------------------------------------
\* A request's header has been read; the credentials are its own (http.go:34-45).
HttpRead(l) ==
    /\ stage = "http" /\ left > 0 /\ left' = left - 1
    /\ IF l = NoLogin THEN login' = l /\ acct' = Nobody /\ key' = <<>> ELSE LogIn(l)
    /\ UNCHANGED <<proto, client, blocked>>

\* Missing, malformed or wrong credentials: 407, and the connection stays.
HttpReject ==
    /\ \E l \in Logins \union {NoLogin} : HttpRead(l)
    /\ acct' = Nobody
    /\ Say("407") /\ rejected' = rejected + 1
    /\ UNCHANGED <<stage, timer, bytes, body>>

\* handleCONNECT: the hijacked reader, and with it what was read behind the header, is
\* dropped (http.go:117).
HttpConnect ==
    /\ \E l \in Logins : HttpRead(l)
    /\ acct' # Nobody
    /\ stage' = "dial" /\ sent' \in Early /\ taken' = sent'
    /\ UNCHANGED <<timer, said, rejected, body>>

HttpBadURL ==
    /\ \E l \in Logins : HttpRead(l)
    /\ acct' # Nobody
    /\ Say("400")
    /\ UNCHANGED <<stage, timer, rejected, bytes, body>>

\* Faulty variant: the request is forwarded without a limit of time.
HttpForwardUnlimited ==
    /\ \E l \in Logins : HttpRead(l)
    /\ acct' # Nobody
    /\ stage' = "forward"
    /\ UNCHANGED <<timer, said, rejected, bytes, body>>

HttpForward ==
    /\ \E l \in Logins : HttpRead(l)
    /\ acct' # Nobody
    /\ stage' = "forward" /\ timer' = ForwardTime
    /\ UNCHANGED <<said, rejected, bytes, body>>

\* The kept connection ends between requests.
HttpClose ==
    /\ stage = "http" /\ clientGone /\ stage' = "closed"
    /\ UNCHANGED <<proto, timer, left, who, said, rejected, bytes, client, blocked, body>>

\* RoundTrip fails (http.go:79-91): the time is up or a dial timed out; a dial failed; the
\* client left or the upstream answered nonsense.
ForwardAnswer(status) ==
    /\ stage' = "http" /\ timer' = Forever /\ said' = Append(said, status)
    /\ UNCHANGED <<proto, left, who, rejected, bytes, client, blocked, body>>
ForwardTimeout == stage = "forward" /\ ForwardAnswer("504")
ForwardFails == stage = "forward" /\ Live /\ \E s \in {"502", "500"} : ForwardAnswer(s)

\* Faulty variant: the upstream's header fields are not copied.
RespondBare ==
    /\ stage = "forward" /\ Live /\ stage' = "body"
    /\ declared' \in BOOLEAN /\ unzipped' \in BOOLEAN /\ told' = FALSE
    /\ whole' = FALSE /\ seen' = "no"
    /\ said' = Append(said, "response")
    /\ UNCHANGED <<proto, timer, left, who, rejected, bytes, client, blocked>>

\* The response's header is copied, its length with it (http.go:94-100).  The transport of
\* http.go:68-76 asks for gzip where the client did not, decompresses such an answer and
\* deletes its length.
Respond ==
    /\ stage = "forward" /\ Live /\ stage' = "body"
    /\ declared' \in BOOLEAN /\ unzipped' \in BOOLEAN /\ told' = (declared' /\ ~unzipped')
    /\ whole' = FALSE /\ seen' = "no"
    /\ said' = Append(said, "response")
    /\ UNCHANGED <<proto, timer, left, who, rejected, bytes, client, blocked>>

\* The copy of the body ends with the body.
BodyEnds ==
    /\ stage = "body" /\ ~blocked /\ Live /\ stage' = "http" /\ timer' = Forever
    /\ whole' = TRUE /\ seen' = "yes"
    /\ UNCHANGED <<proto, left, who, said, rejected, bytes, client, blocked,
                   declared, unzipped, told>>

\* It ends at an error, which is ignored, and the handler returns (http.go:101-103):
\* net/http closes the connection if fewer bytes were written than declared, and ends an
\* undeclared body as if it were complete.
BodyCut ==
    /\ stage = "body" /\ ~blocked
    /\ stage' = IF told THEN "closed" ELSE "http"
    /\ timer' = Forever /\ seen' = IF told THEN "no" ELSE "yes"
    /\ UNCHANGED <<proto, left, who, said, rejected, bytes, client, blocked,
                   declared, unzipped, told, whole>>

\* Between two reads of the body, which the limit of time ends, the copy writes to the
\* client without a deadline: it waits while the client does not read.
WriteBlocks ==
    /\ stage = "body" /\ Live /\ ~clientGone /\ ~blocked /\ blocked' = TRUE
    /\ UNCHANGED <<proto, stage, timer, left, who, said, rejected, bytes, client, body>>

WriteGoesOn ==
    /\ blocked /\ blocked' = FALSE
    /\ UNCHANGED <<proto, stage, timer, left, who, said, rejected, bytes, client, body>>
-----------------------------------------------------------------------------
\* dial uses context.Background(): it does not notice a client that leaves.
DialOK ==
    /\ stage = "dial" /\ stage' = "relay" /\ Say("ok")
    /\ UNCHANGED <<proto, timer, left, who, rejected, bytes, client, blocked, body>>

DialFails ==
    /\ stage = "dial" /\ stage' = "closed" /\ Say("failed")
    /\ UNCHANGED <<proto, timer, left, who, rejected, bytes, client, blocked, body>>

\* The length of a request, by RFC 1928.
RequestLength(f) ==
    CASE f.atyp = "v4" -> 10 [] f.atyp = "v6" -> 22 [] f.atyp = "name" -> 7 + f.len
      [] OTHER -> 6 + f.len

\* The client sends any part of its request, and behind it what is meant for the tunnel,
\* ahead of any answer.
SendBytes ==
    /\ stage \in RequestStages \union {"dial"} /\ ~clientGone
    /\ sent' \in (sent + 1)..(MaxEarly + IF proto = "socks" THEN RequestLength(form) ELSE 0)
    /\ UNCHANGED <<proto, stage, timer, left, who, said, rejected, taken, client, blocked, body>>

ClientLeaves ==
    /\ ~clientGone /\ clientGone' = TRUE
    /\ UNCHANGED <<proto, stage, timer, left, who, said, rejected, bytes, form, blocked, body>>

Tick ==
    /\ timer > 0 /\ timer' = timer - 1
    /\ UNCHANGED <<proto, stage, left, who, said, rejected, bytes, client, blocked, body>>

Next ==
    \/ Accept \/ Greet \/ Login \/ HandshakeFails
    \/ ReadHead \/ ReadLength \/ ReadAddress \/ ReadPortRefused \/ ReadPort
    \/ HttpReject \/ HttpConnect \/ HttpBadURL \/ HttpForward \/ HttpClose
    \/ ForwardTimeout \/ ForwardFails \/ Respond \/ BodyEnds \/ BodyCut
    \/ WriteBlocks \/ WriteGoesOn
    \/ DialOK \/ DialFails \/ SendBytes \/ ClientLeaves \/ Tick

Spec == Init /\ [][Next]_vars

\* A started goroutine runs, time passes, an operation past its deadline returns, and so
\* does a write to a client that has left; clients and upstreams owe nothing.
Fairness ==
    /\ WF_vars(Accept) /\ WF_vars(Tick) /\ WF_vars(HandshakeFails)
    /\ WF_vars(~Live /\ (ForwardTimeout \/ BodyCut)) /\ WF_vars(clientGone /\ WriteGoesOn)
FairSpec == Spec /\ Fairness
-----------------------------------------------------------------------------
Answers == {"no method", "method", "denied", "granted", "bad address type", "bad command",
            "ok", "failed", "407", "400", "504", "502", "500", "response"}

HandshakeTypeOK ==
    /\ proto \in {"socks", "http"} /\ stage \in Stages
    /\ timer \in Int /\ timer >= Forever /\ left \in 0..MaxRequests
    /\ login \in Logins \union {NoLogin} /\ acct \in {Nobody} \union DOMAIN Configured
    /\ key \in Seq(STRING) /\ said \in Seq(Answers) /\ rejected \in Nat
    /\ form \in Forms \union {NoForm} /\ sent \in Nat /\ taken \in 0..sent
    /\ clientGone \in BOOLEAN /\ blocked \in BOOLEAN /\ declared \in BOOLEAN
    /\ unzipped \in BOOLEAN /\ told \in BOOLEAN /\ whole \in BOOLEAN /\ seen \in {"yes", "no"}

\* Whatever was tried before on the same connection, a request is served only for the
\* credentials it came with: the password of the account whose name is in front of the
\* token, by the last entry of that name (proxy.go:112-119, 181-201).
ServedIsAuthenticated ==
    stage \in Serving =>
        /\ acct \in DOMAIN Configured
        /\ Configured[acct].password = login.pass
        /\ Configured[acct].username \o key = login.user
        /\ \A i \in DOMAIN Configured :
              i > acct => Configured[i].username # Configured[acct].username

\* A CONNECT client hears how its dial went however long the dial took: the deadline of
\* the handshake does not reach into it (socks5.go:121).
SlowDialIsAnswered == [][stage = "dial" /\ stage' # "dial" => said' # said]_vars

\* The bytes of the read in progress.
Need ==
    CASE stage = "head" -> HeadLen [] stage = "length" -> 1
      [] stage = "address" -> AddressLen(form) [] stage = "port" -> PortLen

\* The read a SOCKS5 request waits for never asks for a byte its client does not owe, which
\* a client that waits for the answer would never send; and the relay starts at the first
\* byte behind the request, however the bytes arrive (socks5.go:77-121).
RequestReadExactly ==
    /\ stage \in RequestStages /\ form.atyp # "odd" => taken + Need <= RequestLength(form)
    /\ stage \in {"dial", "relay"} /\ proto = "socks" => taken = RequestLength(form)

\* A client is not told that a body cut by the 120 s limit or by the upstream is complete,
\* if the upstream had declared its length and the transport has not decompressed it
\* (http.go:68-101).
CutBodyIsNoticed == seen = "yes" => whole \/ ~declared \/ unzipped

\* socks5.go:12, "bounds the whole SOCKS5 handshake": a silent client does not hold one.
HandshakeEnds == stage \in SocksStages ~> stage \notin SocksStages

\* http.go:14, "bounds a single forwarded HTTP request": it is over in the end whatever the
\* upstream does, if the client reads again after every pause, or leaves.  (A client that
\* stays and does not read holds it for ever.)
ClientReadsOrLeaves == []<>(~blocked \/ clientGone)
ForwardEnds ==
    ClientReadsOrLeaves => (stage \in {"forward", "body"} ~> stage \notin {"forward", "body"})
=============================================================================
