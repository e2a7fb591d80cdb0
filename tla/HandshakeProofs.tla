---------------------------- MODULE HandshakeProofs ----------------------------
(***************************************************************************)
(* Theorems about Handshake, for any accounts, user names, limits of time  *)
(* and numbers of requests.                                                *)
(***************************************************************************)
EXTENDS Handshake, TLAPS

USE DEF Nobody, who, bytes, client, body

\* A user name is the part the table is asked for and the token behind it.
LEMMA NameParts ==
  ASSUME NEW u \in Users PROVE Base(u) \o Token(u) = u /\ Token(u) \in Seq(STRING) /\ u # <<>>
  BY HandshakeAssumption DEF Base, Token

\* The table holds the last account of a name, or none.
LEMMA AccountOf ==
  ASSUME NEW name, Account(name) # Nobody
  PROVE  /\ Account(name) \in DOMAIN Configured
         /\ Configured[Account(name)].username = name
         /\ \A i \in DOMAIN Configured : Configured[i].username = name => i <= Account(name)
<1> DEFINE last == {i \in Entries(name) : \A j \in Entries(name) : j <= i}
<1>1. last # {} BY DEF Account
<1>2. Account(name) \in last BY <1>1 DEF Account
<1>3. DOMAIN Configured \subseteq Nat \ {0} BY HandshakeAssumption
<1> QED BY <1>2 DEF Entries

\* Whoever is logged in has given the password of the last account of its name.
LEMMA LoggedIn ==
  ASSUME NEW l \in Logins, LogIn(l)
  PROVE  /\ login' = l /\ acct' \in {Nobody} \union DOMAIN Configured /\ key' \in Seq(STRING)
         /\ acct' # Nobody =>
              /\ acct' \in DOMAIN Configured
              /\ Configured[acct'].password = login'.pass
              /\ Configured[acct'].username \o key' = login'.user
              /\ \A i \in DOMAIN Configured :
                    i > acct' => Configured[i].username # Configured[acct'].username
<1>1. login' = l /\ l.user \in Users BY DEF LogIn, Logins
<1>2. CASE acct' = Nobody BY <1>1, <1>2 DEF LogIn
<1>3. CASE acct' # Nobody
  <2>1. /\ Account(Base(l.user)) # Nobody /\ acct' = Account(Base(l.user))
        /\ Configured[acct'].password = l.pass /\ key' = Token(l.user)
    BY <1>3 DEF LogIn, Authenticate
  <2>2. /\ acct' \in DOMAIN Configured /\ Configured[acct'].username = Base(l.user)
        /\ \A i \in DOMAIN Configured : Configured[i].username = Base(l.user) => i <= acct'
    BY <2>1, AccountOf
  <2>3. Base(l.user) \o Token(l.user) = l.user /\ Token(l.user) \in Seq(STRING)
    BY <1>1, NameParts
  <2>4. DOMAIN Configured \subseteq Nat \ {0} BY HandshakeAssumption
  <2> QED BY <1>1, <2>1, <2>2, <2>3, <2>4
<1> QED BY <1>2, <1>3

-----------------------------------------------------------------------------
\* A connection keeps its protocol's stages; only a handshake or a forwarding runs on a clock.
StageInv ==
    /\ stage \in SocksStages => proto = "socks"
    /\ stage \in {"http", "forward", "body"} => proto = "http"
    /\ stage \in {"accepted", "http", "dial"} => timer = Forever

\* Already the request of a SOCKS5 client is taken only from an authenticated one.
AuthInv ==
    stage \in Serving \union RequestStages =>
        /\ acct \in DOMAIN Configured
        /\ Configured[acct].password = login.pass
        /\ Configured[acct].username \o key = login.user
        /\ \A i \in DOMAIN Configured :
              i > acct => Configured[i].username # Configured[acct].username

\* What has been read of a request is what lies in front of the part to come.
ReadInv ==
    /\ proto = "socks" /\ stage \in {"accepted", "greet", "login", "head"} => taken = 0
    /\ stage = "length" => form.atyp = "name" /\ taken = 4
    /\ stage = "address" => \/ form.atyp \in {"v4", "v6"} /\ taken = 4
                            \/ form.atyp = "name" /\ taken = 5
    /\ stage = "port" => form.atyp # "odd" /\ taken + 2 = RequestLength(form)
    /\ stage \in {"dial", "relay"} /\ proto = "socks" => taken = RequestLength(form)

\* The length is told while the body is written, unless the transport took it away, and the
\* verdict is about that body.
BodyInv ==
    /\ stage = "body" => told = (declared /\ ~unzipped)
    /\ seen = "yes" => whole \/ ~declared \/ unzipped

HandshakeInv == HandshakeTypeOK /\ StageInv /\ AuthInv /\ ReadInv /\ BodyInv

USE DEF RequestStages, SocksStages, Serving, Stages, Live

\* The values of a clock: off, or what is left.
Clocks == {t \in Int : t >= Forever}

\* What the proofs below use of the bounds.
LEMMA Bounds ==
  /\ HandshakeTime \in Clocks /\ ForwardTime \in Clocks /\ Forever \in Clocks
  /\ 0 \in Early /\ Early \subseteq Nat
  /\ MaxRequests \in 0..MaxRequests
  /\ \A n \in 0..MaxRequests : n > 0 => n - 1 \in 0..MaxRequests
  /\ \A n \in Nat : n + 1 \in Nat
  /\ <<>> \in Seq(STRING) /\ <<>> \in Seq(Answers)
  /\ \A t \in Clocks : t > 0 => t - 1 \in Clocks
  BY HandshakeAssumption DEF Early, Clocks, Forever

\* The parts in order make up the request.
LEMMA Layout ==
  ASSUME NEW f \in Forms \union {NoForm}
  PROVE  /\ AddressLen(f) \in Nat /\ RequestLength(f) \in Nat
         /\ f.atyp \in {"v4", "v6"} => 4 + AddressLen(f) + 2 = RequestLength(f)
         /\ f.atyp = "name" => 5 + AddressLen(f) + 2 = RequestLength(f)
<1>1. f.atyp \in {"v4", "v6", "name", "odd"} /\ f.len \in Nat
  BY HandshakeAssumption DEF NoForm
<1> QED BY <1>1 DEF AddressLen, RequestLength

\* A new connection.
LEMMA InitInv == Init => HandshakeInv
<1> SUFFICES ASSUME Init PROVE HandshakeInv
  OBVIOUS
<1> USE DEF Init
<1>1. HandshakeTypeOK
  <2>1. timer \in Int /\ timer >= Forever /\ left \in 0..MaxRequests
    BY Bounds DEF Clocks
  <2>2. login \in {NoLogin} /\ key \in Seq(STRING) /\ said \in Seq(Answers)
      /\ form \in Forms \union {NoForm}
    BY Bounds
  <2>3. sent \in Nat /\ taken \in 0..sent OBVIOUS
  <2> QED BY <2>1, <2>2, <2>3 DEF HandshakeTypeOK
<1>2. StageInv BY DEF StageInv
<1>3. AuthInv BY DEF AuthInv
<1>4. ReadInv BY DEF ReadInv
<1>5. BodyInv BY DEF BodyInv
<1> QED BY <1>1, <1>2, <1>3, <1>4, <1>5 DEF HandshakeInv

\* The answers by name.
LEMMA AnswerNames ==
  /\ {"no method", "method", "denied", "granted", "bad address type", "bad command"} \subseteq Answers
  /\ {"ok", "failed", "407", "400", "504", "502", "500", "response"} \subseteq Answers
  BY DEF Answers

\* Saying something appends one answer, or nothing once the deadline has passed.
LEMMA Saying ==
  ASSUME said \in Seq(Answers), NEW a \in Answers
  PROVE  /\ Append(said, a) \in Seq(Answers) /\ Append(said, a) # said
         /\ Say(a) => said' \in Seq(Answers)
<1>1. Append(said, a) \in Seq(Answers) /\ Append(said, a) # said OBVIOUS
<1> QED BY <1>1 DEF Say

\* No step takes a byte that has not come.
LEMMA BytesStep ==
  HandshakeInv /\ [Next]_vars =>
    form' \in Forms \union {NoForm} /\ sent' \in Nat /\ taken' \in 0..sent'
<1> SUFFICES ASSUME HandshakeInv, [Next]_vars
             PROVE  form' \in Forms \union {NoForm} /\ sent' \in Nat /\ taken' \in 0..sent'
  OBVIOUS
<1>1. form \in Forms \union {NoForm} /\ sent \in Nat /\ taken \in 0..sent
  BY DEF HandshakeInv, HandshakeTypeOK
<1>2. HeadLen \in Nat /\ PortLen \in Nat /\ AddressLen(form) \in Nat
  BY <1>1, Layout DEF HeadLen, PortLen
<1>3. ASSUME NEW here, NEW n \in Nat, NEW next, ReadPart(here, n, next)
      PROVE  form' = form /\ sent' = sent /\ taken' \in 0..sent
  BY <1>1, <1>3 DEF ReadPart, ReadFull
<1>4. CASE ReadHead \/ ReadLength \/ ReadAddress \/ ReadPortRefused \/ ReadPort
  BY <1>1, <1>2, <1>3, <1>4 DEF ReadHead, ReadLength, ReadAddress, ReadPortRefused, ReadPort
<1>5. CASE HttpConnect
  <2>1. form' = form /\ sent' \in Nat /\ taken' = sent'
    BY <1>5, Bounds DEF HttpConnect, HttpRead
  <2> QED BY <1>1, <2>1
<1>6. CASE SendBytes BY <1>1, <1>6 DEF SendBytes
<1>7. CASE ~(\/ ReadHead \/ ReadLength \/ ReadAddress \/ ReadPortRefused \/ ReadPort
             \/ HttpConnect \/ SendBytes)
  <2>1. UNCHANGED <<form, sent, taken>>
    BY <1>7 DEF Next, vars, Accept, Greet, Login, HandshakeFails, HttpReject, HttpRead,
       HttpBadURL, HttpForward, HttpClose, ForwardTimeout, ForwardFails, ForwardAnswer,
       Respond, BodyEnds, BodyCut, WriteBlocks, WriteGoesOn, DialOK, DialFails, ClientLeaves, Tick
  <2> QED BY <1>1, <2>1
<1> QED BY <1>4, <1>5, <1>6, <1>7

\* Every step keeps the types.
LEMMA TypeStep == HandshakeInv /\ [Next]_vars => HandshakeTypeOK'
<1> SUFFICES ASSUME HandshakeInv, [Next]_vars PROVE HandshakeTypeOK'
  OBVIOUS
<1> USE DEF HandshakeInv, HandshakeTypeOK, Clocks
<1>0. \A a \in Answers : Append(said, a) \in Seq(Answers) /\ (Say(a) => said' \in Seq(Answers))
  BY Saying
<1>b. form' \in Forms \union {NoForm} /\ sent' \in Nat /\ taken' \in 0..sent'
  BY BytesStep
<1> USE Bounds, AnswerNames, <1>0, <1>b
<1>1. CASE Accept BY <1>1 DEF Accept
<1>2. CASE Greet BY <1>2, ZenonT(60) DEF Greet
<1>3. CASE Login
  <2>1. PICK l \in Logins : LogIn(l) BY <1>3 DEF Login
  <2>2. login' \in Logins /\ acct' \in {Nobody} \union DOMAIN Configured /\ key' \in Seq(STRING)
    BY <2>1, LoggedIn
  <2>3. rejected + 1 \in Nat OBVIOUS
  <2>4. CASE acct' = Nobody BY <1>3, <2>2, <2>3, <2>4 DEF Login
  <2>5. CASE acct' # Nobody BY <1>3, <2>2, <2>5 DEF Login
  <2> QED BY <2>4, <2>5
<1>4. ASSUME NEW here, NEW n \in Nat, NEW next \in Stages, ReadPart(here, n, next)
      PROVE  stage' \in Stages /\ UNCHANGED <<proto, left, who, rejected, client, blocked, body>>
  BY <1>4 DEF ReadPart
<1>5. CASE ReadHead \/ ReadLength \/ ReadAddress \/ ReadPortRefused \/ ReadPort
  <2>1. HeadLen \in Nat /\ PortLen \in Nat /\ AddressLen(form) \in Nat
    BY Layout DEF HeadLen, PortLen
  <2>2. CASE ReadHead BY <1>4, <2>1, <2>2 DEF ReadHead
  <2>3. CASE ReadLength BY <1>4, <2>3 DEF ReadLength
  <2>4. CASE ReadAddress BY <1>4, <2>1, <2>4 DEF ReadAddress
  <2>5. CASE ReadPortRefused BY <1>4, <2>1, <2>5 DEF ReadPortRefused
  <2>6. CASE ReadPort BY <1>4, <2>1, <2>6 DEF ReadPort
  <2> QED BY <1>5, <2>2, <2>3, <2>4, <2>5, <2>6
<1>6. CASE HandshakeFails BY <1>6 DEF HandshakeFails
<1>7. ASSUME NEW l \in Logins \union {NoLogin}, HttpRead(l)
      PROVE  /\ login' \in Logins \union {NoLogin} /\ acct' \in {Nobody} \union DOMAIN Configured
             /\ key' \in Seq(STRING) /\ left' \in 0..MaxRequests
             /\ UNCHANGED <<proto, client, blocked>>
  <2>1. CASE l = NoLogin BY <1>7, <2>1 DEF HttpRead
  <2>2. CASE l # NoLogin
    <3>1. l \in Logins /\ LogIn(l) BY <1>7, <2>2 DEF HttpRead
    <3>2. login' \in Logins /\ acct' \in {Nobody} \union DOMAIN Configured /\ key' \in Seq(STRING)
      BY <3>1, LoggedIn
    <3> QED BY <1>7, <3>2 DEF HttpRead
  <2> QED BY <2>1, <2>2
<1>8. CASE HttpReject
  <2>1. rejected + 1 \in Nat OBVIOUS
  <2> QED BY <1>7, <1>8, <2>1, ZenonT(60) DEF HttpReject
<1>9. CASE HttpConnect BY <1>7, <1>9 DEF HttpConnect
<1>10. CASE HttpBadURL BY <1>7, <1>10, ZenonT(60) DEF HttpBadURL
<1>11. CASE HttpForward BY <1>7, <1>11 DEF HttpForward
<1>12. CASE HttpClose BY <1>12 DEF HttpClose
<1>13. CASE ForwardTimeout BY <1>13 DEF ForwardTimeout, ForwardAnswer
<1>14. CASE ForwardFails BY <1>14 DEF ForwardFails, ForwardAnswer
<1>15. CASE Respond BY <1>15 DEF Respond
<1>16. CASE BodyEnds BY <1>16 DEF BodyEnds
<1>17. CASE BodyCut BY <1>17 DEF BodyCut
<1>18. CASE DialOK BY <1>18 DEF DialOK
<1>19. CASE DialFails BY <1>19 DEF DialFails
<1>20. CASE SendBytes BY <1>20 DEF SendBytes
<1>21. CASE ClientLeaves BY <1>21, ZenonT(60) DEF ClientLeaves
<1>22. CASE Tick BY <1>22, ZenonT(60) DEF Tick
<1>23. CASE WriteBlocks \/ WriteGoesOn BY <1>23, ZenonT(60) DEF WriteBlocks, WriteGoesOn
<1>24. CASE UNCHANGED vars BY <1>24, ZenonT(60) DEF vars
<1> QED
  BY <1>1, <1>2, <1>3, <1>5, <1>6, <1>8, <1>9, <1>10, <1>11, <1>12, <1>13, <1>14, <1>15, <1>16,
     <1>17, <1>18, <1>19, <1>20, <1>21, <1>22, <1>23, <1>24 DEF Next

\* Credentials are set by Login for the stages behind it, and by each HTTP request.
LEMMA AuthStep == HandshakeInv /\ [Next]_vars => AuthInv'
<1> SUFFICES ASSUME HandshakeInv, [Next]_vars PROVE AuthInv'
  OBVIOUS
<1> USE DEF HandshakeInv, AuthInv
<1>1. CASE stage' \notin Serving \union RequestStages BY <1>1
<1>2. CASE Login
  <2>1. PICK l \in Logins : LogIn(l) BY <1>2 DEF Login
  <2>2. CASE acct' = Nobody BY <1>1, <1>2, <2>2 DEF Login
  <2>3. CASE acct' # Nobody BY <2>1, <2>3, LoggedIn
  <2> QED BY <2>2, <2>3
<1>3. CASE HttpConnect \/ HttpForward
  <2>1. PICK l \in Logins : HttpRead(l) BY <1>3 DEF HttpConnect, HttpForward
  <2>2. l # NoLogin
    <3>1. l.user \in Users BY DEF Logins
    <3>2. l.user # <<>> BY <3>1, HandshakeAssumption
    <3>3. NoLogin.user = <<>> BY DEF NoLogin
    <3> QED BY <3>2, <3>3
  <2>3. LogIn(l) /\ acct' # Nobody BY <1>3, <2>1, <2>2 DEF HttpRead, HttpConnect, HttpForward
  <2> QED BY <2>3, LoggedIn
<1>4. CASE /\ stage \in Serving \union RequestStages /\ UNCHANGED who
  BY <1>4
<1>5. CASE stage' \in Serving \union RequestStages /\ ~(Login \/ HttpConnect \/ HttpForward)
  <2>1. stage \in Serving \union RequestStages /\ UNCHANGED who
    BY <1>5 DEF Next, vars, HandshakeTypeOK, StageInv, Accept, Greet, ReadHead,
       ReadLength, ReadAddress, ReadPortRefused, ReadPort, ReadPart, HandshakeFails, HttpReject,
       HttpRead, HttpBadURL, HttpClose, ForwardTimeout, ForwardFails, ForwardAnswer, Respond,
       BodyEnds, BodyCut, WriteBlocks, WriteGoesOn, DialOK, DialFails, SendBytes, ClientLeaves,
       Tick
  <2> QED BY <2>1, <1>4
<1> QED BY <1>1, <1>2, <1>3, <1>5

\* The deadline, the bytes of the request and the verdict on a body.
LEMMA FlowStep == HandshakeInv /\ [Next]_vars => StageInv' /\ ReadInv' /\ BodyInv'
<1> SUFFICES ASSUME HandshakeInv, [Next]_vars PROVE StageInv' /\ ReadInv' /\ BodyInv'
  OBVIOUS
<1> USE DEF HandshakeInv, StageInv, ReadInv, BodyInv
<1>0. proto \in {"socks", "http"} /\ stage \in Stages /\ seen \in {"yes", "no"} /\ told \in BOOLEAN
      /\ form \in Forms \union {NoForm} /\ taken \in Int
  BY DEF HandshakeTypeOK
<1>1. CASE Accept BY <1>0, <1>1 DEF Accept
<1>2. CASE Greet \/ Login \/ HandshakeFails
  <2>1. CASE Greet BY <2>1 DEF Greet
  <2>2. CASE Login BY <2>2 DEF Login
  <2>3. CASE HandshakeFails BY <2>3 DEF HandshakeFails
  <2> QED BY <1>2, <2>1, <2>2, <2>3
<1>3. CASE ReadHead \/ ReadLength \/ ReadAddress \/ ReadPortRefused \/ ReadPort
  <2>0. /\ AddressLen(form) \in Nat /\ RequestLength(form) \in Nat
        /\ form.atyp \in {"v4", "v6"} => 4 + AddressLen(form) + 2 = RequestLength(form)
        /\ form.atyp = "name" => 5 + AddressLen(form) + 2 = RequestLength(form)
        /\ HeadLen = 4 /\ PortLen = 2
    BY <1>0, Layout DEF HeadLen, PortLen
  <2>1. CASE ReadHead
    <3>1. /\ stage = "head" /\ taken' = taken + HeadLen /\ UNCHANGED <<proto, timer, client, body>>
          /\ \/ stage' = "closed"
             \/ stage' = "length" /\ form.atyp = "name"
             \/ stage' = "address" /\ form.atyp \in {"v4", "v6"}
      BY <2>1 DEF ReadHead, ReadPart, ReadFull
    <3>2. proto = "socks" /\ taken' = 4 BY <2>0, <3>1
    <3> QED BY <1>0, <3>1, <3>2
  <2>2. CASE ReadLength BY <1>0, <2>0, <2>2 DEF ReadLength, ReadPart, ReadFull
  <2>3. CASE ReadAddress BY <1>0, <2>0, <2>3 DEF ReadAddress, ReadPart, ReadFull
  <2>4. CASE ReadPortRefused BY <1>0, <2>0, <2>4 DEF ReadPortRefused, ReadPart, ReadFull
  <2>5. CASE ReadPort BY <1>0, <2>0, <2>5 DEF ReadPort, ReadPart, ReadFull
  <2> QED BY <1>3, <2>1, <2>2, <2>3, <2>4, <2>5
<1>4. CASE HttpReject \/ HttpConnect \/ HttpBadURL \/ HttpForward \/ HttpClose
  <2>1. proto = "http" /\ proto' = "http" /\ stage = "http"
    BY <1>4 DEF HttpReject, HttpConnect, HttpBadURL, HttpForward, HttpClose, HttpRead
  <2>2. StageInv' BY <1>4, <2>1 DEF HttpReject, HttpConnect, HttpBadURL, HttpForward, HttpClose
  <2>3. BodyInv' BY <1>4 DEF HttpReject, HttpConnect, HttpBadURL, HttpForward, HttpClose
  <2>4. ReadInv'
    BY <1>4, <2>1 DEF HttpReject, HttpConnect, HttpBadURL, HttpForward, HttpClose
  <2> QED BY <2>2, <2>3, <2>4
<1>5. CASE ForwardTimeout \/ ForwardFails
  BY <1>5 DEF ForwardTimeout, ForwardFails, ForwardAnswer
<1>6. CASE Respond BY <1>6 DEF Respond
<1>7. CASE BodyEnds \/ BodyCut BY <1>0, <1>7 DEF BodyEnds, BodyCut
<1>8. CASE DialOK \/ DialFails BY <1>8 DEF DialOK, DialFails
<1>9. CASE WriteBlocks \/ WriteGoesOn \/ SendBytes
  BY <1>9 DEF WriteBlocks, WriteGoesOn, SendBytes
<1>10. CASE ClientLeaves BY <1>10 DEF ClientLeaves
<1>11. CASE Tick
  <2>1. timer # Forever BY <1>11 DEF Tick, Forever
  <2> QED BY <1>11, <2>1 DEF Tick
<1>12. CASE UNCHANGED vars BY <1>12 DEF vars
<1> QED
  BY <1>1, <1>2, <1>3, <1>4, <1>5, <1>6, <1>7, <1>8, <1>9, <1>10, <1>11, <1>12 DEF Next

\* The strengthened invariant of a client connection holds in every state.
THEOREM HandshakeInvariant == Spec => []HandshakeInv
<1>1. HandshakeInv /\ [Next]_vars => HandshakeInv'
  BY TypeStep, AuthStep, FlowStep DEF HandshakeInv
<1> QED BY <1>1, InitInv, PTL DEF Spec

\* Type correctness of a client connection, SOCKS5 or HTTP (socks5.go:15-136, http.go:34-135).
THEOREM HandshakeTypeCorrect == Spec => []HandshakeTypeOK
<1>1. HandshakeInv => HandshakeTypeOK BY DEF HandshakeInv
<1> QED BY <1>1, HandshakeInvariant, PTL

\* Nobody is served but on the password of the last account of the name given
\* (proxy.go:112-119, 181-201), for any table and any client.
THEOREM OnlyAuthenticated == Spec => []ServedIsAuthenticated
<1>1. HandshakeInv => ServedIsAuthenticated BY DEF HandshakeInv, AuthInv, ServedIsAuthenticated
<1> QED BY <1>1, HandshakeInvariant, PTL

\* Whatever the layout of a SOCKS5 request and however its bytes arrive, a read never asks for
\* more of it than there is, and the dial starts with all of it read and not a byte more
\* (socks5.go:77-121).
THEOREM RequestsReadExactly == Spec => []RequestReadExactly
<1>1. HandshakeInv => RequestReadExactly
  <2> SUFFICES ASSUME HandshakeInv PROVE RequestReadExactly
    OBVIOUS
  <2> USE DEF HandshakeInv, ReadInv
  <2>1. stage \in RequestStages => proto = "socks" BY DEF StageInv
  <2>2. form \in Forms \union {NoForm} BY DEF HandshakeTypeOK
  <2>3. /\ AddressLen(form) \in Nat /\ RequestLength(form) \in Nat
        /\ form.atyp \in {"v4", "v6"} => 4 + AddressLen(form) + 2 = RequestLength(form)
        /\ form.atyp = "name" => 5 + AddressLen(form) + 2 = RequestLength(form)
        /\ form.atyp \in {"v4", "v6", "name", "odd"}
    BY <2>2, Layout, HandshakeAssumption DEF NoForm
  <2>4. stage \in RequestStages /\ form.atyp # "odd" => taken + Need <= RequestLength(form)
    <3>1. CASE stage = "head" BY <2>1, <2>3, <3>1 DEF Need, HeadLen
    <3>2. CASE stage = "length" BY <2>3, <3>2 DEF Need
    <3>3. CASE stage = "address" BY <2>3, <3>3 DEF Need
    <3>4. CASE stage = "port" BY <2>3, <3>4 DEF Need, PortLen
    <3> QED BY <3>1, <3>2, <3>3, <3>4
  <2> QED BY <2>4 DEF RequestReadExactly
<1> QED BY <1>1, HandshakeInvariant, PTL

\* A cut body of declared length is never taken for complete, unless the transport had
\* decompressed it (http.go:68-101).
THEOREM CutIsNoticed == Spec => []CutBodyIsNoticed
<1>1. HandshakeInv => CutBodyIsNoticed BY DEF HandshakeInv, BodyInv, CutBodyIsNoticed
<1> QED BY <1>1, HandshakeInvariant, PTL

\* No deadline runs while dialing, so the answer is written (socks5.go:121-138).
THEOREM DialIsAnswered == Spec => SlowDialIsAnswered
<1> DEFINE Answered == stage = "dial" /\ stage' # "dial" => said' # said
<1>1. HandshakeInv /\ [Next]_vars => [Answered]_vars
  <2> SUFFICES ASSUME HandshakeInv, Next, stage = "dial", stage' # "dial" PROVE said' # said
    OBVIOUS
  <2>1. DialOK \/ DialFails
    BY DEF Next, Accept, Greet, Login, ReadHead, ReadLength, ReadAddress, ReadPortRefused,
       ReadPort, ReadPart, HandshakeFails, HttpReject, HttpConnect, HttpForward, HttpRead,
       HttpBadURL, HttpClose, ForwardTimeout, ForwardFails, ForwardAnswer, Respond, BodyEnds,
       BodyCut, WriteBlocks, WriteGoesOn, SendBytes, ClientLeaves, Tick
  <2>2. timer # 0 BY DEF HandshakeInv, StageInv, Forever
  <2>3. /\ "ok" \in Answers /\ "failed" \in Answers /\ said \in Seq(Answers)
    BY AnswerNames DEF HandshakeInv, HandshakeTypeOK
  <2>4. Append(said, "ok") # said /\ Append(said, "failed") # said BY <2>3, Saying
  <2> QED BY <2>1, <2>2, <2>4 DEF DialOK, DialFails, Say
<1>2. [][Answered]_vars => SlowDialIsAnswered BY PTL DEF SlowDialIsAnswered
<1> QED BY <1>1, <1>2, HandshakeInvariant, PTL DEF Spec
===============================================================================
