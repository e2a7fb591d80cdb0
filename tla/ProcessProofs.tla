----------------------------- MODULE ProcessProofs -----------------------------
(***************************************************************************)
(* Theorems about Process, for any set of files and any number of boots:   *)
(* what serves, which limits are in use, and which walks are apart.        *)
(***************************************************************************)
EXTENDS Process, PowersProofs, TLAPS

USE DEF listeners, Exit

\* The phases in which the configuration is in use, and those a listener is asked before.
InUse == {"http", "socks", "stats", "sweeper", "running"}
Later == [http |-> {"socks", "stats", "sweeper", "running"},
          socks |-> {"stats", "sweeper", "running"},
          stats |-> {"sweeper", "running"}]

\* What New keeps of a file.
Built(f) == [WithDefaults(f) EXCEPT !.hostsMax = IF @ > 0 THEN @ ELSE DefaultStreams]

\* The configuration in use is the file with its defaults, and was found valid.
CfgInv ==
    /\ file \in Files /\ phase \in Phases
    /\ phase = "new" => Valid(WithDefaults(file)) /\ cfg = WithDefaults(file)
    /\ phase \in InUse => Valid(WithDefaults(file)) /\ cfg = Built(file)

Serving(l) == l \in up \union failed \/ Reported(l)

\* Whom run has asked so far, and nobody else, serves or has failed.
ServingInv ==
    /\ errs \in Seq(Listeners)
    /\ phase \in {"load", "new", "ended"} => up = {} /\ failed = {} /\ errs = <<>>
    /\ \A l \in Listeners : phase \in InUse => (Serving(l) <=> phase \in Later[l] /\ Asked(l))

\* run asks the listeners one after the other.
LEMMA Order ==
  ASSUME NEW l \in Listeners
  PROVE  /\ After[l] \in Later[l] /\ l \notin Later[l] /\ l \in InUse
         /\ "running" \in Later[l] /\ "sweeper" \in Later[l]
         /\ Later[l] \subseteq InUse
         /\ \A k \in Listeners \ {l} : l \in Later[k] <=> After[l] \in Later[k]
         /\ \A k \in Listeners \ {l} : After[l] \in Later[k] => l \in Later[k]
  BY DEF Listeners, After, Later, InUse

\* No configuration is in use before the first load.
LEMMA CfgInit == Init => CfgInv
  BY DEF Init, CfgInv, InUse, Phases

\* Only Load and New write the configuration; every other step leaves it as it is.
LEMMA CfgStep == CfgInv /\ [Next]_vars => CfgInv'
<1> SUFFICES ASSUME CfgInv, [Next]_vars PROVE CfgInv'
  OBVIOUS
<1> USE DEF CfgInv, InUse, Phases
<1>1. CASE Load
  <2>1. CASE phase' = "ended" BY <1>1, <2>1 DEF Load
  <2>2. CASE phase' # "ended"
    <3>1. /\ Valid(WithDefaults(file)) /\ cfg' = WithDefaults(file)
          /\ phase' = "new" /\ file' = file
      BY <1>1, <2>2 DEF Load
    <3> QED BY <3>1
  <2> QED BY <2>1, <2>2
<1>2. CASE New BY <1>2 DEF New, Built
<1>3. CASE StartSweeper \/ ReturnTold \/ ReturnFailed
  BY <1>3 DEF StartSweeper, ReturnTold, ReturnFailed
<1>4. ASSUME NEW l \in Listeners, OpenNone(l) \/ Open(l) \/ OpenRefused(l) PROVE CfgInv'
  BY <1>4, Order DEF OpenNone, Open, OpenRefused, Listeners
<1>5. CASE StopSweeper \/ Signal \/ Kill BY <1>5 DEF StopSweeper, Signal, Kill
<1>6. CASE Start BY <1>6 DEF Start
<1>7. ASSUME NEW l \in Listeners, ServeReturns(l) \/ Report(l) PROVE CfgInv'
  BY <1>7 DEF ServeReturns, Report
<1>8. CASE UNCHANGED vars BY <1>8 DEF vars
<1> QED BY <1>1, <1>2, <1>3, <1>4, <1>5, <1>6, <1>7, <1>8 DEF Next, Main

\* The defaults, field by field.
LEMMA DefaultsOf ==
  ASSUME NEW f \in Files
  PROVE  /\ \A l \in Listeners : WithDefaults(f).enable[l] = "true" <=> f.enable[l] # "false"
         /\ \A l \in Listeners :
               WithDefaults(f).listen[l] = IF l = "stats" THEN f.listen[l] ELSE "addr"
         /\ WithDefaults(f).prefix = f.prefix /\ WithDefaults(f).seed = f.seed
         /\ WithDefaults(f).auto = f.auto /\ WithDefaults(f).accounts = f.accounts
         /\ Built(f).enable = WithDefaults(f).enable /\ Built(f).listen = WithDefaults(f).listen
         /\ Built(f).limits = WithDefaults(f).limits /\ Built(f).bits = WithDefaults(f).bits
         /\ Built(f).prefix = WithDefaults(f).prefix /\ Built(f).hosts = WithDefaults(f).hosts
         /\ Built(f).auto = WithDefaults(f).auto /\ Built(f).fixed = WithDefaults(f).fixed
<1>1. f \in FileType BY ProcessAssumption
<1> QED BY <1>1 DEF WithDefaults, Built, FileType, SwitchedOn

\* What is in a sequence with one more entry.
LEMMA Appended ==
  ASSUME NEW S, NEW q \in Seq(S), NEW a \in S, NEW k
  PROVE  (\E i \in DOMAIN Append(q, a) : Append(q, a)[i] = k) <=> (\E i \in DOMAIN q : q[i] = k) \/ k = a
<1>1. DOMAIN Append(q, a) = 1..(Len(q) + 1) /\ Len(q) \in Nat OBVIOUS
<1>2. /\ \A i \in DOMAIN q : i \in DOMAIN Append(q, a) /\ Append(q, a)[i] = q[i]
      /\ Append(q, a)[Len(q) + 1] = a
  OBVIOUS
<1>3. \A i \in DOMAIN Append(q, a) : i \in DOMAIN q \/ i = Len(q) + 1 BY <1>1
<1> QED BY <1>1, <1>2, <1>3

\* run asks each listener once, and whoever serves reports its end.
LEMMA ServingStep == CfgInv /\ ServingInv /\ [Next]_vars => ServingInv'
<1> SUFFICES ASSUME CfgInv, ServingInv, [Next]_vars PROVE ServingInv'
  OBVIOUS
<1> USE DEF ServingInv, CfgInv
<1>1. CASE Load \/ ReturnTold \/ ReturnFailed \/ Kill \/ Start
  <2>1. errs' \in Seq(Listeners) /\ up' = {} /\ failed' = {} /\ errs' = <<>> /\ phase' \notin InUse
    <3>1. CASE Load BY <3>1 DEF Load, InUse
    <3>2. CASE ReturnTold \/ ReturnFailed \/ Kill
      <4>1. Exit("ok") \/ Exit("error") \/ Exit("killed")
        BY <3>2 DEF ReturnTold, ReturnFailed, Kill
      <4>2. up' = {} /\ failed' = {} /\ errs' = <<>> /\ phase' \notin InUse BY <4>1 DEF InUse
      <4>3. <<>> \in Seq(Listeners) OBVIOUS
      <4> QED BY <4>2, <4>3
    <3>3. CASE Start BY <3>3 DEF Start, InUse
    <3> QED BY <1>1, <3>1, <3>2, <3>3
  <2> QED BY <2>1
<1>2. CASE New
  <2>1. errs' = <<>> /\ up' = {} /\ failed' = {} /\ phase' = "http" BY <1>2 DEF New
  <2>2. \A l \in Listeners : phase' \notin Later[l] BY <2>1 DEF Listeners, Later
  <2>3. \A l \in Listeners : ~Serving(l)' BY <2>1 DEF Serving, Reported
  <2> QED BY <2>1, <2>2, <2>3
<1>3. ASSUME NEW l \in Listeners, OpenNone(l) \/ Open(l) PROVE ServingInv'
  <2>1. /\ phase = l /\ phase' = After[l] /\ UNCHANGED <<cfg, failed, errs>>
        /\ up' = IF Asked(l) THEN up \union {l} ELSE up
    BY <1>3 DEF OpenNone, Open
  <2>2. \A k \in Listeners : Asked(k)' <=> Asked(k) BY <2>1 DEF Asked
  <2>3. phase' \in InUse /\ phase \in InUse BY <2>1, Order
  <2>4. Serving(l)' <=> phase' \in Later[l] /\ Asked(l)'
    BY <2>1, <2>2, <2>3, Order DEF Serving, Reported
  <2>5. ASSUME NEW k \in Listeners \ {l}
        PROVE  Serving(k)' <=> phase' \in Later[k] /\ Asked(k)'
    <3>1. Serving(k)' <=> Serving(k) BY <2>1 DEF Serving, Reported
    <3>2. phase' \in Later[k] <=> phase \in Later[k] BY <2>1, Order
    <3> QED BY <2>2, <2>3, <3>1, <3>2
  <2>6. errs' \in Seq(Listeners) BY <2>1
  <2>7. phase' \notin {"load", "new", "ended"} BY <2>3 DEF InUse
  <2> QED BY <2>4, <2>5, <2>6, <2>7
<1>4. ASSUME NEW l \in Listeners, OpenRefused(l) PROVE ServingInv'
  <2>1. errs' \in Seq(Listeners) /\ up' = {} /\ failed' = {} /\ errs' = <<>> /\ phase' \notin InUse
    BY <1>4 DEF OpenRefused, InUse
  <2> QED BY <2>1
<1>5. CASE StartSweeper
  <2>1. /\ phase = "sweeper" /\ phase' = "running" /\ UNCHANGED <<cfg, up, failed, errs>>
    BY <1>5 DEF StartSweeper
  <2>2. \A l \in Listeners : phase \in Later[l] /\ phase' \in Later[l] BY <2>1, Order
  <2>3. \A l \in Listeners : (Serving(l)' <=> Serving(l)) /\ (Asked(l)' <=> Asked(l))
    BY <2>1 DEF Serving, Reported, Asked
  <2>4. phase \in InUse BY <2>1 DEF InUse
  <2> QED BY <2>1, <2>2, <2>3, <2>4
<1>6. CASE StopSweeper \/ Signal \/ UNCHANGED vars
  <2>1. UNCHANGED <<phase, cfg, up, failed, errs>> BY <1>6 DEF StopSweeper, Signal, vars
  <2>2. \A l \in Listeners : (Serving(l)' <=> Serving(l)) /\ (Asked(l)' <=> Asked(l))
    BY <2>1 DEF Serving, Reported, Asked
  <2> QED BY <2>1, <2>2
<1>7. ASSUME NEW l \in Listeners, ServeReturns(l) \/ Report(l) PROVE ServingInv'
  <2>1. l \in up \/ l \in failed BY <1>7 DEF ServeReturns, Report
  <2>2. UNCHANGED <<phase, cfg>> /\ phase \notin {"load", "new", "ended"}
    BY <1>7, <2>1 DEF ServeReturns, Report
  <2>3. \A k \in Listeners : Asked(k)' <=> Asked(k) BY <2>2 DEF Asked
  <2>4. errs' \in Seq(Listeners) BY <1>7 DEF ServeReturns, Report
  <2>5. ASSUME NEW k \in Listeners PROVE Serving(k)' <=> Serving(k)
    <3>1. CASE ServeReturns(l) BY <3>1 DEF ServeReturns, Serving, Reported
    <3>2. CASE Report(l)
      <4>1. /\ failed' = failed \ {l} /\ errs' = Append(errs, l) /\ up' = up /\ l \in failed
        BY <3>2 DEF Report
      <4>2. Reported(k)' <=> Reported(k) \/ k = l BY <4>1, Appended DEF Reported
      <4> QED BY <4>1, <4>2 DEF Serving
    <3> QED BY <1>7, <3>1, <3>2
  <2> QED BY <2>2, <2>3, <2>4, <2>5
<1> QED BY <1>1, <1>2, <1>3, <1>4, <1>5, <1>6, <1>7 DEF Next, Main

\* The configuration in use is that of the file in every state.
THEOREM ConfigurationHolds == Spec => []CfgInv
<1> QED BY CfgInit, CfgStep, PTL DEF Spec

\* config.example.yaml:6, config.go:102-103: whatever the file, the listeners it does not write
\* off serve, and no other (main.go:64-101).
THEOREM EnabledServe == Spec => []ServesWhatIsEnabled
<1>1. Init => ServingInv
  BY DEF Init, ServingInv, InUse
<1>2. CfgInv /\ ServingInv => ServesWhatIsEnabled
  <2> SUFFICES ASSUME CfgInv, ServingInv, phase = "running", NEW l \in Listeners
               PROVE  (/\ file.enable[l] # "false" /\ (l = "stats" => file.listen[l] # "")
                       <=> Serving(l))
    BY DEF ServesWhatIsEnabled, Serving
  <2>1. cfg = Built(file) /\ file \in Files BY DEF CfgInv, InUse
  <2>2. Asked(l) <=> file.enable[l] # "false" /\ (l = "stats" => file.listen[l] # "")
    <3>1. cfg.enable[l] = "true" <=> file.enable[l] # "false" BY <2>1, DefaultsOf
    <3>2. cfg.listen[l] = IF l = "stats" THEN file.listen[l] ELSE "addr" BY <2>1, DefaultsOf
    <3> QED BY <3>1, <3>2 DEF Asked
  <2>3. Serving(l) <=> Asked(l) BY Order DEF ServingInv
  <2> QED BY <2>2, <2>3
<1> QED BY <1>1, <1>2, ServingStep, ConfigurationHolds, PTL DEF Spec

\* config.go:107-176, proxy.go:97-106: a configuration in use has a prefix length of the
\* address, a cap and times that are not zero, and what the file sets where it sets something.
THEOREM LimitsHold == Spec => []LimitsUsable
<1>1. CfgInv => LimitsUsable
  <2> SUFFICES ASSUME CfgInv, phase \notin {"load", "new", "ended"}
               PROVE  /\ cfg.bits \in 0..AddrBits /\ cfg.hostsMax > 0
                      /\ cfg.limits["recent"] >= 0
                      /\ \A l \in Limits \ {"recent"} : cfg.limits[l] > 0
                      /\ \A l \in Limits : file.limits[l] # 0 => cfg.limits[l] = file.limits[l]
                      /\ file.bits # 0 => cfg.bits = file.bits
                      /\ file.hostsMax > 0 => cfg.hostsMax = file.hostsMax
    BY DEF LimitsUsable
  <2>1. cfg = Built(file) /\ Valid(WithDefaults(file)) /\ file \in Files
    BY DEF CfgInv, InUse, Phases
  <2>2. file \in FileType BY <2>1, ProcessAssumption
  <2>3. cfg.hostsMax > 0 /\ (file.hostsMax > 0 => cfg.hostsMax = file.hostsMax)
    <3>1. cfg.hostsMax = IF file.hostsMax > 0 THEN file.hostsMax ELSE DefaultStreams
      BY <2>1, <2>2 DEF Built, WithDefaults, FileType
    <3> QED BY <3>1 DEF DefaultStreams
  <2>4. ASSUME NEW l \in Limits
        PROVE  /\ cfg.limits[l] \in Int /\ cfg.limits[l] > 0
               /\ (file.limits[l] # 0 => cfg.limits[l] = file.limits[l])
    <3>1. WithDefaults(file).limits[l] = Default(file.limits[l], DefaultLimit[l])
      BY <2>2 DEF WithDefaults, FileType
    <3>2. file.limits[l] \in Int BY <2>2 DEF FileType
    <3>3. DefaultLimit[l] \in Int /\ DefaultLimit[l] > 0 BY DEF Limits, DefaultLimit
    <3>4. WithDefaults(file).limits[l] >= 0 BY <2>1 DEF Valid
    <3>5. cfg.limits[l] = WithDefaults(file).limits[l] BY <2>1, DefaultsOf
    <3> QED BY <3>1, <3>2, <3>3, <3>4, <3>5 DEF Default
  <2>5. cfg.limits["recent"] >= 0
    <3>1. "recent" \in Limits BY DEF Limits
    <3>2. cfg.limits["recent"] \in Int /\ cfg.limits["recent"] > 0 BY <2>4, <3>1
    <3> QED BY <3>2
  <2>6. cfg.bits \in 0..AddrBits BY <2>1, DefaultsOf DEF Valid
  <2>7. file.bits # 0 => cfg.bits = file.bits
    <3>1. cfg.bits = Default(file.bits, WordBits)
      BY <2>1, <2>2 DEF Built, WithDefaults, FileType
    <3> QED BY <3>1 DEF Default
  <2> QED BY <2>3, <2>4, <2>5, <2>6, <2>7
<1> QED BY <1>1, ConfigurationHolds, PTL

\* The seed of a boot, and where the accounts of a boot start.
BootSeed(n) == IF file.seed = "" THEN n ELSE Pinned
Made(n) ==
    [i \in DOMAIN file.accounts |->
        <<IF file.auto THEN Zero ELSE BootSeed(n), <<BootSeed(n), i>>>>]

\* With a static prefix the walks are those of the boots so far.
WalksInv ==
    /\ boot \in Nat \ {0} /\ \E S : walks \in Seq(S)
    /\ file.prefix # "" =>
          /\ WalksApart
          /\ \A b \in DOMAIN walks : \E n \in 1..boot :
                walks[b] = Made(n) /\ (phase \in {"load", "new"} => n < boot)

\* A sequence with one more entry is one.
LEMMA OneMoreWalk ==
  ASSUME NEW S, NEW q \in Seq(S), NEW e
  PROVE  /\ Append(q, e) \in Seq(S \union {e})
         /\ DOMAIN Append(q, e) = 1..(Len(q) + 1) /\ Len(q) \in Nat /\ DOMAIN q = 1..Len(q)
         /\ \A b \in DOMAIN q : Append(q, e)[b] = q[b]
         /\ Append(q, e)[Len(q) + 1] = e
<1>1. q \in Seq(S \union {e}) OBVIOUS
<1>2. e \in S \union {e} OBVIOUS
<1> HIDE <1>2
<1> DEFINE T == S \union {e}
<1>3. q \in Seq(T) /\ e \in T BY <1>1, <1>2
<1> HIDE DEF T
<1>4. /\ Append(q, e) \in Seq(T)
      /\ DOMAIN Append(q, e) = 1..(Len(q) + 1) /\ Len(q) \in Nat /\ DOMAIN q = 1..Len(q)
  BY <1>3
<1>5. /\ \A b \in DOMAIN q : Append(q, e)[b] = q[b]
      /\ Append(q, e)[Len(q) + 1] = e
  BY <1>3, <1>4
<1> QED BY <1>4, <1>5 DEF T

\* Only New begins walks, those of a new boot; every other step leaves them alone.
LEMMA WalksStep == CfgInv /\ WalksInv /\ [Next]_vars => WalksInv'
<1> SUFFICES ASSUME CfgInv, WalksInv, [Next]_vars PROVE WalksInv'
  OBVIOUS
<1>1. CASE New
  <2>1. /\ phase = "new" /\ phase' = "http" /\ file' = file /\ boot' = boot
        /\ walks' = Append(walks, [i \in DOMAIN cfg.accounts |-> Walk(i)])
        /\ cfg = WithDefaults(file) /\ file \in Files
    BY <1>1 DEF New, CfgInv
  <2>2. PICK S : walks \in Seq(S) BY DEF WalksInv
  <2>3. \E T : walks' \in Seq(T)
    BY <2>1, <2>2, OneMoreWalk
  <2>4. CASE file.prefix # ""
    <3>1. cfg.prefix = file.prefix /\ cfg.seed = file.seed /\ cfg.auto = file.auto
          /\ cfg.accounts = file.accounts
      BY <2>1, DefaultsOf
    <3>2. [i \in DOMAIN cfg.accounts |-> Walk(i)] = Made(boot)
      BY <2>4, <3>1 DEF Walk, PickSeed, Domain, Seed, Made, BootSeed
    <3>3. /\ DOMAIN walks' = 1..(Len(walks) + 1) /\ Len(walks) \in Nat /\ DOMAIN walks = 1..Len(walks)
          /\ \A b \in DOMAIN walks : walks'[b] = walks[b]
          /\ walks'[Len(walks) + 1] = Made(boot)
      BY <2>1, <2>2, <3>2, OneMoreWalk
    <3>4. ASSUME NEW b \in DOMAIN walks'
          PROVE  \E n \in 1..boot : walks'[b] = Made(n) /\ (b \in DOMAIN walks <=> n < boot)
      <4>0. boot \in Nat \ {0} BY DEF WalksInv
      <4>1. boot \in 1..boot /\ ~(boot < boot) BY <4>0
      <4>2. CASE b \in DOMAIN walks BY <2>1, <2>4, <3>3, <4>2 DEF WalksInv
      <4>3. CASE b \notin DOMAIN walks
        <5>1. b = Len(walks) + 1 BY <3>3, <4>3
        <5> QED BY <3>3, <4>1, <4>3, <5>1
      <4> QED BY <4>2, <4>3
    <3>5. \A n : Made(n)' = Made(n) BY <2>1 DEF Made, BootSeed
    <3>6. ASSUME NEW b \in DOMAIN walks', NEW c \in DOMAIN walks',
                 NEW i \in DOMAIN walks'[b], NEW j \in DOMAIN walks'[c],
                 <<b, i>> # <<c, j>>, b = c \/ file.seed = ""
          PROVE  walks'[b][i] # walks'[c][j]
      <4>1. PICK m \in 1..boot : walks'[b] = Made(m) /\ (b \in DOMAIN walks <=> m < boot) BY <3>4
      <4>2. PICK n \in 1..boot : walks'[c] = Made(n) /\ (c \in DOMAIN walks <=> n < boot) BY <3>4
      <4>3. /\ walks'[b][i] = <<IF file.auto THEN Zero ELSE BootSeed(m), <<BootSeed(m), i>>>>
            /\ walks'[c][j] = <<IF file.auto THEN Zero ELSE BootSeed(n), <<BootSeed(n), j>>>>
        BY <4>1, <4>2 DEF Made
      <4>4. CASE i # j BY <4>3, <4>4
      <4>5. CASE i = j /\ b \in DOMAIN walks /\ c \in DOMAIN walks
        <5>1. walks'[b] = walks[b] /\ walks'[c] = walks[c] BY <3>3, <4>5
        <5>2. WalksApart BY <2>4 DEF WalksInv
        <5>3. i \in DOMAIN walks[b] /\ j \in DOMAIN walks[c] BY <5>1
        <5>4. walks[b][i] # walks[c][j] BY <2>4, <3>6, <4>5, <5>2, <5>3 DEF WalksApart
        <5> QED BY <5>1, <5>4
      <4>6. CASE i = j /\ ~(b \in DOMAIN walks /\ c \in DOMAIN walks)
        <5>1. b # c BY <3>6, <4>6
        <5>2. ~(b \notin DOMAIN walks /\ c \notin DOMAIN walks) BY <3>3, <5>1
        <5>3. m # n BY <4>1, <4>2, <4>6, <5>2
        <5>4. BootSeed(m) = m /\ BootSeed(n) = n BY <3>6, <5>1 DEF BootSeed
        <5> QED BY <4>3, <5>3, <5>4
      <4> QED BY <4>4, <4>5, <4>6
    <3>7. WalksApart'
      <4> SUFFICES ASSUME NEW b \in DOMAIN walks', NEW c \in DOMAIN walks',
                          NEW i \in DOMAIN walks'[b], NEW j \in DOMAIN walks'[c],
                          <<b, i>> # <<c, j>>, b = c \/ file'.seed = ""
                   PROVE  walks'[b][i] # walks'[c][j]
        BY DEF WalksApart
      <4>1. b = c \/ file.seed = "" BY <2>1
      <4> HIDE <2>1
      <4> QED BY <3>6, <4>1
    <3> QED BY <2>1, <2>3, <2>4, <3>4, <3>5, <3>7 DEF WalksInv
  <2> QED BY <2>1, <2>3, <2>4 DEF WalksInv
<1>2. CASE Start
  <2>1. /\ boot' = boot + 1 /\ file' = file /\ walks' = walks BY <1>2 DEF Start
  <2>2. WalksApart' <=> WalksApart BY <2>1 DEF WalksApart
  <2>3. \A n : Made(n)' = Made(n) BY <2>1 DEF Made, BootSeed
  <2>4. boot \in Nat \ {0} BY DEF WalksInv
  <2>5. boot' \in Nat \ {0} /\ \A n \in 1..boot : n \in 1..boot' /\ n < boot' BY <2>1, <2>4
  <2>6. \E S : walks' \in Seq(S) BY <2>1 DEF WalksInv
  <2> QED BY <2>1, <2>2, <2>3, <2>5, <2>6 DEF WalksInv
<1>3. CASE /\ UNCHANGED <<boot, file, walks>> 
           /\ phase' \in {"load", "new"} => phase \in {"load", "new"}
  <2>1. WalksApart' <=> WalksApart BY <1>3 DEF WalksApart
  <2>2. \A n : Made(n)' = Made(n) BY <1>3 DEF Made, BootSeed
  <2> QED BY <1>3, <2>1, <2>2 DEF WalksInv
<1>4. CASE Load \/ StartSweeper \/ ReturnTold \/ ReturnFailed \/ StopSweeper \/ Signal \/ Kill
           \/ UNCHANGED vars
  BY <1>3, <1>4 DEF Load, StartSweeper, ReturnTold, ReturnFailed, StopSweeper, Signal, Kill, vars
<1>5. ASSUME NEW l \in Listeners, OpenNone(l) \/ Open(l) \/ OpenRefused(l)
      PROVE  WalksInv'
  <2>1. phase' \notin {"load", "new"}
    BY <1>5, Order DEF OpenNone, Open, OpenRefused, Later, InUse
  <2> QED BY <1>3, <1>5, <2>1 DEF OpenNone, Open, OpenRefused
<1>6. ASSUME NEW l \in Listeners, ServeReturns(l) \/ Report(l) PROVE WalksInv'
  BY <1>3, <1>6 DEF ServeReturns, Report
<1> QED BY <1>1, <1>2, <1>4, <1>5, <1>6 DEF Next, Main

\* pool.go:53-58, README.md:21-24: with a static prefix no two accounts walk the same
\* sequence, and no account walks one again after a restart unless the seed is pinned, for
\* any accounts and any number of restarts.
THEOREM WalksStayApart == Spec => []WalksApart
<1>1. Init => WalksInv
  <2> SUFFICES ASSUME Init PROVE WalksInv
    OBVIOUS
  <2>1. boot = 1 /\ walks = <<>> BY DEF Init
  <2>2. \E S : walks \in Seq(S)
    <3>1. <<>> \in Seq({}) OBVIOUS
    <3> QED BY <2>1, <3>1
  <2>3. DOMAIN walks = {} BY <2>1
  <2> QED BY <2>1, <2>2, <2>3 DEF WalksInv, WalksApart
<1>2. WalksInv => WalksApart BY DEF WalksInv, WalksApart
<1> QED BY <1>1, <1>2, WalksStep, ConfigurationHolds, PTL DEF Spec

-----------------------------------------------------------------------------
(* The addresses of a slice.  A host value of t bits is clean when sanitizeHost returns  *)
(* it as it is.                                                                          *)
Host(v, t) == v \in 0..(Pow2[t] - 1)
Clean(v, t) ==
    /\ Host(v, t)
    /\ t > 2 => ~Reserved(v, t)
    /\ t >= MarkWidth => ~Marked(v)

\* The sizes of the marker's field and of what lies below it and below the bit that flips.
LEMMA MarkSizes ==
    /\ Pow2[MarkLow] \in Nat \ {0} /\ Pow2[MarkBits] \in Nat /\ Pow2[MarkBits] >= 8
    /\ Pow2[MarkFlip] \in Nat /\ Pow2[MarkFlip] >= 2 /\ Pow2[MarkBits] >= 2 * Pow2[MarkFlip]
    /\ Pow2[MarkLow + MarkFlip] = Pow2[MarkLow] * Pow2[MarkFlip]
    /\ Pow2[0] = 1 /\ Pow2[1] = 2 /\ Pow2[2] = 4 /\ Pow2[3] = 8
<1>1. /\ MarkBits - 3 \in Nat /\ (MarkBits - 3) + 3 = MarkBits /\ 3 \in Nat /\ 1 \in Nat
      /\ MarkFlip - 1 \in Nat /\ (MarkFlip - 1) + 1 = MarkFlip
      /\ MarkBits - MarkFlip - 1 \in Nat /\ MarkFlip + 1 \in Nat
      /\ (MarkBits - MarkFlip - 1) + (MarkFlip + 1) = MarkBits
  BY SliceAssumption
<1>2. Pow2[0 + 1] = 2 * Pow2[0] /\ Pow2[1 + 1] = 2 * Pow2[1] /\ Pow2[2 + 1] = 2 * Pow2[2]
  BY Pow2Steps
<1>3. Pow2[0] = 1 /\ Pow2[1] = 2 /\ Pow2[2] = 4 /\ Pow2[3] = 8
  BY <1>2, Pow2Steps
<1>4. Pow2[MarkBits] >= 8
  <2>1. Pow2[(MarkBits - 3) + 3] = Pow2[MarkBits - 3] * Pow2[3] /\ Pow2[MarkBits - 3] \in Nat \ {0}
    BY <1>1, Pow2Sum, Pow2Type
  <2>2. Pow2[MarkBits] = Pow2[MarkBits - 3] * 8
    BY <1>1, <1>3, <2>1
  <2> QED BY <2>1, <2>2
<1>5. Pow2[MarkFlip] >= 2
  <2>1. Pow2[(MarkFlip - 1) + 1] = 2 * Pow2[MarkFlip - 1] /\ Pow2[MarkFlip - 1] \in Nat \ {0}
    BY <1>1, Pow2Steps, Pow2Type
  <2> QED BY <1>1, <2>1
<1>6. Pow2[MarkBits] >= 2 * Pow2[MarkFlip]
  <2> DEFINE a == Pow2[MarkBits - MarkFlip - 1]
             g == Pow2[MarkFlip]
  <2>1. Pow2[(MarkBits - MarkFlip - 1) + (MarkFlip + 1)] = a * Pow2[MarkFlip + 1]
    BY <1>1, Pow2Sum
  <2>2. a \in Nat \ {0} /\ g \in Nat \ {0} /\ Pow2[MarkFlip + 1] = 2 * g
    BY <1>1, SliceAssumption, Pow2Type, Pow2Steps
  <2>3. Pow2[MarkBits] = a * (2 * g)
    BY <1>1, <2>1, <2>2
  <2> HIDE DEF a, g
  <2>4. a * (2 * g) >= 2 * g
    BY <2>2
  <2>5. Pow2[MarkBits] >= 2 * g
    BY <2>3, <2>4
  <2> QED BY <2>5 DEF g
<1> QED BY <1>3, <1>4, <1>5, <1>6, SliceAssumption, Pow2Type, Pow2Sum

LEMMA SmallUnmarked == ASSUME NEW v \in {0, 1, 2} PROVE ~Marked(v)
<1> DEFINE m == Pow2[MarkLow]
           n == Pow2[MarkBits]
           q == v \div m
<1>1. m \in Nat \ {0} /\ n \in Nat \ {0} /\ n >= 8
  BY MarkSizes
<1>2. q \in 0..2
  <2> HIDE DEF m
  <2> QED BY <1>1
<1>3. q % n = q
  <2> HIDE DEF q, n
  <2> QED BY <1>1, <1>2
<1> HIDE DEF q, n
<1>4. q # n - 2
  BY <1>1, <1>2
<1> QED BY <1>3, <1>4 DEF Marked, q, n

\* A number taken apart at a field, and put together again.
LEMMA Fields ==
    ASSUME NEW v \in Nat, NEW m \in Nat \ {0}, NEW n \in Nat \ {0}
    PROVE  \E u \in Nat : \E r \in 0..(m - 1) : v = m * (n * u + ((v \div m) % n)) + r
<1> DEFINE q == v \div m
           r == v % m
           u == q \div n
           f == q % n
<1>1. q \in Nat
  OBVIOUS
<1>2. r \in 0..(m - 1)
  OBVIOUS
<1>3. v = m * q + r
  OBVIOUS
<1>4. u \in Nat
  <2> HIDE DEF q
  <2> QED BY <1>1
<1>5. q = n * u + f /\ f \in Int
  <2> HIDE DEF q
  <2>1. q = n * u + f
    BY <1>1
  <2>2. f \in Int
    BY <1>1
  <2> QED BY <2>1, <2>2
<1>6. v = m * (n * u + f) + r
  <2> HIDE DEF q, u, f, r
  <2> QED BY <1>3, <1>5
<1> QED BY <1>2, <1>4, <1>6

LEMMA OnesUnmarked ==
    ASSUME NEW t \in Nat, t >= MarkWidth
    PROVE  ~Marked(Pow2[t] - 1)
<1> DEFINE m == Pow2[MarkLow]
           n == Pow2[MarkBits]
           w == Pow2[t - MarkWidth]
           u == w - 1
           f == n - 1
           r == m - 1
<1>1. /\ m \in Nat \ {0} /\ n \in Nat \ {0} /\ w \in Nat \ {0} /\ n >= 8
      /\ t - MarkWidth \in Nat /\ MarkLow \in Nat /\ MarkBits \in Nat
      /\ MarkLow + (MarkBits + (t - MarkWidth)) = t /\ MarkBits + (t - MarkWidth) \in Nat
  <2>1. t - MarkWidth \in Nat /\ MarkLow \in Nat /\ MarkBits \in Nat
    BY SliceAssumption DEF MarkWidth
  <2>3. MarkBits + (t - MarkWidth) \in Nat
    BY <2>1
  <2>2. MarkLow + (MarkBits + (t - MarkWidth)) = t
    BY <2>1 DEF MarkWidth
  <2> QED BY <2>1, <2>2, <2>3, MarkSizes, Pow2Type
<1>2. Pow2[t] = m * (n * w)
  <2>1. Pow2[MarkLow + (MarkBits + (t - MarkWidth))] = m * Pow2[MarkBits + (t - MarkWidth)]
    BY <1>1, Pow2Sum
  <2>2. Pow2[MarkBits + (t - MarkWidth)] = n * w
    BY <1>1, Pow2Sum
  <2> QED BY <1>1, <2>1, <2>2
<1>3. Pow2[t] - 1 = m * (n * u + f) + r
  <2>1. n * u + f = n * w - 1
    <3> HIDE DEF n, w
    <3> QED BY <1>1
  <2>2. m * (n * w - 1) + r = m * (n * w) - 1
    <3> HIDE DEF m, n, w
    <3> QED BY <1>1
  <2> QED BY <1>2, <2>1, <2>2
<1>4. u \in Nat /\ f \in 0..(n - 1) /\ r \in 0..(m - 1)
  BY <1>1
<1>5. ((Pow2[t] - 1) \div m) % n = f
  <2> DEFINE q == n * u + f
             x == Pow2[t] - 1
  <2>1. q = n * u + f /\ x = m * q + r
    BY <1>3
  <2>2. m \in Nat \ {0} /\ n \in Nat \ {0} /\ u \in Int /\ f \in 0..(n - 1) /\ r \in 0..(m - 1)
    BY <1>1, <1>4
  <2> HIDE DEF m, n, u, f, r, x
  <2>3. q \in Int
    BY <2>2
  <2> HIDE DEF q
  <2>4. x \div m = q
    BY <2>1, <2>2, <2>3, DivisionUnique
  <2>5. q % n = f
    BY <2>1, <2>2, DivisionUnique
  <2> QED BY <2>4, <2>5 DEF x
<1>6. f # n - 2
  BY <1>1
<1> QED BY <1>3, <1>5, <1>6 DEF Marked

\* A marked value that has lost its bit is clean.
LEMMA FlippedClean ==
    ASSUME NEW t \in Nat, t >= MarkWidth, NEW v \in Nat, Host(v, t), Marked(v)
    PROVE  Clean(v - Pow2[MarkLow + MarkFlip], t)
<1> DEFINE m == Pow2[MarkLow]
           n == Pow2[MarkBits]
           g == Pow2[MarkFlip]
           f == n - 2 - g
           x == v - m * g
<1>1. /\ m \in Nat \ {0} /\ n \in Nat \ {0} /\ g \in Nat \ {0} /\ g >= 2 /\ n >= 8 /\ n >= 2 * g
      /\ Pow2[MarkLow + MarkFlip] = m * g /\ MarkLow \in Nat /\ MarkBits \in Nat
  BY MarkSizes, SliceAssumption
<1>2. PICK u \in Nat, r \in 0..(m - 1) : v = m * (n * u + (n - 2)) + r
  <2>1. (v \div m) % n = n - 2
    BY DEF Marked
  <2>2. \E u \in Nat : \E r \in 0..(m - 1) : v = m * (n * u + ((v \div m) % n)) + r
    <3> HIDE DEF m, n
    <3> QED BY <1>1, Fields
  <2> QED BY <2>1, <2>2
<1>3. f \in 2..(n - 3)
  BY <1>1
<1>4. x = m * (n * u + f) + r
  <2> HIDE DEF m, n, g
  <2> QED BY <1>1, <1>2
<1>5. m * g >= 2 /\ m * g \in Nat
  <2> HIDE DEF m, g
  <2> QED BY <1>1
<1>6. x >= 2 /\ x \in Nat
  <2>1. n * u \in Nat
    <3> HIDE DEF n
    <3> QED BY <1>1
  <2> DEFINE y == n * u + f
  <2>2. y \in Nat /\ y >= 2
    <3> DEFINE z == n * u
    <3> HIDE DEF z, f
    <3>1. z \in Nat /\ y = z + f
      BY <2>1 DEF z
    <3> QED BY <3>1, <1>1, <1>3
  <2>3. x = m * y + r
    BY <1>4
  <2>4. m * y >= 2 /\ m * y \in Nat
    <3> HIDE DEF y, m
    <3> QED BY <2>2, <1>1
  <2> HIDE DEF x, y, m
  <2> QED BY <2>3, <2>4, <1>1
<1>7. ~Marked(x)
  <2>1. (x \div m) % n = f
    <3> DEFINE q == n * u + f
    <3>1. q = n * u + f /\ x = m * q + r /\ f \in 0..(n - 1)
      BY <1>1, <1>3, <1>4
    <3>2. m \in Nat \ {0} /\ n \in Nat \ {0} /\ u \in Int /\ r \in 0..(m - 1)
      BY <1>1, <1>2
    <3> HIDE DEF m, n, f, x
    <3>3. q \in Int
      BY <3>1, <3>2
    <3> HIDE DEF q
    <3>4. x \div m = q
      BY <3>1, <3>2, <3>3, DivisionUnique
    <3>5. q % n = f
      BY <3>1, <3>2, DivisionUnique
    <3> QED BY <3>4, <3>5
  <2>2. f # n - 2
    BY <1>1
  <2> HIDE DEF f, x
  <2> QED BY <1>4, <2>1, <2>2 DEF Marked
<1>8. v \in 0..(Pow2[t] - 1) /\ Pow2[t] \in Nat \ {0}
  BY Pow2Type DEF Host
<1>9. x < v
  <2> DEFINE e == m * g
  <2> HIDE DEF e
  <2>1. x = v - e
    BY DEF e
  <2> QED BY <2>1, <1>5 DEF e
<1> HIDE DEF x
<1>10. Host(x, t) /\ ~Reserved(x, t)
  BY <1>6, <1>8, <1>9 DEF Host, Reserved
<1>11. Clean(x, t)
  BY <1>7, <1>10 DEF Clean
<1> QED BY <1>1, <1>11 DEF x

\* Three turns make any value clean, and a clean value stays.
LEMMA CleanStays ==
    ASSUME NEW t \in Nat, NEW v \in Nat, Clean(v, t)
    PROVE  HygieneStep(v, t) = v
  BY DEF Clean, HygieneStep

LEMMA ThreeTurns ==
    ASSUME NEW t \in Nat, NEW v \in Nat, Host(v, t)
    PROVE  Clean(HygieneStep(HygieneStep(HygieneStep(v, t), t), t), t)
<1> DEFINE s(x) == HygieneStep(x, t)
           T == Pow2[t]
<1>0. \A x \in Nat : Clean(x, t) => s(x) = x
  BY CleanStays
<1>1. CASE Clean(v, t)
  BY <1>0, <1>1
<1>2. CASE t >= MarkWidth /\ Marked(v)
  <2>1. s(v) = v - Pow2[MarkLow + MarkFlip]
    BY <1>2 DEF HygieneStep
  <2>2. Clean(s(v), t)
    BY <2>1, <1>2, FlippedClean
  <2>3. s(v) \in Nat
    <3>1. T \in Nat
      BY Pow2Type
    <3> HIDE DEF s
    <3> QED BY <2>2, <3>1 DEF Clean, Host
  <2> HIDE DEF s
  <2>4. s(s(v)) = s(v)
    BY <1>0, <2>2, <2>3
  <2> QED BY <2>2, <2>4 DEF s
<1>3. CASE t > 2 /\ Reserved(v, t) /\ ~(t >= MarkWidth /\ Marked(v))
  <2>1. T >= 8 /\ T \in Nat
    <3>1. t - 3 \in Nat /\ (t - 3) + 3 = t /\ 3 \in Nat
      BY <1>3
    <3>2. Pow2[(t - 3) + 3] = Pow2[t - 3] * Pow2[3] /\ Pow2[t - 3] \in Nat \ {0}
      BY <3>1, Pow2Sum, Pow2Type
    <3>3. T = Pow2[t - 3] * 8
      BY <3>1, <3>2, MarkSizes
    <3> QED BY <3>2, <3>3
  <2>2. 1 % T = 1 /\ 2 % T = 2 /\ T % T = 0
    <3> HIDE DEF T
    <3>1. 1 % T = 1
      BY <2>1
    <3>2. 2 % T = 2
      BY <2>1
    <3>3. T % T = 0
      BY <2>1
    <3> QED BY <3>1, <3>2, <3>3
  <2>3. ~Marked(0) /\ ~Marked(1) /\ ~Marked(2)
    BY SmallUnmarked
  <2>4. Clean(2, t)
    BY <2>1, <2>3, <1>3 DEF Clean, Host, Reserved
  <2>5. s(1) = 2
    <3>1. s(1) = (1 + 1) % T
      BY <2>3, <1>3 DEF HygieneStep, Reserved
    <3> QED BY <3>1, <2>2
  <2>6. s(0) = 1
    <3>1. s(0) = (0 + 1) % T
      BY <2>3, <1>3 DEF HygieneStep, Reserved
    <3> QED BY <3>1, <2>2
  <2>7. s(2) = 2
    BY <1>0, <2>4
  <2>8. CASE v \in {0, 1}
    <3> HIDE DEF s
    <3>1. s(s(s(v))) = 2
      BY <2>5, <2>6, <2>7, <2>8
    <3> QED BY <3>1, <2>4 DEF s
  <2>9. CASE v = T - 1
    <3>1. s(v) = (v + 1) % T
      BY <1>3 DEF HygieneStep
    <3>2. v + 1 = T
      BY <2>1, <2>9
    <3>3. s(v) = 0
      BY <3>1, <3>2, <2>2
    <3> HIDE DEF s
    <3>4. s(s(s(v))) = 2
      BY <2>5, <2>6, <3>3
    <3> QED BY <3>4, <2>4 DEF s
  <2> QED BY <2>8, <2>9, <1>3 DEF Reserved
<1> QED BY <1>1, <1>2, <1>3 DEF Clean

\* So the loop of at most eight turns of sanitizeHost (pool.go:143-163) ends at a clean
\* value, and a clean one it was given it returns.
LEMMA Sanitized ==
    ASSUME NEW t \in Nat, NEW v \in Nat
    PROVE  /\ Clean(SanitizeHost(v, t), t)
           /\ Clean(v % Pow2[t], t) => SanitizeHost(v, t) = v % Pow2[t]
<1> DEFINE s(x) == HygieneStep(x, t)
           x0 == v % Pow2[t]
           x3 == s(s(s(x0)))
           Turns(g) == [n \in 0..MaxTurns |-> IF n = 0 THEN x0 ELSE s(g[n - 1])]
           g8 == [n \in 0..MaxTurns |-> IF n = 0 THEN x0 ELSE IF n = 1 THEN s(x0)
                                         ELSE IF n = 2 THEN s(s(x0)) ELSE x3]
           after == CHOOSE g : g = Turns(g)
<1>1. SanitizeHost(v, t) = after[MaxTurns]
  BY DEF SanitizeHost
<1>2. x0 \in Nat /\ Host(x0, t) /\ Pow2[t] \in Nat
  <2> DEFINE m == Pow2[t]
  <2>1. m \in Nat \ {0}
    BY Pow2Type
  <2>2. v % m \in 0..(m - 1)
    <3> HIDE DEF m
    <3> QED BY <2>1
  <2> QED BY <2>1, <2>2 DEF Host
<1>3. Clean(x3, t)
  <2> HIDE DEF x0
  <2> QED BY <1>2, ThreeTurns
<1> HIDE DEF x0
<1>4. \A x \in Nat : Clean(x, t) => s(x) = x
  BY CleanStays
<1>5. s(x3) = x3
  <2> HIDE DEF s
  <2>1. x3 \in Nat
    BY <1>3, <1>2 DEF Clean, Host
  <2> HIDE DEF x3
  <2> QED BY <1>3, <1>4, <2>1
<1>6. Clean(x0, t) => x3 = x0
  <2> HIDE DEF s
  <2> QED BY <1>2, <1>4
<1> HIDE DEF s
<1>7. g8 = Turns(g8)
  <2>1. ASSUME NEW n \in 0..MaxTurns PROVE g8[n] = Turns(g8)[n]
    <3>1. CASE n = 0
      BY <3>1 DEF MaxTurns
    <3>2. CASE n \in {1, 2, 3}
      BY <3>2 DEF MaxTurns
    <3>3. CASE n \in 4..8
      <4>1. n - 1 \in 3..7
        BY <3>3
      <4>2. g8[n - 1] = x3 /\ g8[n] = x3
        BY <3>3, <4>1 DEF MaxTurns
      <4>3. Turns(g8)[n] = s(g8[n - 1])
        BY <3>3 DEF MaxTurns
      <4> HIDE DEF x3, g8
      <4> QED BY <4>2, <4>3, <1>5
    <3> QED BY <3>1, <3>2, <3>3 DEF MaxTurns
  <2> QED BY <2>1
<1>8. after = Turns(after)
  <2> HIDE DEF g8, Turns
  <2> QED BY <1>7
<1>9. after[3] = x3
  <2> HIDE DEF after
  <2>1. after[0] = x0 /\ after[1] = s(after[0]) /\ after[2] = s(after[1]) /\ after[3] = s(after[2])
    BY <1>8 DEF MaxTurns
  <2> QED BY <2>1
<1>10. after[8] = x3
  <2> HIDE DEF after, x3
  <2>1. /\ after[4] = s(after[3]) /\ after[5] = s(after[4]) /\ after[6] = s(after[5])
        /\ after[7] = s(after[6]) /\ after[8] = s(after[7])
    BY <1>8 DEF MaxTurns
  <2> QED BY <2>1, <1>5, <1>9
<1>11. SanitizeHost(v, t) = x3
  BY <1>1, <1>10 DEF MaxTurns
<1> HIDE DEF x3, after
<1> QED BY <1>3, <1>6, <1>11 DEF x0

\* Putting another remainder into a number leaves its quotient.
LEMMA Replaced ==
    ASSUME NEW a \in Nat, NEW m \in Nat \ {0}, NEW r \in 0..(m - 1)
    PROVE  (a - (a % m) + r) \div m = a \div m /\ (a - (a % m) + r) % m = r
<1> DEFINE q == a \div m
           x == a - (a % m) + r
<1>1. q \in Int
  OBVIOUS
<1>2. x = m * q + r
  <2>1. a = m * q + (a % m)
    OBVIOUS
  <2> DEFINE e == a % m
  <2>2. e \in Int
    OBVIOUS
  <2> HIDE DEF q, e
  <2>3. m * q \in Int
    BY <1>1
  <2>4. a = m * q + e
    BY <2>1 DEF e
  <2>5. x = a - e + r
    BY DEF e
  <2> HIDE DEF x
  <2> QED BY <2>2, <2>3, <2>4, <2>5
<1> HIDE DEF q, x
<1>3. x \div m = q
  BY <1>1, <1>2, DivisionUnique
<1>4. x % m = r
  BY <1>1, <1>2, DivisionUnique
<1> QED BY <1>3, <1>4 DEF q, x

LEMMA SliceTypes ==
    /\ WordBits \in Nat /\ WordBits >= 3 /\ MarkWidth \in Nat /\ MarkWidth >= 3
    /\ Word \in Nat \ {0} /\ Words \subseteq Nat /\ AddrBits = 2 * WordBits
    /\ \A sub, start, size \in Words : RawHost(sub, start, size) \in Nat
<1>1. WordBits \in Nat /\ WordBits >= 3 /\ MarkWidth \in Nat /\ MarkWidth >= 3
  BY SliceAssumption DEF MarkWidth
<1>2. Word \in Nat \ {0} /\ Words = 0..(Word - 1)
  BY <1>1, Pow2Type DEF Word, Words
<1>3. ASSUME NEW sub \in Words, NEW start \in Words, NEW size \in Words
      PROVE  RawHost(sub, start, size) \in Nat
  <2>1. sub \in Nat /\ start \in Nat /\ size \in Nat
    BY <1>2
  <2>2. CASE size > 0
    <3> DEFINE x == sub % size
               y == start + x
    <3>1. x \in Nat
      BY <2>1, <2>2
    <3> HIDE DEF x
    <3>2. y \in Nat
      BY <2>1, <3>1
    <3> HIDE DEF y
    <3>3. y % Word \in Nat
      BY <3>2, <1>2
    <3> QED BY <3>3, <2>2 DEF RawHost, x, y
  <2>3. CASE ~(size > 0)
    BY <2>1, <2>3 DEF RawHost
  <2> QED BY <2>2, <2>3
<1> QED BY <1>1, <1>2, <1>3 DEF AddrBits

\* The three shapes of a pick: what each part of the address is made of.
LEMMA AddressTypes ==
    ASSUME NEW addr \in Words \X Words
    PROVE  addr[1] \in Nat /\ addr[2] \in Nat /\ addr = <<addr[1], addr[2]>>
<1>1. addr[1] \in Words /\ addr[2] \in Words /\ addr = <<addr[1], addr[2]>>
  OBVIOUS
<1> QED BY <1>1, SliceTypes

LEMMA NarrowWidths ==
    ASSUME NEW bits \in WordBits..(AddrBits - 1)
    PROVE  /\ AddrBits - bits \in 1..WordBits /\ AddrBits - bits \in Nat /\ bits \in Nat
           /\ ~(bits < WordBits) /\ LowBits(bits) = AddrBits - bits
           /\ (bits <= WordBits => WordBits - bits = 0 /\ AddrBits - bits = WordBits)
<1> DEFINE A == AddrBits
<1>1. A = 2 * WordBits /\ WordBits \in Nat
  BY SliceTypes
<1>2. bits \in WordBits..(A - 1)
  OBVIOUS
<1>3. /\ A - bits \in 1..WordBits /\ A - bits \in Nat /\ bits \in Nat /\ ~(bits < WordBits)
      /\ (bits <= WordBits => WordBits - bits = 0 /\ A - bits = WordBits)
  <2> HIDE DEF A
  <2> QED BY <1>1, <1>2
<1>4. A - bits <= WordBits
  BY <1>1, <1>3
<1> QED BY <1>3, <1>4 DEF LowBits

LEMMA WideWidths ==
    ASSUME NEW bits \in 0..(WordBits - 1)
    PROVE  /\ WordBits - bits \in Nat /\ bits \in Nat /\ bits < WordBits /\ bits < AddrBits
           /\ AddrBits - bits # 0 /\ ~(AddrBits - bits <= WordBits) /\ LowBits(bits) = WordBits
<1> DEFINE A == AddrBits
<1>1. A = 2 * WordBits /\ WordBits \in Nat
  BY SliceTypes
<1>2. /\ WordBits - bits \in Nat /\ bits \in Nat /\ bits < WordBits /\ bits < A
      /\ A - bits # 0 /\ ~(A - bits <= WordBits)
  <2> HIDE DEF A
  <2> QED BY <1>1
<1> QED BY <1>2 DEF LowBits

LEMMA NarrowPick ==
    ASSUME NEW addr \in Words \X Words, NEW bits \in WordBits..(AddrBits - 1),
           NEW start \in Words, NEW size \in Words, NEW sub \in Words, NEW iid \in Words
    PROVE  LET a == IPForAcct(addr, bits, start, size, sub, iid)
               t == AddrBits - bits
           IN  /\ SamePrefix(a, addr, bits)
               /\ LowHost(a, bits) = SanitizeHost(RawHost(sub, start, size), t)
<1> DEFINE a == IPForAcct(addr, bits, start, size, sub, iid)
           t == AddrBits - bits
           T == Pow2[t]
           b == addr[2]
           r == SanitizeHost(RawHost(sub, start, size), t)
           c == b - (b % T) + r
<1>1. t \in 1..WordBits /\ t \in Nat /\ LowBits(bits) = t
  BY NarrowWidths
<1>2. b \in Nat
  BY AddressTypes
<1>3. T \in Nat \ {0}
  BY <1>1, Pow2Type
<1>4. r \in 0..(T - 1)
  <2>1. RawHost(sub, start, size) \in Nat
    BY SliceTypes
  <2> QED BY <1>1, <2>1, Sanitized DEF Clean, Host
<1>5. a = <<addr[1], c>>
  <2>1. ~(t = 0) /\ t <= WordBits
    <3> HIDE DEF t
    <3> QED BY <1>1, SliceTypes
  <2>2. a = IpForNarrow(addr, t, start, size, sub)
    BY <2>1 DEF IPForAcct
  <2> QED BY <2>2 DEF IpForNarrow
<1>6. a[1] = addr[1] /\ a[2] = c
  <2> HIDE DEF a, c
  <2> QED BY <1>5
<1>7. c \div T = b \div T /\ c % T = r
  <2> HIDE DEF b, T, r
  <2> QED BY <1>2, <1>3, <1>4, Replaced
<1>8. SamePrefix(a, addr, bits)
  <2> HIDE DEF a, c
  <2>1. a[2] \div T = b \div T
    BY <1>6, <1>7
  <2>2. CASE bits <= WordBits
    BY <2>2, <1>6 DEF SamePrefix
  <2>3. CASE ~(bits <= WordBits)
    BY <2>1, <2>3, <1>6 DEF SamePrefix
  <2> QED BY <2>2, <2>3
<1>9. LowHost(a, bits) = r
  <2> HIDE DEF a, c, r
  <2>1. a[2] % Pow2[LowBits(bits)] = c % T
    BY <1>1, <1>6
  <2> QED BY <2>1, <1>7 DEF LowHost
<1> QED BY <1>8, <1>9

LEMMA WidePick ==
    ASSUME NEW addr \in Words \X Words, NEW bits \in 0..(WordBits - 1),
           NEW start \in Words, NEW size \in Words, NEW sub \in Words, NEW iid \in Words
    PROVE  LET a == IPForAcct(addr, bits, start, size, sub, iid)
           IN  /\ SamePrefix(a, addr, bits)
               /\ a[1] % Pow2[WordBits - bits] = RawHost(sub, start, size) % Pow2[WordBits - bits]
               /\ LowHost(a, bits) = SanitizeHost(iid, WordBits)
<1> DEFINE a == IPForAcct(addr, bits, start, size, sub, iid)
           S == Pow2[WordBits - bits]
           raw == RawHost(sub, start, size)
           e == raw % S
           b == addr[1]
           c == b - (b % S) + e
           r == SanitizeHost(iid, WordBits)
<1>1. b \in Nat
  BY AddressTypes
<1>2. S \in Nat \ {0}
  BY WideWidths, Pow2Type
<1>3. r \in 0..(Pow2[WordBits] - 1) /\ Pow2[WordBits] \in Nat \ {0}
  BY SliceTypes, Sanitized, Pow2Type DEF Clean, Host
<1>4. e \in 0..(S - 1)
  <2>1. raw \in Nat
    BY SliceTypes
  <2> HIDE DEF raw, S
  <2> QED BY <2>1, <1>2
<1>5. a = <<c, r>>
  <2>1. a = IpForWide(addr, bits, start, size, sub, iid)
    BY WideWidths DEF IPForAcct
  <2> QED BY <2>1 DEF IpForWide
<1>6. a[1] = c /\ a[2] = r
  <2> HIDE DEF a, c, r
  <2> QED BY <1>5
<1>7. c \div S = b \div S /\ c % S = e
  <2> HIDE DEF b, S, e
  <2> QED BY <1>1, <1>2, <1>4, Replaced
<1> HIDE DEF a, c, r
<1>8. SamePrefix(a, addr, bits)
  <2>1. a[1] \div S = addr[1] \div S
    BY <1>6, <1>7
  <2>2. bits <= WordBits
    BY WideWidths, SliceTypes
  <2> QED BY <2>1, <2>2 DEF SamePrefix
<1>9. LowHost(a, bits) = r
  <2>1. r % Pow2[WordBits] = r
    BY <1>3
  <2> QED BY <2>1, <1>6, WideWidths DEF LowHost
<1>10. a[1] % S = raw % S
  BY <1>6, <1>7
<1> QED BY <1>8, <1>9, <1>10 DEF a, r

\* Every pool is one of the three.
LEMMA Widths ==
    ASSUME NEW bits \in 0..AddrBits
    PROVE  bits = AddrBits \/ bits \in WordBits..(AddrBits - 1) \/ bits \in 0..(WordBits - 1)
<1>1. AddrBits \in Nat /\ WordBits \in Nat
  BY SliceTypes
<1> QED BY <1>1

LEMMA PicksClean ==
    ASSUME NEW addr \in Words \X Words, NEW bits \in 0..AddrBits,
           NEW start \in Words, NEW size \in Words
    PROVE  PickClean(addr, bits, start, size)
<1>1. ASSUME NEW sub \in Words, NEW iid \in Words, NEW a,
             a = IPForAcct(addr, bits, start, size, sub, iid)
      PROVE  /\ SamePrefix(a, addr, bits)
             /\ LowBits(bits) > 2 => ~Reserved(LowHost(a, bits), LowBits(bits))
             /\ LowBits(bits) >= MarkWidth => ~Marked(LowHost(a, bits))
  <2>1. CASE bits = AddrBits
    <3>1. AddrBits - bits = 0
      BY <2>1, SliceTypes
    <3>2. a = addr /\ LowBits(bits) = 0
      BY <1>1, <3>1, SliceTypes DEF IPForAcct, LowBits
    <3> QED BY <3>2, SliceTypes DEF SamePrefix
  <2>2. CASE bits \in WordBits..(AddrBits - 1)
    <3>1. SamePrefix(a, addr, bits)
      BY <1>1, <2>2, NarrowPick
    <3>2. LowHost(a, bits) = SanitizeHost(RawHost(sub, start, size), LowBits(bits))
      BY <1>1, <2>2, NarrowPick, NarrowWidths
    <3>3. LowBits(bits) \in Nat /\ RawHost(sub, start, size) \in Nat
      BY <2>2, NarrowWidths, SliceTypes
    <3>4. Clean(LowHost(a, bits), LowBits(bits))
      BY <3>2, <3>3, Sanitized
    <3> QED BY <3>1, <3>4 DEF Clean
  <2>3. CASE bits \in 0..(WordBits - 1)
    <3>1. SamePrefix(a, addr, bits)
      BY <1>1, <2>3, WidePick
    <3>2. LowHost(a, bits) = SanitizeHost(iid, LowBits(bits))
      BY <1>1, <2>3, WidePick, WideWidths
    <3>3. LowBits(bits) \in Nat /\ iid \in Nat
      BY <2>3, WideWidths, SliceTypes
    <3>4. Clean(LowHost(a, bits), LowBits(bits))
      BY <3>2, <3>3, Sanitized
    <3> QED BY <3>1, <3>4 DEF Clean
  <2> QED BY <2>1, <2>2, <2>3, Widths
<1> QED BY <1>1 DEF PickClean

\* A slice that fits a field of k bits is reached without a wrap.
LEMMA RawInSlice ==
    ASSUME NEW k \in 0..WordBits, NEW start \in Words, NEW size \in Words, NEW sub \in Words,
           size > 0, start + size <= Pow2[k]
    PROVE  /\ RawHost(sub, start, size) = start + (sub % size)
           /\ start + (sub % size) \in start..(start + size - 1)
           /\ (start + (sub % size)) % Pow2[k] = start + (sub % size)
           /\ start + (sub % size) \in 0..(Pow2[k] - 1)
<1> DEFINE x == sub % size
           raw == start + x
           m == Pow2[k]
           j == WordBits - k
<1>1. sub \in Nat /\ start \in Nat /\ size \in Nat /\ Word \in Nat \ {0} /\ k \in Nat /\ j \in Nat
  BY SliceTypes
<1>2. m \in Nat \ {0}
  BY <1>1, Pow2Type
<1>3. x \in 0..(size - 1)
  BY <1>1
<1> HIDE DEF x
<1>4. raw \in Nat /\ raw < m /\ raw \in start..(start + size - 1) /\ raw \in 0..(m - 1)
  <2>1. start + size <= m
    OBVIOUS
  <2> HIDE DEF m
  <2> QED BY <1>1, <1>2, <1>3, <2>1
<1>5. m <= Word
  <2>1. Pow2[k + j] = m * Pow2[j] /\ Pow2[j] \in Nat \ {0}
    BY <1>1, Pow2Sum, Pow2Type
  <2>2. k + j = WordBits
    BY SliceTypes
  <2>3. Word = m * Pow2[j]
    BY <2>1, <2>2 DEF Word
  <2> DEFINE p == Pow2[j]
  <2>4. p \in Nat \ {0} /\ Word = m * p
    BY <2>1, <2>3
  <2> HIDE DEF m, p
  <2> QED BY <1>2, <2>4
<1> HIDE DEF raw, m
<1>6. raw % Word = raw
  BY <1>1, <1>2, <1>4, <1>5
<1>7. raw % m = raw
  BY <1>2, <1>4
<1>8. RawHost(sub, start, size) = raw % Word
  BY <1>1 DEF RawHost, raw, x
<1> QED BY <1>4, <1>6, <1>7, <1>8 DEF raw, x, m

LEMMA PicksInSlice ==
    ASSUME NEW addr \in Words \X Words, NEW bits \in 0..AddrBits,
           NEW start \in Words, NEW size \in Words
    PROVE  PickInSlice(addr, bits, start, size)
<1> SUFFICES ASSUME size > 0, bits < AddrBits, FitsPool(bits, start, size)
             PROVE  PickInSlice(addr, bits, start, size)
  BY DEF PickInSlice
<1>1. ASSUME NEW sub \in Words, NEW iid \in Words, NEW a, NEW raw,
             a = IPForAcct(addr, bits, start, size, sub, iid), raw = start + (sub % size)
      PROVE  IF bits < WordBits
             THEN a[1] % Pow2[WordBits - bits] \in start..(start + size - 1)
             ELSE \/ LowHost(a, bits) \in start..(start + size - 1)
                  \/ LowBits(bits) > 2 /\ Reserved(raw, LowBits(bits))
                  \/ LowBits(bits) >= MarkWidth /\ Marked(raw)
  <2>1. CASE bits \in WordBits..(AddrBits - 1)
    <3> DEFINE t == LowBits(bits)
    <3>1. t = AddrBits - bits /\ t \in 0..WordBits /\ t \in Nat /\ ~(bits < WordBits)
      BY <2>1, NarrowWidths
    <3>2. start + size <= Pow2[t]
      BY <3>1 DEF FitsPool
    <3>3. LowHost(a, bits) = SanitizeHost(RawHost(sub, start, size), t)
      BY <1>1, <2>1, <3>1, NarrowPick
    <3> HIDE DEF t
    <3>4. /\ RawHost(sub, start, size) = raw /\ raw \in start..(start + size - 1)
          /\ raw % Pow2[t] = raw /\ raw \in 0..(Pow2[t] - 1)
      BY <1>1, <3>1, <3>2, RawInSlice
    <3>5. raw \in Nat
      BY <3>4, SliceTypes
    <3>6. Clean(raw, t) => LowHost(a, bits) = raw
      BY <3>1, <3>3, <3>4, <3>5, Sanitized
    <3> QED BY <3>1, <3>4, <3>6 DEF Clean, Host, t
  <2>2. CASE bits \in 0..(WordBits - 1)
    <3> DEFINE k == WordBits - bits
    <3>1. k \in 0..WordBits /\ bits < WordBits
      BY <2>2, WideWidths, SliceTypes
    <3>2. start + size <= Pow2[k]
      BY <3>1 DEF FitsPool
    <3> DEFINE b == IPForAcct(addr, bits, start, size, sub, iid)
    <3>0. b[1] % Pow2[k] = RawHost(sub, start, size) % Pow2[k]
      BY <2>2, WidePick
    <3>3. a[1] % Pow2[k] = RawHost(sub, start, size) % Pow2[k]
      <4> HIDE DEF k
      <4>1. a = b
        BY <1>1
      <4> HIDE DEF b
      <4> QED BY <3>0, <4>1
    <3> HIDE DEF k
    <3>4. /\ RawHost(sub, start, size) = raw /\ raw \in start..(start + size - 1)
          /\ raw % Pow2[k] = raw
      BY <1>1, <3>1, <3>2, RawInSlice
    <3>5. a[1] % Pow2[k] \in start..(start + size - 1)
      BY <3>3, <3>4
    <3> QED BY <3>1, <3>5 DEF k
  <2>3. bits # AddrBits
    BY SliceTypes
  <2> QED BY <2>1, <2>2, <2>3, Widths
<1> QED BY <1>1 DEF PickInSlice

\* What the configuration in use hands to the mapping.
LEMMA PoolOf ==
    ASSUME CfgInv, phase = "http"
    PROVE  /\ cfg.addr \in Words \X Words /\ cfg.bits \in 0..AddrBits
           /\ \A i \in DOMAIN cfg.accounts :
                 cfg.accounts[i].start \in Words /\ cfg.accounts[i].size \in Words
<1>1. cfg = Built(file) /\ Valid(WithDefaults(file)) /\ file \in FileType
  BY ProcessAssumption DEF CfgInv, InUse
<1>2. cfg.addr = file.addr /\ cfg.accounts = file.accounts
  BY <1>1 DEF Built, WithDefaults, FileType
<1>3. cfg.bits \in 0..AddrBits
  BY <1>1, DefaultsOf, ProcessAssumption DEF CfgInv, Valid
<1>4. file.addr \in Words \X Words /\ file.accounts \in Seq(Accounts)
  BY <1>1 DEF FileType
<1>5. \A i \in DOMAIN file.accounts : file.accounts[i] \in Accounts
  BY <1>4
<1>6. \A i \in DOMAIN file.accounts :
          file.accounts[i].start \in Words /\ file.accounts[i].size \in Words
  BY <1>5 DEF Accounts
<1> QED BY <1>2, <1>3, <1>4, <1>6

\* pool.go:46-61: whatever the configuration, the account, its slice and the words hashed,
\* the address picked is inside the prefix, not reserved and not marked.
THEOREM SlicedPicksAreClean == Spec => []SlicedPicksClean
<1>1. CfgInv => SlicedPicksClean
  BY PoolOf, PicksClean DEF SlicedPicksClean, SliceHolds
<1> QED BY <1>1, ConfigurationHolds, PTL

\* config.go:25-28: the account's slice is where its addresses are, hygiene apart.
THEOREM PicksStayInSlice == Spec => []PicksKeepToSlice
<1>1. CfgInv => PicksKeepToSlice
  BY PoolOf, PicksInSlice DEF PicksKeepToSlice, SliceHolds
<1> QED BY <1>1, ConfigurationHolds, PTL
===============================================================================
