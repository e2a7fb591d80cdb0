-------------------------------- MODULE Process --------------------------------
(***************************************************************************)
(* One installation of v6pool: run (cmd/v6pool/main.go) from the start of  *)
(* the process to its end, with the configuration it loads (config.Load),  *)
(* the proxy it builds (proxy.New) and the restarts after it.              *)
(*                                                                         *)
(* A file is a record of the written keys; an absent number, name or list  *)
(* is its zero value, an absent flag reads as such.  Only listeners,       *)
(* sources, limits and slices are in it; literals are "", "good" or "bad". *)
(* A seed is a number: Zero, Pinned, or one of its own for every boot (64  *)
(* random bits do not repeat); a domain is the <<seed, index>> hashed.     *)
(***************************************************************************)
EXTENDS Slices, Sequences

CONSTANTS Files,        \* the configuration files
          MaxBoots      \* bound: starts of the process

Listeners == {"http", "socks", "stats"}
Limits == {"recent", "sticky", "dial", "claim"}
Flags == {"absent", "null", "true", "false"}
Literals == {"", "good", "bad"}
Accounts == [username : STRING, start : Words, size : Words]

FileType ==
    [enable : [Listeners -> Flags], listen : [Listeners -> {"", "addr"}],
     prefix : Literals, addr : Words \X Words, bits : Int, hosts : Literals,
     auto : BOOLEAN, fixed : Literals, iface : {"", "eth"},
     limits : [Limits -> Int], hostsMax : Int, seed : Literals, accounts : Seq(Accounts)]

ASSUME ProcessAssumption == Files \subseteq FileType /\ MaxBoots \in Nat \ {0}

VARIABLES file, boot, phase,
          cfg,                  \* the configuration in use, a file with its defaults
          walks,                \* per boot, where each account's rotation starts
          up, failed, errs,     \* listeners serving, those whose Serve returned; errCh
          sweeper, told,        \* the sweeper runs; ctx is done
          exit
listeners == <<up, failed, errs>>
vars == <<file, boot, phase, cfg, walks, listeners, sweeper, told, exit>>

Phases == {"load", "new", "http", "socks", "stats", "sweeper", "running", "ended"}
Zero == 0
Pinned == -1

Init ==
    /\ file \in Files /\ boot = 1 /\ phase = "load" /\ cfg = file /\ walks = <<>>
    /\ up = {} /\ failed = {} /\ errs = <<>>
    /\ sweeper = FALSE /\ told = FALSE /\ exit = "none"

Exit(status) ==
    /\ phase' = "ended" /\ exit' = status
    /\ up' = {} /\ failed' = {} /\ errs' = <<>> /\ sweeper' = FALSE
-----------------------------------------------------------------------------
\* Faulty variant: a key without a value counts as written.
SwitchedOnOnlyAbsent(flag) == flag \in {"absent", "true"}

\* presentKeys and applyEnableDefaults: a listener is on unless it is written off.
SwitchedOn(flag) == flag # "false"

Default(n, default) == IF n = 0 THEN default ELSE n
DefaultLimit == [recent |-> 128, sticky |-> 300, dial |-> 15, claim |-> 300]
DefaultStreams == 1024

\* Faulty variant: claim_ttl_seconds has no default.
WithDefaultsButClaim(f) ==
    [f EXCEPT !.enable = [l \in Listeners |-> IF SwitchedOn(@[l]) THEN "true" ELSE "false"],
              !.listen = [l \in Listeners |-> IF l = "stats" THEN @[l] ELSE "addr"],
              !.bits = Default(@, WordBits),
              !.limits = [l \in Limits |->
                            IF l = "claim" THEN @[l] ELSE Default(@[l], DefaultLimit[l])]]

\* applyEnableDefaults and applyDefaults; the stats listener has no default address.
WithDefaults(f) ==
    [f EXCEPT !.enable = [l \in Listeners |-> IF SwitchedOn(@[l]) THEN "true" ELSE "false"],
              !.listen = [l \in Listeners |-> IF l = "stats" THEN @[l] ELSE "addr"],
              !.bits = Default(@, WordBits),
              !.limits = [l \in Limits |-> Default(@[l], DefaultLimit[l])]]

\* validate.
Valid(c) ==
    /\ c.prefix # "" \/ c.hosts # "" \/ c.auto \/ c.fixed # ""
    /\ "bad" \notin {c.prefix, c.hosts, c.seed}
    /\ c.bits \in 0..AddrBits
    /\ c.accounts # <<>> /\ \A i \in DOMAIN c.accounts : c.accounts[i].username # ""
    /\ \A l \in Limits : c.limits[l] >= 0

Load ==
    /\ phase = "load"
    /\ IF Valid(WithDefaults(file))
       THEN /\ cfg' = WithDefaults(file) /\ phase' = "new"
            /\ UNCHANGED <<listeners, sweeper, exit>>
       ELSE Exit("error") /\ UNCHANGED cfg
    /\ UNCHANGED <<file, boot, walks, told>>

\* parseSeed.
Seed == IF cfg.seed = "" THEN boot ELSE Pinned

\* The pool an account's cycles are made of: the static one, with the seed, or the one
\* poolForPick makes of the interface's prefix, with Proxy.seed, which New leaves zero.
\* Domains are derived from the static pool only.
PickSeed == IF cfg.auto THEN Zero ELSE Seed
Domain(i) == IF cfg.prefix # "" THEN <<Seed, i>> ELSE <<Zero, 0>>
Walk(i) == <<PickSeed, Domain(i)>>

\* Faulty variant: every account has the pool's domain.
NewOneDomain ==
    /\ phase = "new" /\ phase' = "http"
    /\ cfg' = [cfg EXCEPT !.hostsMax = IF @ > 0 THEN @ ELSE DefaultStreams]
    /\ walks' = Append(walks, [i \in DOMAIN cfg.accounts |-> Walk(1)])
    /\ UNCHANGED <<file, boot, listeners, sweeper, told, exit>>

New ==
    /\ phase = "new" /\ phase' = "http"
    /\ cfg' = [cfg EXCEPT !.hostsMax = IF @ > 0 THEN @ ELSE DefaultStreams]
    /\ walks' = Append(walks, [i \in DOMAIN cfg.accounts |-> Walk(i)])
    /\ UNCHANGED <<file, boot, listeners, sweeper, told, exit>>
-----------------------------------------------------------------------------
After == [http |-> "socks", socks |-> "stats", stats |-> "sweeper"]
Asked(l) == cfg.enable[l] = "true" /\ cfg.listen[l] # ""

\* The listeners are bound in this order, and each serves at once.
OpenNone(l) ==
    /\ phase = l /\ ~Asked(l) /\ phase' = After[l]
    /\ UNCHANGED <<file, boot, cfg, walks, listeners, sweeper, told, exit>>

Open(l) ==
    /\ phase = l /\ Asked(l) /\ phase' = After[l] /\ up' = up \union {l}
    /\ UNCHANGED <<file, boot, cfg, walks, failed, errs, sweeper, told, exit>>

\* The address is taken: run returns, and with it go the listeners bound before.
OpenRefused(l) ==
    /\ phase = l /\ Asked(l) /\ Exit("error")
    /\ UNCHANGED <<file, boot, cfg, walks, told>>

StartSweeper ==
    /\ phase = "sweeper" /\ phase' = "running" /\ sweeper' = TRUE
    /\ UNCHANGED <<file, boot, cfg, walks, listeners, told, exit>>

StopSweeper ==
    /\ sweeper /\ told /\ sweeper' = FALSE
    /\ UNCHANGED <<file, boot, phase, cfg, walks, listeners, told, exit>>

\* Accept fails: at once for SOCKS5 (main.go:138-141), for http.Serve if it is not a
\* temporary error.
ServeReturns(l) ==
    /\ l \in up /\ up' = up \ {l} /\ failed' = failed \union {l}
    /\ UNCHANGED <<file, boot, phase, cfg, walks, errs, sweeper, told, exit>>

\* errCh holds three errors.
Capacity == 3

\* Faulty variant: errCh is not buffered, and a send that finds no receiver is dropped.
ReportUnbuffered(l) ==
    /\ l \in failed /\ failed' = failed \ {l}
    /\ errs' = IF phase = "running" THEN Append(errs, l) ELSE errs
    /\ UNCHANGED <<file, boot, phase, cfg, walks, up, sweeper, told, exit>>

Report(l) ==
    /\ l \in failed /\ Len(errs) < Capacity
    /\ failed' = failed \ {l} /\ errs' = Append(errs, l)
    /\ UNCHANGED <<file, boot, phase, cfg, walks, up, sweeper, told, exit>>

\* Faulty variant: run waits for its listeners to end.
ReturnToldLast ==
    /\ phase = "running" /\ told /\ up = {} /\ Exit("ok")
    /\ UNCHANGED <<file, boot, cfg, walks, told>>

\* The select at the end of run; with both ready it takes either.
ReturnTold ==
    /\ phase = "running" /\ told /\ Exit("ok")
    /\ UNCHANGED <<file, boot, cfg, walks, told>>

ReturnFailed ==
    /\ phase = "running" /\ errs # <<>> /\ Exit("error")
    /\ UNCHANGED <<file, boot, cfg, walks, told>>
-----------------------------------------------------------------------------
\* SIGINT or SIGTERM; NotifyContext catches them once New has returned.
Signal ==
    /\ phase \notin {"load", "new", "ended"} /\ ~told /\ told' = TRUE
    /\ UNCHANGED <<file, boot, phase, cfg, walks, listeners, sweeper, exit>>

\* A signal before that, SIGKILL, or a crash.
Kill ==
    /\ phase # "ended" /\ Exit("killed")
    /\ UNCHANGED <<file, boot, cfg, walks, told>>

\* systemd (Restart=on-failure), Docker or the operator starts the process again.
Start ==
    /\ phase = "ended" /\ boot < MaxBoots /\ boot' = boot + 1
    /\ phase' = "load" /\ cfg' = file /\ told' = FALSE /\ exit' = "none"
    /\ UNCHANGED <<file, walks, listeners, sweeper>>

Main ==
    \/ Load \/ New \/ StartSweeper \/ ReturnTold \/ ReturnFailed
    \/ \E l \in Listeners : OpenNone(l) \/ Open(l) \/ OpenRefused(l)

Next ==
    \/ Main \/ StopSweeper \/ Signal \/ Kill \/ Start
    \/ \E l \in Listeners : ServeReturns(l) \/ Report(l)

Spec == Init /\ [][Next]_vars

\* The main goroutine and those of the listeners run.
Fairness == WF_vars(Main) /\ \A l \in Listeners : WF_vars(Report(l))
FairSpec == Spec /\ Fairness
-----------------------------------------------------------------------------
Reported(l) == \E i \in DOMAIN errs : errs[i] = l

\* config.example.yaml:6 and config.go:102-103: a process that runs serves, on every listener
\* the file does not write off (stats: if it has an address) and on no other, or it is
\* about to hear that the listener failed.
ServesWhatIsEnabled ==
    phase = "running" =>
        \A l \in Listeners :
            /\ file.enable[l] # "false" /\ (l = "stats" => file.listen[l] # "")
            <=> l \in up \union failed \/ Reported(l)

\* What config.Load accepts and New completes is what the parts of the proxy assume, a
\* prefix length of the address, a cap on cycles that holds something, times that pass; and
\* a limit the file sets is the one in use, whatever stands for one it does not set
\* (config.go:107-176, proxy.go:97-106).  A guard of depth 0 is not excluded: it is off.
LimitsUsable ==
    phase \notin {"load", "new", "ended"} =>
        /\ cfg.bits \in 0..AddrBits /\ cfg.hostsMax > 0
        /\ cfg.limits["recent"] >= 0
        /\ \A l \in Limits \ {"recent"} : cfg.limits[l] > 0
        /\ \A l \in Limits : file.limits[l] # 0 => cfg.limits[l] = file.limits[l]
        /\ file.bits # 0 => cfg.bits = file.bits
        /\ file.hostsMax > 0 => cfg.hostsMax = file.hostsMax

SliceHolds(P(_, _, _, _)) ==
    phase = "http" /\ boot = 1 /\ cfg.prefix # "" =>
        \A i \in DOMAIN cfg.accounts :
            P(cfg.addr, cfg.bits, cfg.accounts[i].start, cfg.accounts[i].size)

\* Every pick of every account of an accepted configuration is inside the pool and clean.
SlicedPicksClean == SliceHolds(PickClean)

\* Every pick of a sliced account is from its slice, hygiene apart.
PicksKeepToSlice == SliceHolds(PickInSlice)

\* With a static prefix no two accounts walk the same sequence, and no account walks one
\* again after a restart unless the seed is pinned (pool.go:53-58, README.md:21-24).
WalksApart ==
    file.prefix # "" =>
        \A b, c \in DOMAIN walks : \A i \in DOMAIN walks[b], j \in DOMAIN walks[c] :
            <<b, i>> # <<c, j>> /\ (b = c \/ file.seed = "") => walks[b][i] # walks[c][j]

\* README.md:21-24: "a per-boot random stream seed ... so restarts never replay sequences".
Rotates == file.fixed = "" /\ file.hosts = "" /\ file.iface = ""
RestartsNeverReplay ==
    Rotates /\ file.seed = "" =>
        \A b, c \in DOMAIN walks : b # c => walks[b] # walks[c]

\* A signal ends the process, whatever its listeners do.
StopsWhenTold == told ~> phase = "ended"

\* A listener that stops serving ends the process with an error, for Restart=on-failure
\* to start it again (v6pool.service:9, main.go:62, 125-131), unless it is told to stop.
FailureEnds ==
    \A l \in Listeners : l \in failed ~> exit \in {"error", "killed"} \/ told
===============================================================================
