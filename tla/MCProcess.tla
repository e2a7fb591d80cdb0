------------------------------ MODULE MCProcess ------------------------------
(* Three families of files: what the listeners are, where sources come from, limits. *)
EXTENDS Process

Acct(name, first, n) == [username |-> name, start |-> first, size |-> n]
Off == [l \in Listeners |-> "false"]
Plain ==
    [enable |-> Off, listen |-> [l \in Listeners |-> ""],
     prefix |-> "good", addr |-> <<45, 25>>, bits |-> 0, hosts |-> "",
     auto |-> FALSE, fixed |-> "", iface |-> "",
     limits |-> [l \in Limits |-> 0], hostsMax |-> 0, seed |-> "",
     accounts |-> <<Acct("a", 0, 0)>>]

ListenerFiles ==
    {[Plain EXCEPT !.enable = [http |-> h, socks |-> k, stats |-> t],
                   !.listen = [http |-> "addr", socks |-> "", stats |-> s]] :
        h \in {"true", "false"}, k \in {"absent", "false"},
        t \in {"null", "false"}, s \in {"", "addr"}}

SourceFiles ==
    {[Plain EXCEPT !.prefix = p, !.auto = a, !.seed = s, !.hosts = h, !.iface = i] :
        p \in Literals, a \in BOOLEAN, s \in Literals, h \in {"", "good"}, i \in {"", "eth"}}
    \union {[Plain EXCEPT !.prefix = "", !.fixed = "good"],
            [Plain EXCEPT !.prefix = "", !.fixed = "bad"],
            [Plain EXCEPT !.hosts = "bad"], [Plain EXCEPT !.accounts = <<>>],
            [Plain EXCEPT !.accounts = <<Acct("", 0, 0)>>]}

SliceFiles ==
    {[Plain EXCEPT !.bits = b, !.accounts = <<Acct("a", 0, 2), Acct("b", f, n), Acct("a", 4, 0)>>] :
        b \in {4, 5, 6, 7, 8, 10, 11, 12}, f \in {0, 20, 62}, n \in {1, 4, 44}}

LimitFiles ==
    {[Plain EXCEPT !.limits[l] = n] : l \in Limits, n \in {-1, 7}}
    \union {[Plain EXCEPT !.hostsMax = n] : n \in {-1, 7}}
    \union {[Plain EXCEPT !.bits = n] : n \in {-1, AddrBits + 1}}

MCFiles == ListenerFiles \union SourceFiles \union SliceFiles \union LimitFiles
==============================================================================
