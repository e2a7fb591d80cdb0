-------------------------------- MODULE Slices --------------------------------
(***************************************************************************)
(* The keyed address mapping of internal/pool/pool.go: IPForAcct and what  *)
(* it is made of, from the words splitmix64 yields (any words) to the      *)
(* address.  An address is <<hi, lo>>, two words of WordBits bits (64 in   *)
(* the code).  The EUI-64 marker is the field of MarkBits bits at MarkLow, *)
(* all ones but the lowest, and is looked for from MarkWidth host bits up  *)
(* (16 bits at bit 24, from 40); MarkFlip is the bit of the field that     *)
(* sanitizeHost flips (9).                                                 *)
(***************************************************************************)
EXTENDS Powers

CONSTANTS WordBits, MarkLow, MarkBits, MarkFlip

Word == Pow2[WordBits]
Words == 0..(Word - 1)
AddrBits == 2 * WordBits
MarkWidth == MarkLow + MarkBits

ASSUME SliceAssumption ==
    /\ WordBits \in Nat /\ MarkLow \in Nat /\ MarkBits \in Nat /\ MarkFlip \in Nat
    /\ 3 <= MarkBits /\ 0 < MarkFlip /\ MarkFlip < MarkBits /\ MarkWidth <= WordBits

\* isEUI64: the whole field, its lowest bit clear.
Marked(v) == (v \div Pow2[MarkLow]) % Pow2[MarkBits] = Pow2[MarkBits] - 2
Reserved(v, total) == v \in {0, 1, Pow2[total] - 1}

\* Faulty variant: the marker is not looked for.
HygieneStepUnmarked(v, total) ==
    IF total > 2 /\ Reserved(v, total) THEN (v + 1) % Pow2[total] ELSE v

\* One turn of sanitizeHost: a marker loses a bit, a reserved value moves up by one; any
\* other value stays, which is where the code returns it.
HygieneStep(v, total) ==
    IF total >= MarkWidth /\ Marked(v) THEN v - Pow2[MarkLow + MarkFlip]
    ELSE IF total > 2 /\ Reserved(v, total) THEN (v + 1) % Pow2[total] ELSE v

MaxTurns == 8
SanitizeHost(v, total) ==
    LET after[n \in 0..MaxTurns] ==
          IF n = 0 THEN v % Pow2[total] ELSE HygieneStep(after[n - 1], total)
    IN after[MaxTurns]

\* ipForNarrow: the low host bits vary, from a slice of them if there is one.
RawHost(sub, start, size) == IF size > 0 THEN (start + (sub % size)) % Word ELSE sub
IpForNarrow(addr, total, start, size, sub) ==
    <<addr[1], addr[2] - (addr[2] % Pow2[total]) + SanitizeHost(RawHost(sub, start, size), total)>>

\* Faulty variant: a slice is taken from the interface identifier, as in a narrow pool.
IpForWideByIID(addr, bits, start, size, sub, iid) ==
    <<addr[1] - (addr[1] % Pow2[WordBits - bits]) + (sub % Pow2[WordBits - bits]),
      SanitizeHost(RawHost(iid, start, size), WordBits)>>

\* ipForWide: the subnet varies, from a slice of the subnets if there is one; the
\* interface identifier is any.
IpForWide(addr, bits, start, size, sub, iid) ==
    LET subnets == Pow2[WordBits - bits] IN
    <<addr[1] - (addr[1] % subnets) + (RawHost(sub, start, size) % subnets),
      SanitizeHost(iid, WordBits)>>

\* IPForAcct: a pool without host bits has one address.
IPForAcct(addr, bits, start, size, sub, iid) ==
    LET total == AddrBits - bits IN
    IF total = 0 THEN addr
    ELSE IF total <= WordBits THEN IpForNarrow(addr, total, start, size, sub)
    ELSE IpForWide(addr, bits, start, size, sub, iid)
-----------------------------------------------------------------------------
\* The two addresses agree on the first bits.
SamePrefix(a, b, bits) ==
    IF bits <= WordBits THEN a[1] \div Pow2[WordBits - bits] = b[1] \div Pow2[WordBits - bits]
    ELSE a[1] = b[1] /\ a[2] \div Pow2[AddrBits - bits] = b[2] \div Pow2[AddrBits - bits]

\* The varying low word of an address: all of it, or its host bits.
LowBits(bits) == IF AddrBits - bits <= WordBits THEN AddrBits - bits ELSE WordBits
LowHost(a, bits) == a[2] % Pow2[LowBits(bits)]

\* Every pick of a pool stays inside its prefix and is no reserved and no marked address,
\* whatever the account's slice is (pool.go:46-61, "always inside the configured prefix",
\* "Hygiene is uniform").
PickClean(addr, bits, start, size) ==
    \A sub, iid \in Words :
        LET a == IPForAcct(addr, bits, start, size, sub, iid)
            low == LowBits(bits)
        IN  /\ SamePrefix(a, addr, bits)
            /\ low > 2 => ~Reserved(LowHost(a, bits), low)
            /\ low >= MarkWidth => ~Marked(LowHost(a, bits))

\* A pick of a sliced account comes from its slice (config.go:25-28): from the slice of the
\* subnets always, from that of the host numbers unless hygiene had to move it.
FitsPool(bits, start, size) ==
    start + size <= Pow2[IF bits < WordBits THEN WordBits - bits ELSE AddrBits - bits]
PickInSlice(addr, bits, start, size) ==
    size > 0 /\ bits < AddrBits /\ FitsPool(bits, start, size) =>
        \A sub, iid \in Words :
            LET a == IPForAcct(addr, bits, start, size, sub, iid)
                low == LowBits(bits)
                raw == start + (sub % size)
            IN  IF bits < WordBits
                THEN a[1] % Pow2[WordBits - bits] \in start..(start + size - 1)
                ELSE \/ LowHost(a, bits) \in start..(start + size - 1)
                     \/ low > 2 /\ Reserved(raw, low)
                     \/ low >= MarkWidth /\ Marked(raw)
===============================================================================
