------------------------- MODULE PeriodicTask_proofs -------------------------
(***************************************************************************)
(* Proofs about PeriodicTask, for any units, any period and deadline, any  *)
(* execution times and latencies and any number of activations.            *)
(***************************************************************************)
EXTENDS PeriodicTask, TLAPS

USE DEF vars

-----------------------------------------------------------------------------
(* Integers. *)

LEMMA DivMod ==
    ASSUME NEW a \in Int, NEW n \in Nat \ {0}
    PROVE  \E q \in Int, r \in 0 .. n - 1 :
                a \div n = q /\ a % n = r /\ q * n \in Int /\ a = q * n + r
<1>1. a \div n \in Int
    OBVIOUS
<1>2. a % n \in 0 .. n - 1
    OBVIOUS
<1>3. ASSUME NEW q \in Int, q = a \div n PROVE a % n = a - q * n /\ q * n \in Int
    BY <1>3
<1>4. PICK q \in Int : q = a \div n
    BY <1>1
<1>5. PICK r \in 0 .. n - 1 : r = a % n
    BY <1>2
<1>6. r = a - q * n /\ q * n \in Int
    BY <1>3, <1>4, <1>5
<1>7. a = q * n + r
    BY <1>6
<1> QED  BY <1>4, <1>5, <1>6, <1>7

LEMMA ProductNat ==
    ASSUME NEW a \in Nat, NEW b \in Nat
    PROVE  a * b \in Nat /\ (a > 0 /\ b > 0 => a * b > 0)
OBVIOUS

LEMMA ProductMono ==
    ASSUME NEW a \in Int, NEW b \in Int, NEW n \in Nat, a <= b
    PROVE  a * n <= b * n
<1>1. (b - a) * n >= 0
    BY ProductNat
<1>2. (b - a) * n = b * n - a * n
    OBVIOUS
<1>3. a * n \in Int /\ b * n \in Int /\ (b - a) * n \in Int
    OBVIOUS
<1> QED  BY <1>1, <1>2, <1>3

\* A product compared with a multiple compares the factors.
LEMMA ProductLess ==
    ASSUME NEW a \in Int, NEW b \in Int, NEW n \in Nat, a * n < b * n + n
    PROVE  a <= b
<1>1. SUFFICES ASSUME b + 1 <= a PROVE FALSE
    OBVIOUS
<1>2. (b + 1) * n <= a * n
    BY <1>1, ProductMono
<1>3. (b + 1) * n = b * n + n
    OBVIOUS
<1>4. a * n \in Int /\ b * n \in Int
    OBVIOUS
<1> QED  BY <1>2, <1>3, <1>4

\* C's division: the remainder has less than the divisor's size, and the
\* quotient does not decrease with the dividend.
LEMMA QuotientRange ==
    ASSUME NEW a \in Int, NEW n \in Nat \ {0}
    PROVE  /\ Quotient(a, n) \in Int
           /\ Quotient(a, n) * n \in a - n + 1 .. a + n - 1
           /\ a >= 0 => Quotient(a, n) = a \div n /\ Quotient(a, n) * n \in a - n + 1 .. a
           /\ a < 0 => Quotient(a, n) = -((-a) \div n) /\ Quotient(a, n) * n \in a .. a + n - 1
<1>1. CASE a >= 0
    <2>1. PICK q \in Int, r \in 0 .. n - 1 : a \div n = q /\ q * n \in Int /\ a = q * n + r
        BY DivMod
    <2>2. q * n \in a - n + 1 .. a
        BY <2>1
    <2>3. Quotient(a, n) = q
        BY <1>1, <2>1 DEF Quotient
    <2> QED  BY <1>1, <2>1, <2>2, <2>3
<1>2. CASE a < 0
    <2>1. PICK b \in Int : b = -a
        OBVIOUS
    <2>2. PICK q \in Int, r \in 0 .. n - 1 : b \div n = q /\ q * n \in Int /\ b = q * n + r
        BY DivMod
    <2>3. (-q) * n = -(q * n)
        OBVIOUS
    <2>4. (-q) * n \in a .. a + n - 1
        BY <2>1, <2>2, <2>3
    <2>5. Quotient(a, n) = -q
        BY <1>2, <2>1, <2>2 DEF Quotient
    <2> QED  BY <1>2, <2>1, <2>2, <2>4, <2>5
<1> QED  BY <1>1, <1>2

LEMMA DivMono ==
    ASSUME NEW a \in Nat, NEW b \in Nat, a <= b, NEW n \in Nat \ {0}
    PROVE  a \div n <= b \div n
<1>1. PICK q \in Int, c \in 0 .. n - 1 : a \div n = q /\ q * n \in Int /\ a = q * n + c
    BY DivMod
<1>2. PICK r \in Int, d \in 0 .. n - 1 : b \div n = r /\ r * n \in Int /\ b = r * n + d
    BY DivMod
<1>3. q * n < r * n + n
    BY <1>1, <1>2
<1>4. q <= r
    BY <1>3, ProductLess
<1> QED  BY <1>1, <1>2, <1>4

LEMMA QuotientMono ==
    ASSUME NEW a \in Int, NEW b \in Int, a <= b, NEW n \in Nat \ {0}
    PROVE  Quotient(a, n) <= Quotient(b, n)
<1>1. CASE a >= 0
    <2>1. a \div n <= b \div n
        BY <1>1, DivMono
    <2> QED  BY <1>1, <2>1 DEF Quotient
<1>2. CASE b < 0
    <2>1. (-b) \div n <= (-a) \div n
        BY <1>2, DivMono
    <2>2. (-b) \div n \in Int /\ (-a) \div n \in Int
        BY DivMod
    <2> QED  BY <1>2, <2>1, <2>2 DEF Quotient
<1>3. CASE a < 0 /\ b >= 0
    <2>1. 0 \div n = 0
        OBVIOUS
    <2>2. 0 <= (-a) \div n /\ 0 <= b \div n
        BY <1>3, <2>1, DivMono
    <2>3. (-a) \div n \in Int /\ b \div n \in Int
        BY DivMod
    <2> QED  BY <1>3, <2>2, <2>3 DEF Quotient
<1> QED  BY <1>1, <1>2, <1>3

-----------------------------------------------------------------------------
(* The time helpers. *)

Ts == [sec : Int, nsec : 0 .. NsPerSec - 1]

LEMMA Units ==
    /\ NsPerUs \in Nat \ {0} /\ UsPerMs \in Nat \ {0} /\ MsPerSec \in Nat \ {0}
    /\ NsPerMs \in Nat \ {0} /\ NsPerSec \in Nat \ {0}
<1>1. NsPerMs \in Nat \ {0}
    BY UnitsAssumption, ProductNat DEF NsPerMs
<1>2. NsPerSec \in Nat \ {0}
    BY UnitsAssumption, <1>1, ProductNat DEF NsPerSec
<1> QED  BY UnitsAssumption, <1>1, <1>2

LEMMA NsInt ==
    ASSUME NEW ts \in Ts
    PROVE  ts.sec * NsPerSec \in Int /\ Ns(ts) \in Int
<1>1. ts.sec \in Int /\ ts.nsec \in Int /\ NsPerSec \in Int
    BY Units DEF Ts
<1> QED  BY <1>1 DEF Ns

\* A clock value and its timespec are the same time.
LEMMA TimespecNs ==
    ASSUME NEW ns \in Int
    PROVE  Timespec(ns) \in Ts /\ Ns(Timespec(ns)) = ns
<1>1. PICK q \in Int, r \in 0 .. NsPerSec - 1 :
        ns \div NsPerSec = q /\ ns % NsPerSec = r /\ ns = q * NsPerSec + r
    BY Units, DivMod
<1>2. Timespec(ns) = [sec |-> q, nsec |-> r]
    BY <1>1 DEF Timespec
<1> QED  BY <1>1, <1>2 DEF Ts, Ns

\* timespec_add_ms adds exactly ms milliseconds, and its carry leaves less than
\* a second of nanoseconds.
LEMMA CarryExact ==
    ASSUME NEW M \in Int, NEW K \in Int, NEW s \in Int, NEW n \in Int,
           NEW qk \in Int, NEW rk \in Int, NEW q \in Int, NEW r \in Int,
           n + rk * M = q * (M * K) + r
    PROVE  (s + qk + q) * (M * K) + r = s * (M * K) + n + (qk * K + rk) * M
<1>1. (s + qk + q) * (M * K) = s * (M * K) + qk * (M * K) + q * (M * K)
    OBVIOUS
<1>2. (qk * K + rk) * M = qk * (M * K) + rk * M
    OBVIOUS
<1> QED  BY <1>1, <1>2

LEMMA AddMsExact ==
    ASSUME NEW ts \in Ts, NEW ms \in Nat
    PROVE  AddMs(ts, ms) \in Ts /\ Ns(AddMs(ts, ms)) = Ns(ts) + ms * NsPerMs
<1>1. PICK qk \in Int, rk \in 0 .. MsPerSec - 1 :
        ms \div MsPerSec = qk /\ ms % MsPerSec = rk /\ ms = qk * MsPerSec + rk
    BY Units, DivMod
<1>2. PICK nsec \in Int : nsec = ts.nsec + rk * NsPerMs
    BY Units DEF Ts
<1>3. PICK q \in Int, r \in 0 .. NsPerSec - 1 :
        nsec \div NsPerSec = q /\ nsec % NsPerSec = r /\ nsec = q * NsPerSec + r
    BY Units, DivMod
<1>4. AddMs(ts, ms) = [sec |-> ts.sec + qk + q, nsec |-> r]
    BY <1>1, <1>2, <1>3 DEF AddMs
<1>5. ts.sec \in Int /\ ts.nsec \in Int
    BY Units DEF Ts
<1>6. (ts.sec + qk + q) * NsPerSec + r = ts.sec * NsPerSec + ts.nsec + ms * NsPerMs
    <2>1. ts.nsec + rk * NsPerMs = q * (NsPerMs * MsPerSec) + r
        BY <1>2, <1>3 DEF NsPerSec
    <2>2. (ts.sec + qk + q) * (NsPerMs * MsPerSec) + r
            = ts.sec * (NsPerMs * MsPerSec) + ts.nsec + (qk * MsPerSec + rk) * NsPerMs
        BY <1>5, <2>1, Units, CarryExact
    <2> QED  BY <1>1, <2>2 DEF NsPerSec
<1> QED  BY <1>4, <1>5, <1>6 DEF Ts, Ns

\* sleep_until computes what is left, or a negative time; nanosleep then sleeps
\* exactly that, or not at all.
LEMMA RemainingExact ==
    ASSUME NEW ts \in Ts, NEW t \in Ts
    PROVE  SleepsFor(Remaining(ts, t)) =
                IF Ns(ts) >= Ns(t) THEN Ns(ts) - Ns(t) ELSE 0
<1> DEFINE r == Remaining(ts, t)
<1>0. /\ ts.sec \in Int /\ t.sec \in Int /\ NsPerSec \in Nat \ {0}
      /\ ts.nsec \in 0 .. NsPerSec - 1 /\ t.nsec \in 0 .. NsPerSec - 1
    BY Units DEF Ts
<1>1. r \in Ts /\ r.sec * NsPerSec + r.nsec = Ns(ts) - Ns(t)
    <2>1. CASE ts.nsec - t.nsec < 0
        <3>1. r = [sec |-> ts.sec - t.sec - 1, nsec |-> ts.nsec - t.nsec + NsPerSec]
            BY <2>1 DEF Remaining
        <3>2. (ts.sec - t.sec - 1) * NsPerSec = ts.sec * NsPerSec - t.sec * NsPerSec - NsPerSec
            BY <1>0
        <3>3. ts.sec * NsPerSec \in Int /\ t.sec * NsPerSec \in Int
            BY <1>0
        <3> QED  BY <1>0, <2>1, <3>1, <3>2, <3>3 DEF Ts, Ns
    <2>2. CASE ~(ts.nsec - t.nsec < 0)
        <3>1. r = [sec |-> ts.sec - t.sec, nsec |-> ts.nsec - t.nsec]
            BY <2>2 DEF Remaining
        <3>2. (ts.sec - t.sec) * NsPerSec = ts.sec * NsPerSec - t.sec * NsPerSec
            BY <1>0
        <3>3. ts.sec * NsPerSec \in Int /\ t.sec * NsPerSec \in Int
            BY <1>0
        <3> QED  BY <1>0, <2>2, <3>1, <3>2, <3>3 DEF Ts, Ns
    <2> QED  BY <2>1, <2>2
<1> HIDE DEF r
<1>2. r.sec \in Int /\ r.nsec \in 0 .. NsPerSec - 1 /\ r.sec * NsPerSec \in Int
    BY <1>0, <1>1 DEF Ts
<1>3. Ns(ts) \in Int /\ Ns(t) \in Int
    BY NsInt
<1>4. CASE r.sec < 0
    <2>1. r.sec * NsPerSec <= (-1) * NsPerSec
        BY <1>0, <1>2, <1>4, ProductMono
    <2>2. SleepsFor(r) = 0
        BY <1>4 DEF SleepsFor
    <2>3. Ns(ts) < Ns(t)
        BY <1>0, <1>1, <1>2, <1>3, <2>1
    <2> QED  BY <1>3, <2>2, <2>3 DEF r
<1>5. CASE r.sec >= 0
    <2>1. 0 * NsPerSec <= r.sec * NsPerSec
        BY <1>0, <1>2, <1>5, ProductMono
    <2>2. SleepsFor(r) = r.sec * NsPerSec + r.nsec
        BY <1>2, <1>5 DEF SleepsFor, Ns
    <2>3. Ns(ts) >= Ns(t)
        BY <1>0, <1>1, <1>2, <1>3, <2>1
    <2> QED  BY <1>1, <2>2, <2>3 DEF r
<1> QED  BY <1>2, <1>4, <1>5

\* timespec_diff_us is off by less than a microsecond, although it converts
\* seconds and nanoseconds apart.
LEMMA DiffUsRange ==
    ASSUME NEW a \in Ts, NEW b \in Ts
    PROVE  /\ DiffUs(a, b) \in Int
           /\ DiffUs(a, b) * NsPerUs \in Ns(a) - Ns(b) - NsPerUs + 1 .. Ns(a) - Ns(b) + NsPerUs - 1
<1>0. /\ a.sec \in Int /\ b.sec \in Int /\ a.nsec \in Int /\ b.nsec \in Int
      /\ NsPerUs \in Nat \ {0} /\ MsPerSec \in Nat /\ UsPerMs \in Nat /\ NsPerSec \in Nat
    BY Units DEF Ts
<1>1. PICK d \in Int : d = a.nsec - b.nsec
    BY <1>0
<1>2. PICK c \in Int : c = Quotient(d, NsPerUs)
    BY <1>0, QuotientRange
<1>3. c * NsPerUs \in d - NsPerUs + 1 .. d + NsPerUs - 1
    BY <1>0, <1>2, QuotientRange
<1>4. DiffUs(a, b) = (a.sec - b.sec) * MsPerSec * UsPerMs + c
    BY <1>1, <1>2 DEF DiffUs
<1>5. ((a.sec - b.sec) * MsPerSec * UsPerMs + c) * NsPerUs
        = a.sec * NsPerSec - b.sec * NsPerSec + c * NsPerUs
    BY <1>0 DEF NsPerSec, NsPerMs
<1>6. a.sec * NsPerSec \in Int /\ b.sec * NsPerSec \in Int /\ c * NsPerUs \in Int
      /\ (a.sec - b.sec) * MsPerSec * UsPerMs \in Int
    BY <1>0
<1>7. DiffUs(a, b) * NsPerUs = a.sec * NsPerSec - b.sec * NsPerSec + c * NsPerUs
    BY <1>4, <1>5
<1>8. Ns(a) = a.sec * NsPerSec + a.nsec /\ Ns(b) = b.sec * NsPerSec + b.nsec
    BY DEF Ns
<1> QED  BY <1>0, <1>1, <1>3, <1>4, <1>6, <1>7, <1>8

\* The trace's milliseconds do not decrease with time, although seconds and
\* nanoseconds are converted apart and the difference of the nanoseconds may be
\* negative; the epoch is 0.
LEMMA EpochMsMono ==
    ASSUME NEW a \in Ts, NEW b \in Ts, g_epoch \in Ts, Ns(a) <= Ns(b)
    PROVE  EpochMs(a) \in Int /\ EpochMs(b) \in Int /\ EpochMs(a) <= EpochMs(b)
<1>0. /\ a.sec \in Int /\ b.sec \in Int /\ g_epoch.sec \in Int
      /\ a.nsec \in 0 .. NsPerSec - 1 /\ b.nsec \in 0 .. NsPerSec - 1
      /\ g_epoch.nsec \in 0 .. NsPerSec - 1
      /\ NsPerMs \in Nat \ {0} /\ MsPerSec \in Nat \ {0} /\ NsPerSec \in Nat \ {0}
    BY Units DEF Ts
<1>1. PICK x \in Int : x = a.nsec - g_epoch.nsec
    BY <1>0
<1>2. PICK y \in Int : y = b.nsec - g_epoch.nsec
    BY <1>0
<1>3. PICK p \in Int : p = Quotient(x, NsPerMs)
    BY <1>0, QuotientRange
<1>4. PICK q \in Int : q = Quotient(y, NsPerMs)
    BY <1>0, QuotientRange
<1>5. /\ EpochMs(a) = (a.sec - g_epoch.sec) * MsPerSec + p
      /\ EpochMs(b) = (b.sec - g_epoch.sec) * MsPerSec + q
    BY <1>1, <1>2, <1>3, <1>4 DEF EpochMs
<1>6. /\ (a.sec - g_epoch.sec) * MsPerSec \in Int
      /\ (b.sec - g_epoch.sec) * MsPerSec \in Int
    BY <1>0
<1>7. a.sec <= b.sec
    <2>1. a.sec * NsPerSec \in Int /\ b.sec * NsPerSec \in Int
        BY <1>0
    <2>2. a.sec * NsPerSec < b.sec * NsPerSec + NsPerSec
        BY <1>0, <2>1 DEF Ns
    <2> QED  BY <1>0, <2>2, ProductLess
<1>8. CASE a.sec = b.sec
    <2>1. a.sec * NsPerSec \in Int
        BY <1>0
    <2>2. a.nsec <= b.nsec
        BY <1>0, <1>8, <2>1 DEF Ns
    <2>3. x <= y
        BY <1>0, <1>1, <1>2, <2>2
    <2>4. p <= q
        BY <1>0, <1>3, <1>4, <2>3, QuotientMono
    <2> QED  BY <1>5, <1>6, <1>8, <2>4
<1>9. CASE a.sec < b.sec
    <2>1. PICK i \in Int : i = p * NsPerMs
        BY <1>0
    <2>2. PICK j \in Int : j = q * NsPerMs
        BY <1>0
    <2>3. PICK k \in Int : k = MsPerSec * NsPerMs /\ k = NsPerSec
        BY <1>0 DEF NsPerSec
    <2>4. x - y < k
        BY <1>0, <1>1, <1>2, <2>3
    <2>5. p - q <= MsPerSec
        <3>1. CASE x < 0 /\ y >= 0
            <4>1. p <= q
                BY <1>0, <1>3, <1>4, <3>1, QuotientMono
            <4> QED  BY <1>0, <4>1
        <3>2. CASE ~(x < 0 /\ y >= 0)
            <4>1. x >= 0 => i <= x
                BY <1>0, <1>3, <2>1, QuotientRange
            <4>2. x < 0 => i <= x + NsPerMs - 1
                BY <1>0, <1>3, <2>1, QuotientRange
            <4>3. y >= 0 => j >= y - NsPerMs + 1
                BY <1>0, <1>4, <2>2, QuotientRange
            <4>4. y < 0 => j >= y
                BY <1>0, <1>4, <2>2, QuotientRange
            <4>5. i - j < k + NsPerMs
                BY <1>0, <2>4, <3>2, <4>1, <4>2, <4>3, <4>4
            <4>6. (p - q) * NsPerMs = i - j
                BY <1>0, <2>1, <2>2
            <4>7. (p - q) * NsPerMs < MsPerSec * NsPerMs + NsPerMs
                BY <2>3, <4>5, <4>6
            <4> QED  BY <1>0, <4>7, ProductLess
        <3> QED  BY <3>1, <3>2
    <2>6. (a.sec - g_epoch.sec + 1) * MsPerSec <= (b.sec - g_epoch.sec) * MsPerSec
        BY <1>0, <1>9, ProductMono
    <2>7. (a.sec - g_epoch.sec + 1) * MsPerSec = (a.sec - g_epoch.sec) * MsPerSec + MsPerSec
        BY <1>0
    <2> QED  BY <1>0, <1>5, <1>6, <2>5, <2>6, <2>7
<1> QED  BY <1>0, <1>5, <1>6, <1>7, <1>8, <1>9

LEMMA EpochMsZero ==
    ASSUME g_epoch \in Ts
    PROVE  EpochMs(g_epoch) = 0
<1>1. g_epoch.sec \in Int /\ g_epoch.nsec \in Int
    BY Units DEF Ts
<1>2. 0 \div NsPerMs = 0
    BY Units
<1>3. Quotient(0, NsPerMs) = 0
    BY <1>2 DEF Quotient
<1>4. g_epoch.sec - g_epoch.sec = 0 /\ g_epoch.nsec - g_epoch.nsec = 0
    BY <1>1
<1>5. 0 * MsPerSec = 0
    BY Units
<1> QED  BY <1>3, <1>4, <1>5 DEF EpochMs

\* A reported miss is later than the deadline by the clock itself.
LEMMA LateIsLater ==
    ASSUME NEW a \in Ts, NEW b \in Ts
    PROVE  /\ Late(a, b) \in BOOLEAN
           /\ Late(a, b) => Ns(a) - Ns(b) > 0
           /\ Ns(a) - Ns(b) >= NsPerUs => Late(a, b)
<1>1. PICK d \in Int : d = DiffUs(a, b)
    BY DiffUsRange
<1>2. PICK e \in Int : e = d * NsPerUs
    BY Units
<1>3. Ns(a) \in Int /\ Ns(b) \in Int /\ NsPerUs \in Nat \ {0}
    BY NsInt, Units
<1>4. e \in Ns(a) - Ns(b) - NsPerUs + 1 .. Ns(a) - Ns(b) + NsPerUs - 1
    BY <1>1, <1>2, DiffUsRange
<1>5. ASSUME d > 0 PROVE Ns(a) - Ns(b) > 0
    <2>1. 1 * NsPerUs <= e
        BY <1>2, <1>3, <1>5, ProductMono
    <2> QED  BY <1>3, <1>4, <2>1
<1>6. ASSUME Ns(a) - Ns(b) >= NsPerUs PROVE d > 0
    <2>1. SUFFICES ASSUME d <= 0 PROVE FALSE
        OBVIOUS
    <2>2. e <= 0 * NsPerUs
        BY <1>2, <1>3, <2>1, ProductMono
    <2> QED  BY <1>3, <1>4, <1>6, <2>2
<1> QED  BY <1>1, <1>5, <1>6 DEF Late

-----------------------------------------------------------------------------
(* The inductive invariant *)

Event == [start_ms : Int, end_ms : Int, deadline_ms : Int, missed : BOOLEAN]

TypeOK ==
    /\ now \in Int /\ born \in Int
    /\ pc \in {"begin", "activate", "func", "advance", "sleep"}
    /\ g_epoch \in Ts /\ release_time \in Ts /\ absolute_deadline \in Ts
    /\ start \in Ts /\ finish \in Ts
    /\ last_jitter_us \in Int /\ missed \in BOOLEAN /\ activations \in Int
    /\ ev \in Event

\* The epoch is past; nothing is recorded before it.
EpochInv == Ns(g_epoch) <= now

\* No activation is counted before the first release.
FirstInv == pc = "begin" => activations = 0

\* What sleep_until computed still fits the clock, which stands still until
\* nanosleep, and the release is at most a period ahead; a thread that is
\* awake in its loop is past its release.
SleepInv ==
    pc = "sleep" =>
        /\ rem = Remaining(release_time, Timespec(now))
        /\ Ns(release_time) <= now + Period * NsPerMs
AwakeInv == pc = "activate" => Ns(release_time) <= now

\* A running activation started after its release, and what it will be judged
\* by is what it measured.
StartInv ==
    pc \in {"func", "advance"} =>
        /\ Ns(release_time) <= Ns(start)
        /\ Ns(g_epoch) <= Ns(start)
        /\ last_jitter_us = DiffUs(start, release_time)
FuncInv == pc \in {"func", "advance"} => Ns(start) <= now
MissInv == pc = "advance" => missed = Late(finish, absolute_deadline)

IInv == /\ TypeOK
        /\ EpochInv
        /\ FirstInv
        /\ SleepInv
        /\ AwakeInv
        /\ StartInv
        /\ FuncInv
        /\ MissInv
        /\ DriftFree
        /\ TraceConsistent

\* The length of n periods, and of one deadline.
Periods(n) == n * Period * NsPerMs

LEMMA PeriodsStep ==
    ASSUME NEW n \in Int
    PROVE  /\ Periods(n) \in Int /\ Period * NsPerMs \in Nat
           /\ Deadline * NsPerMs \in Nat
           /\ Periods(n) = Periods(n - 1) + Period * NsPerMs
           /\ Periods(0) = 0
<1>1. Period \in Nat /\ Deadline \in Nat /\ NsPerMs \in Nat
    BY TaskAssumption, Units
<1>2. Period * NsPerMs \in Nat /\ Deadline * NsPerMs \in Nat
    BY <1>1, ProductNat
<1>3. Periods(n) \in Int
    BY <1>1 DEF Periods
<1>4. n * Period * NsPerMs = (n - 1) * Period * NsPerMs + Period * NsPerMs
    BY <1>1
<1>5. 0 * Period * NsPerMs = 0
    BY <1>1
<1> QED  BY <1>2, <1>3, <1>4, <1>5 DEF Periods

LEMMA InitInv == Init => IInv
<1> SUFFICES ASSUME Init PROVE IInv
    OBVIOUS
<1>1. now \in Int
    BY Units DEF Init
<1>2. g_epoch \in Ts /\ Ns(g_epoch) = now
    BY <1>1, TimespecNs DEF Init
<1>3. TypeOK
    <2>1. ev \in Event
        BY DEF Init, Event, NoEvent
    <2>2. /\ release_time = g_epoch /\ absolute_deadline = g_epoch
          /\ start = g_epoch /\ finish = g_epoch
          /\ last_jitter_us = 0 /\ activations = 0 /\ born = now
          /\ missed = FALSE /\ pc = "begin"
        BY DEF Init
    <2>3. /\ release_time \in Ts /\ absolute_deadline \in Ts
          /\ start \in Ts /\ finish \in Ts
        BY <1>2, <2>2
    <2>4. last_jitter_us \in Int /\ activations \in Int /\ born \in Int
        BY <1>1, <2>2
    <2>5. missed \in BOOLEAN
        BY <2>2
    <2> QED  BY <1>1, <1>2, <2>1, <2>2, <2>3, <2>4, <2>5, Zenon DEF TypeOK
<1>4. EpochInv
    BY <1>1, <1>2 DEF EpochInv
<1>5. FirstInv /\ SleepInv /\ AwakeInv /\ StartInv /\ FuncInv /\ MissInv /\ DriftFree
    BY DEF Init, FirstInv, SleepInv, AwakeInv, StartInv, FuncInv, MissInv, DriftFree
<1>6. TraceConsistent
    BY DEF Init, TraceConsistent, NoEvent
<1> QED  BY <1>3, <1>4, <1>5, <1>6 DEF IInv

LEMMA BeginInv == IInv /\ Begin => IInv'
<1> SUFFICES ASSUME IInv, Begin PROVE IInv'
    OBVIOUS
<1>1. PICK d \in 0 .. MaxLatency : now' = now + d
    BY DEF Begin
<1>2. now \in Int /\ d \in Int /\ d >= 0
    BY BoundsAssumption DEF IInv, TypeOK
<1>3. now' \in Int /\ now <= now'
    BY <1>1, <1>2
<1>4. release_time' \in Ts /\ Ns(release_time') = now'
    BY <1>3, TimespecNs DEF Begin
<1>5. /\ absolute_deadline' \in Ts
      /\ Ns(absolute_deadline') = Ns(release_time') + Deadline * NsPerMs
    BY <1>4, TaskAssumption, AddMsExact DEF Begin
<1>6. TypeOK'
    BY <1>3, <1>4, <1>5 DEF IInv, TypeOK, Begin
<1>7. EpochInv'
    <2>1. Ns(g_epoch) \in Int /\ Ns(g_epoch) <= now /\ Ns(g_epoch)' = Ns(g_epoch)
        BY NsInt DEF IInv, TypeOK, EpochInv, Begin, Ns
    <2> QED  BY <1>2, <1>3, <2>1 DEF EpochInv
<1>8. AwakeInv'
    <2>1. Ns(release_time)' = now'
        BY <1>4 DEF Ns
    <2> QED  BY <1>3, <2>1 DEF AwakeInv
<1>9. (FirstInv /\ SleepInv /\ StartInv /\ FuncInv /\ MissInv)'
    BY DEF Begin, FirstInv, SleepInv, StartInv, FuncInv, MissInv
<1>10. DriftFree'
    <2>1. born' = now' /\ pc' = "activate" /\ activations' = 0
        BY DEF Begin, IInv, FirstInv
    <2>2. Released' = 0
        BY <2>1 DEF Released
    <2>3. 0 * Period * NsPerMs = 0
        BY PeriodsStep DEF Periods
    <2>4. /\ Ns(release_time)' = born' + Released' * Period * NsPerMs
          /\ Ns(absolute_deadline)' = Ns(release_time)' + Deadline * NsPerMs
        BY <1>3, <1>4, <1>5, <2>1, <2>2, <2>3 DEF Ns
    <2> QED  BY <2>4 DEF DriftFree
<1>11. TraceConsistent'
    BY DEF IInv, TraceConsistent, Begin
<1> QED  BY <1>6, <1>7, <1>8, <1>9, <1>10, <1>11 DEF IInv

LEMMA ActivateInv == IInv /\ Activate => IInv'
<1> SUFFICES ASSUME IInv, Activate PROVE IInv'
    OBVIOUS
<1>0. /\ now \in Int /\ activations \in Int /\ now' = now /\ pc = "activate" /\ pc' = "func"
      /\ g_epoch' = g_epoch /\ release_time' = release_time
      /\ absolute_deadline' = absolute_deadline /\ born' = born
      /\ activations' = activations + 1
    BY DEF IInv, TypeOK, Activate
<1>1. start' \in Ts /\ Ns(start') = now
    BY <1>0, TimespecNs DEF Activate
<1>2. last_jitter_us' = DiffUs(start', release_time') /\ last_jitter_us' \in Int
    <2>1. release_time \in Ts
        BY DEF IInv, TypeOK
    <2>2. last_jitter_us' = DiffUs(start', release_time)
        BY DEF Activate
    <2>3. DiffUs(start', release_time) \in Int
        BY <1>1, <2>1, DiffUsRange
    <2> QED  BY <1>0, <2>2, <2>3
<1>3. TypeOK'
    BY <1>0, <1>1, <1>2 DEF IInv, TypeOK, Activate
<1>4. EpochInv'
    BY <1>0 DEF IInv, EpochInv, Ns
<1>5. (FirstInv /\ SleepInv /\ AwakeInv /\ MissInv)'
    BY <1>0 DEF FirstInv, SleepInv, AwakeInv, MissInv
<1>6. StartInv'
    <2>1. Ns(start)' = now
        BY <1>1 DEF Ns
    <2>2. Ns(release_time)' <= now /\ Ns(g_epoch)' <= now
        BY <1>0 DEF IInv, AwakeInv, EpochInv, Ns
    <2>3. last_jitter_us' = DiffUs(start, release_time)'
        BY <1>2 DEF DiffUs
    <2> QED  BY <2>1, <2>2, <2>3 DEF StartInv
<1>7. FuncInv'
    <2>1. Ns(start)' = now
        BY <1>1 DEF Ns
    <2> QED  BY <1>0, <2>1 DEF FuncInv
<1>8. DriftFree'
    <2>1. Released' = Released
        BY <1>0 DEF Released
    <2> QED  BY <1>0, <2>1 DEF IInv, DriftFree, Ns
<1>9. TraceConsistent'
    BY DEF IInv, TraceConsistent, Activate
<1> QED  BY <1>3, <1>4, <1>5, <1>6, <1>7, <1>8, <1>9 DEF IInv

LEMMA FinishInv == IInv /\ Finish => IInv'
<1> SUFFICES ASSUME IInv, Finish PROVE IInv'
    OBVIOUS
<1>0. /\ now \in Int /\ pc = "func" /\ pc' = "advance" /\ start \in Ts
      /\ g_epoch \in Ts /\ absolute_deadline \in Ts
      /\ g_epoch' = g_epoch /\ release_time' = release_time /\ start' = start
      /\ absolute_deadline' = absolute_deadline /\ born' = born
      /\ activations' = activations /\ last_jitter_us' = last_jitter_us
    BY DEF IInv, TypeOK, Finish
<1>1. PICK d \in 0 .. MaxExec : now' = now + d
    BY DEF Finish
<1>2. now' \in Int /\ now <= now'
    BY <1>0, <1>1, BoundsAssumption
<1>3. finish' \in Ts /\ Ns(finish') = now'
    BY <1>2, TimespecNs DEF Finish
<1>4. missed' = Late(finish', absolute_deadline) /\ missed' \in BOOLEAN
    BY <1>0, <1>3, LateIsLater DEF Finish
<1>5. Ns(start) \in Int /\ Ns(g_epoch) \in Int /\ Ns(absolute_deadline) \in Int
    BY <1>0, NsInt
<1>6. Ns(g_epoch) <= Ns(start) /\ Ns(start) <= now
    BY <1>0 DEF IInv, StartInv, FuncInv
<1>7. /\ ev'.start_ms = EpochMs(start) /\ ev'.end_ms = EpochMs(finish')
      /\ ev'.deadline_ms = EpochMs(absolute_deadline) /\ ev'.missed = missed'
      /\ ev' = [start_ms |-> EpochMs(start), end_ms |-> EpochMs(finish'),
                deadline_ms |-> EpochMs(absolute_deadline), missed |-> missed']
    BY DEF Finish
<1>8. Ns(start) <= Ns(finish')
    BY <1>0, <1>2, <1>3, <1>5, <1>6
<1>9. EpochMs(start) \in Int /\ EpochMs(finish') \in Int /\ EpochMs(start) <= EpochMs(finish')
    BY <1>0, <1>3, <1>8, EpochMsMono
<1>10. EpochMs(absolute_deadline) \in Int
    <2>1. Ns(absolute_deadline) <= Ns(absolute_deadline)
        BY <1>5
    <2> QED  BY <1>0, <2>1, EpochMsMono
<1>11. TypeOK'
    <2>1. ev' \in Event
        BY <1>4, <1>7, <1>9, <1>10 DEF Event
    <2> QED  BY <1>2, <1>3, <1>4, <2>1 DEF IInv, TypeOK, Finish
<1>12. EpochInv'
    <2>1. Ns(g_epoch)' = Ns(g_epoch)
        BY <1>0 DEF Ns
    <2> QED  BY <1>0, <1>2, <1>5, <1>6, <2>1 DEF EpochInv
<1>13. (FirstInv /\ SleepInv /\ AwakeInv /\ FuncInv)'
    <2>1. Ns(start)' <= now'
        BY <1>0, <1>2, <1>5, <1>6 DEF Ns
    <2> QED  BY <1>0, <2>1 DEF FirstInv, SleepInv, AwakeInv, FuncInv
<1>14. StartInv'
    BY <1>0 DEF IInv, StartInv, DiffUs, Ns
<1>15. MissInv'
    <2>1. Late(finish, absolute_deadline)' = Late(finish', absolute_deadline)
        BY <1>0 DEF Late, DiffUs
    <2> QED  BY <1>4, <2>1 DEF MissInv
<1>16. DriftFree'
    <2>1. Released' = Released
        BY <1>0 DEF Released
    <2> QED  BY <1>0, <2>1 DEF IInv, DriftFree, Ns
<1>17. TraceConsistent'
    <2>1. 0 <= EpochMs(start)
        BY <1>0, <1>6, EpochMsMono, EpochMsZero
    <2>2. ASSUME missed' PROVE EpochMs(absolute_deadline) <= EpochMs(finish')
        <3>1. Ns(finish') - Ns(absolute_deadline) > 0
            BY <1>0, <1>3, <1>4, <2>2, LateIsLater
        <3>2. Ns(absolute_deadline) <= Ns(finish')
            BY <1>2, <1>3, <1>5, <3>1
        <3> QED  BY <1>0, <1>3, <3>2, EpochMsMono
    <2> QED  BY <1>7, <1>9, <2>1, <2>2 DEF TraceConsistent
<1> QED  BY <1>11, <1>12, <1>13, <1>14, <1>15, <1>16, <1>17 DEF IInv

LEMMA AdvanceInv == IInv /\ Advance => IInv'
<1> SUFFICES ASSUME IInv, Advance PROVE IInv'
    OBVIOUS
<1>0. /\ now \in Int /\ born \in Int /\ activations \in Int
      /\ pc = "advance" /\ pc' = "sleep"
      /\ release_time \in Ts /\ absolute_deadline \in Ts
      /\ now' = now /\ g_epoch' = g_epoch /\ born' = born /\ activations' = activations
    BY DEF IInv, TypeOK, Advance
<1>1. /\ release_time' \in Ts
      /\ Ns(release_time') = Ns(release_time) + Period * NsPerMs
    BY <1>0, TaskAssumption, AddMsExact DEF Advance, NextRelease
<1>2. /\ absolute_deadline' \in Ts
      /\ Ns(absolute_deadline') = Ns(absolute_deadline) + Period * NsPerMs
    BY <1>0, TaskAssumption, AddMsExact DEF Advance
<1>3. TypeOK'
    BY <1>1, <1>2 DEF IInv, TypeOK, Advance
<1>4. EpochInv'
    BY <1>0 DEF IInv, EpochInv, Ns
<1>5. (FirstInv /\ AwakeInv /\ StartInv /\ FuncInv /\ MissInv)'
    BY <1>0 DEF FirstInv, AwakeInv, StartInv, FuncInv, MissInv
<1>6. SleepInv'
    <2>1. rem' = Remaining(release_time', Timespec(now))
        BY DEF Advance
    <2>2. Remaining(release_time, Timespec(now))' = Remaining(release_time', Timespec(now))
        BY <1>0 DEF Remaining, Timespec
    <2>3. Ns(release_time) <= Ns(start) /\ Ns(start) <= now
        BY <1>0 DEF IInv, StartInv, FuncInv
    <2>4. Ns(release_time) \in Int /\ Ns(start) \in Int /\ Period * NsPerMs \in Int
        BY NsInt, PeriodsStep DEF IInv, TypeOK
    <2>5. Ns(release_time') <= now + Period * NsPerMs
        BY <1>0, <1>1, <2>3, <2>4
    <2>6. Ns(release_time)' = Ns(release_time')
        BY DEF Ns
    <2>7. (Period * NsPerMs)' = Period * NsPerMs
        BY DEF NsPerMs
    <2> QED  BY <1>0, <2>1, <2>2, <2>5, <2>6, <2>7 DEF SleepInv
<1>7. DriftFree'
    <2>1. Released = activations - 1 /\ Released' = activations
        BY <1>0 DEF Released
    <2>2. /\ Ns(release_time) = born + Periods(activations - 1)
          /\ Ns(absolute_deadline) = Ns(release_time) + Deadline * NsPerMs
        BY <1>0, <2>1 DEF IInv, DriftFree, Periods
    <2>3. /\ Periods(activations) = Periods(activations - 1) + Period * NsPerMs
          /\ Periods(activations - 1) \in Int /\ Period * NsPerMs \in Int
          /\ Deadline * NsPerMs \in Int
        <3>1. activations - 1 \in Int
            BY <1>0
        <3>2. Periods(activations - 1) \in Int
            BY <3>1, PeriodsStep
        <3> QED  BY <1>0, <3>2, PeriodsStep
    <2>4. /\ Ns(release_time') = born + Periods(activations)
          /\ Ns(absolute_deadline') = Ns(release_time') + Deadline * NsPerMs
        <3>1. Ns(release_time) \in Int
            BY <1>0, NsInt
        <3> QED  BY <1>0, <1>1, <1>2, <2>2, <2>3, <3>1
    <2>5. Ns(release_time)' = Ns(release_time') /\ Ns(absolute_deadline)' = Ns(absolute_deadline')
        BY DEF Ns
    <2> QED  BY <1>0, <2>1, <2>4, <2>5 DEF DriftFree, Periods
<1>8. TraceConsistent'
    BY DEF IInv, TraceConsistent, Advance
<1> QED  BY <1>3, <1>4, <1>5, <1>6, <1>7, <1>8 DEF IInv

\* How long the task sleeps: what its release is still ahead, or nothing.
LEMMA WakeTime ==
    ASSUME IInv, Wake
    PROVE  \E d \in 0 .. MaxLatency :
              now' = (IF Ns(release_time) >= now THEN Ns(release_time) ELSE now) + d
<1>1. PICK d \in 0 .. MaxLatency : now' = now + SleepsFor(rem) + d
    BY DEF Wake
<1>2. now \in Int /\ release_time \in Ts /\ d \in Int
    BY BoundsAssumption DEF IInv, TypeOK
<1>3. Timespec(now) \in Ts /\ Ns(Timespec(now)) = now
    BY <1>2, TimespecNs
<1>4. rem = Remaining(release_time, Timespec(now))
    BY DEF Wake, IInv, SleepInv
<1>5. SleepsFor(rem) = IF Ns(release_time) >= now THEN Ns(release_time) - now ELSE 0
    BY <1>2, <1>3, <1>4, RemainingExact
<1>6. Ns(release_time) \in Int
    BY <1>2, NsInt
<1>7. now' = (IF Ns(release_time) >= now THEN Ns(release_time) ELSE now) + d
    BY <1>1, <1>2, <1>5, <1>6
<1> QED  BY <1>7

LEMMA WakeInv == IInv /\ Wake => IInv'
<1> SUFFICES ASSUME IInv, Wake PROVE IInv'
    OBVIOUS
<1>0. /\ now \in Int /\ pc = "sleep" /\ pc' = "activate" /\ release_time \in Ts /\ g_epoch \in Ts
      /\ g_epoch' = g_epoch /\ release_time' = release_time
      /\ absolute_deadline' = absolute_deadline /\ born' = born
      /\ activations' = activations
    BY DEF IInv, TypeOK, Wake
<1>1. Ns(release_time) \in Int /\ Ns(g_epoch) \in Int
    BY <1>0, NsInt
<1>2. now' \in Int /\ now <= now' /\ Ns(release_time) <= now'
    <2>1. PICK d \in 0 .. MaxLatency :
            now' = (IF Ns(release_time) >= now THEN Ns(release_time) ELSE now) + d
        BY WakeTime
    <2>2. d \in Int /\ d >= 0
        BY BoundsAssumption
    <2> QED  BY <1>0, <1>1, <2>1, <2>2
<1>3. Ns(release_time)' = Ns(release_time) /\ Ns(g_epoch)' = Ns(g_epoch)
    BY <1>0 DEF Ns
<1>4. TypeOK'
    BY <1>2 DEF IInv, TypeOK, Wake
<1>5. EpochInv'
    BY <1>0, <1>1, <1>2, <1>3 DEF IInv, EpochInv
<1>6. AwakeInv'
    BY <1>2, <1>3 DEF AwakeInv
<1>7. (FirstInv /\ SleepInv /\ StartInv /\ FuncInv /\ MissInv)'
    BY <1>0 DEF FirstInv, SleepInv, StartInv, FuncInv, MissInv
<1>8. DriftFree'
    <2>1. Released' = Released
        BY <1>0 DEF Released
    <2> QED  BY <1>0, <2>1 DEF IInv, DriftFree, Ns
<1>9. TraceConsistent'
    BY DEF IInv, TraceConsistent, Wake
<1> QED  BY <1>4, <1>5, <1>6, <1>7, <1>8, <1>9 DEF IInv

-----------------------------------------------------------------------------
(* The theorems *)

\* Every reachable state satisfies the inductive invariant: the thread's own
\* notion of its release, its start and its judgement agree with the clock.
THEOREM Inductive == Spec => []IInv
<1>1. IInv /\ [Next]_vars => IInv'
    <2> SUFFICES ASSUME IInv, [Next]_vars PROVE IInv'
        OBVIOUS
    <2>1. CASE Begin
        BY <2>1, BeginInv
    <2>2. CASE Activate
        BY <2>2, ActivateInv
    <2>3. CASE Finish
        BY <2>3, FinishInv
    <2>4. CASE Advance
        BY <2>4, AdvanceInv
    <2>5. CASE Wake
        BY <2>5, WakeInv
    <2>6. CASE Stopped \/ UNCHANGED vars
        BY <2>6 DEF Stopped, IInv, TypeOK, EpochInv, FirstInv, SleepInv, AwakeInv, StartInv,
            FuncInv, MissInv, DriftFree, Released, TraceConsistent,
            Ns, DiffUs, Late, Remaining, Timespec
    <2> QED  BY <2>1, <2>2, <2>3, <2>4, <2>5, <2>6 DEF Next
<1> QED  BY InitInv, <1>1, PTL DEF Spec

\* Releases and deadlines advance in exact periods from the thread's first run,
\* for every period, deadline, execution time and latency: the carries of
\* timespec_add_ms lose nothing.
THEOREM NoDrift == Spec => []DriftFree
<1>1. IInv => DriftFree
    BY DEF IInv
<1> QED  BY Inductive, <1>1, PTL

\* No activation starts before its release, and its jitter is its lateness to
\* the microsecond.
THEOREM StartsAfterRelease == Spec => []NeverEarly
<1>1. IInv => NeverEarly
    <2> SUFFICES ASSUME IInv, pc \in {"func", "advance"} PROVE NeverEarly
        BY DEF NeverEarly
    <2>1. start \in Ts /\ release_time \in Ts
        BY DEF IInv, TypeOK
    <2>2. Ns(release_time) = born + Released * Period * NsPerMs
        BY DEF IInv, DriftFree
    <2>3. Ns(release_time) <= Ns(start) /\ last_jitter_us = DiffUs(start, release_time)
        BY DEF IInv, StartInv
    <2>4. Ns(start) \in Int /\ Ns(release_time) \in Int
        BY <2>1, NsInt
    <2>5. last_jitter_us * NsPerUs \in
            Ns(start) - Ns(release_time) - NsPerUs + 1 .. Ns(start) - Ns(release_time) + NsPerUs - 1
        BY <2>1, <2>3, DiffUsRange
    <2>6. Ns(start) - Ns(release_time) >= 0
        BY <2>3, <2>4
    <2> QED  BY <2>2, <2>5, <2>6 DEF NeverEarly
<1> QED  BY Inductive, <1>1, PTL

\* A counted miss is a real overrun, and an overrun of a microsecond is counted.
THEOREM MissesAreReal == Spec => []MissExact
<1>1. IInv => MissExact
    BY LateIsLater DEF IInv, TypeOK, MissInv, MissExact
<1> QED  BY Inductive, <1>1, PTL

\* A trace event neither precedes the epoch nor ends before it starts, and a
\* missed deadline is not after its end.
THEOREM ConsistentTrace == Spec => []TraceConsistent
<1>1. IInv => TraceConsistent
    BY DEF IInv
<1> QED  BY Inductive, <1>1, PTL

\* A task sleeps for at most a period (and the kernel's latency), and one that
\* overran its next release does not sleep: no lateness makes sleep_until's
\* subtraction wrap into a long sleep.
THEOREM SleepBounded == Spec => SleepAtMostPeriod
<1>1. ASSUME IInv, [Next]_vars, pc = "sleep", pc' = "activate"
      PROVE  /\ now' - now <= Period * NsPerMs + MaxLatency
             /\ Ns(release_time) <= now => now' - now <= MaxLatency
    <2>1. Wake
        BY <1>1 DEF Next, Begin, Activate, Finish, Advance, Stopped
    <2>2. PICK d \in 0 .. MaxLatency :
            now' = (IF Ns(release_time) >= now THEN Ns(release_time) ELSE now) + d
        BY <1>1, <2>1, WakeTime
    <2>3. /\ now \in Int /\ release_time \in Ts
          /\ Ns(release_time) <= now + Period * NsPerMs
        BY <1>1 DEF IInv, TypeOK, SleepInv
    <2>4. Ns(release_time) \in Int /\ Period * NsPerMs \in Nat /\ MaxLatency \in Nat
          /\ d \in Int
        BY <2>3, NsInt, PeriodsStep, BoundsAssumption
    <2>5. CASE Ns(release_time) >= now
        BY <2>2, <2>3, <2>4, <2>5
    <2>6. CASE ~(Ns(release_time) >= now)
        BY <2>2, <2>3, <2>4, <2>6
    <2> QED  BY <2>5, <2>6
<1>2. IInv /\ [Next]_vars =>
        [pc = "sleep" /\ pc' = "activate" =>
            /\ now' - now <= Period * NsPerMs + MaxLatency
            /\ Ns(release_time) <= now => now' - now <= MaxLatency]_vars
    BY <1>1
<1> QED  BY Inductive, <1>2, PTL DEF Spec, SleepAtMostPeriod

=============================================================================
