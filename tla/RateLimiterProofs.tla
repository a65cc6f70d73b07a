-------------------------- MODULE RateLimiterProofs --------------------------
(***************************************************************************)
(* TLAPS proofs about RateLimiter, for any keys, requests, limit, window   *)
(* and length of a second.                                                 *)
(***************************************************************************)
EXTENDS RateLimiter, WellFoundedInduction, TLAPS

USE DEF limiter, requests, history

(* late is what is left of stamps when some from its beginning, none of    *)
(* them after old, are dropped.                                            *)
Suffix(late, stamps, old) ==
  /\ Len(late) <= Len(stamps)
  /\ \A i \in 1 .. Len(late) : late[i] = stamps[Len(stamps) - Len(late) + i]
  /\ \A i \in 1 .. (Len(stamps) - Len(late)) : stamps[i] <= old

(* What holds of the entries e of a key, its admitted attempts a and its   *)
(* promise p at time c: the entries are the latest of the admitted         *)
(* attempts, and the others are a window old; while the key is full, a     *)
(* refused client was told to wait for its first entry to expire.          *)
Counted(e, a, p, c) ==
  /\ Len(e) <= Limit
  /\ Len(a) <= Limit + 1
  /\ Suffix(e, a, c - Window)
  /\ p = NoPromise \/ Len(e) < Limit \/ e[1] + Window <= p

KeyInv(k) == Counted(entries[k], admitted[k], promised[k], clock)

RequestInv(r) ==
  /\ now[r] <= clock
  /\ pc[r] # "idle" => key[r] \in Keys

(* The inductive invariant.                                                *)
IInv ==
  /\ TypeOK
  /\ clock <= MaxClock
  /\ \A k \in Keys : KeyInv(k)
  /\ \A r \in Requests : RequestInv(r)

-----------------------------------------------------------------------------
(* Every set of natural numbers that is not empty has a least element, and *)
(* Min is that.                                                            *)
LEMMA LeastExists ==
  ASSUME NEW S, S \subseteq Nat, S # {}
  PROVE  Min(S) \in S /\ \A y \in S : Min(S) <= y
<1>1. IsWellFoundedOn(OpToRel(<, Nat), Nat)
  BY NatLessThanWellFounded
<1>2. PICK x \in S : \A y \in S : ~ (<<y, x>> \in OpToRel(<, Nat))
  BY <1>1, WFMin, Zenon
<1>3. \A y \in S : ~ (y < x)
  BY <1>2 DEF OpToRel
<1>4. \E z \in S : \A y \in S : z <= y
  BY <1>3
<1> QED
  BY <1>4, Zenon DEF Min

(* trimExpired drops expired stamps from the beginning, up to the first    *)
(* that is not.                                                            *)
LEMMA Trims ==
  ASSUME NEW stamps \in Seq(Nat), NEW cutoff \in Int
  PROVE  /\ trimExpired(stamps, cutoff) \in Seq(Nat)
         /\ Suffix(trimExpired(stamps, cutoff), stamps, cutoff)
         /\ trimExpired(stamps, cutoff) # <<>> =>
              trimExpired(stamps, cutoff)[1] > cutoff
<1> DEFINE fresh == {i \in DOMAIN stamps : stamps[i] > cutoff}
<1>0. /\ DOMAIN stamps = 1 .. Len(stamps) /\ Len(stamps) \in Nat
      /\ \A i \in 1 .. Len(stamps) : stamps[i] \in Nat
  OBVIOUS
<1>1. CASE fresh = {}
  <2>1. trimExpired(stamps, cutoff) = <<>>
    BY <1>1 DEF trimExpired
  <2>2. ASSUME NEW i \in 1 .. Len(stamps)
        PROVE  stamps[i] <= cutoff
    <3>1. ~(stamps[i] > cutoff)
      BY <1>0, <1>1
    <3> HIDE DEF fresh
    <3> QED
      BY <1>0, <3>1
  <2> QED
    BY <1>0, <2>1, <2>2 DEF Suffix
<1>2. CASE fresh # {}
  <2> DEFINE m == Min(fresh)
  <2>0. fresh \subseteq Nat
    BY <1>0
  <2>1. m \in fresh /\ \A i \in fresh : m <= i
    <3> HIDE DEF fresh
    <3> QED
      BY <1>2, <2>0, LeastExists
  <2>2. trimExpired(stamps, cutoff) = SubSeq(stamps, m, Len(stamps))
    BY <1>2 DEF trimExpired
  <2> HIDE DEF m
  <2>3. m \in 1 .. Len(stamps) /\ stamps[m] > cutoff
    BY <1>0, <2>1
  <2>4. ASSUME NEW i \in 1 .. (m - 1)
        PROVE  stamps[i] <= cutoff
    <3>1. i \in 1 .. Len(stamps) /\ stamps[i] \in Nat /\ ~(m <= i)
      BY <1>0, <2>3
    <3>2. i \notin fresh
      BY <2>1, <3>1
    <3>3. ~(stamps[i] > cutoff)
      BY <1>0, <3>1, <3>2
    <3> HIDE DEF fresh
    <3> QED
      BY <3>1, <3>3
  <2> HIDE DEF fresh
  <2>5. /\ SubSeq(stamps, m, Len(stamps)) \in Seq(Nat)
        /\ Len(SubSeq(stamps, m, Len(stamps))) = Len(stamps) - m + 1
        /\ \A i \in 1 .. (Len(stamps) - m + 1) :
             SubSeq(stamps, m, Len(stamps))[i] = stamps[m + i - 1]
    BY <1>0, <2>3
  <2> DEFINE t == SubSeq(stamps, m, Len(stamps))
             n == Len(stamps)
  <2> HIDE DEF t
  <2>6. /\ Len(t) = n - m + 1 /\ n \in Nat /\ m \in 1 .. n
        /\ \A i \in 1 .. Len(t) : t[i] = stamps[m + i - 1]
    BY <1>0, <2>3, <2>5 DEF t
  <2> HIDE DEF n
  <2>7. /\ Len(t) <= n
        /\ \A i \in 1 .. Len(t) : t[i] = stamps[n - Len(t) + i]
        /\ \A i \in 1 .. (n - Len(t)) : stamps[i] <= cutoff
    <3>1. n - Len(t) = m - 1 /\ Len(t) \in Nat
      BY <2>6
    <3>2. \A i \in 1 .. Len(t) : n - Len(t) + i = m + i - 1
      BY <2>6, <3>1
    <3> QED
      BY <2>4, <2>6, <3>1, <3>2
  <2>8. t[1] > cutoff
    BY <2>3, <2>6
  <2> QED
    BY <2>2, <2>5, <2>7, <2>8 DEF Suffix, t, n
<1> QED
  BY <1>1, <1>2

(* What is left of what was left is what is left.                          *)
LEMMA SuffixOfSuffix ==
  ASSUME NEW a \in Seq(Nat), NEW e \in Seq(Nat), NEW t \in Seq(Nat),
         NEW old \in Int, NEW cutoff \in Int, cutoff <= old,
         Suffix(e, a, old), Suffix(t, e, cutoff)
  PROVE  Suffix(t, a, old)
<1> DEFINE la == Len(a)
           le == Len(e)
           lt == Len(t)
<1>0. /\ la \in Nat /\ le \in Nat /\ lt \in Nat /\ lt <= le /\ le <= la
      /\ \A i \in 1 .. lt : t[i] = e[le - lt + i]
      /\ \A i \in 1 .. (le - lt) : e[i] <= cutoff /\ e[i] \in Nat
      /\ \A i \in 1 .. le : e[i] = a[la - le + i]
      /\ \A i \in 1 .. (la - le) : a[i] <= old
  BY DEF Suffix
<1> SUFFICES /\ \A i \in 1 .. lt : t[i] = a[la - lt + i]
             /\ \A i \in 1 .. (la - lt) : a[i] <= old
  BY <1>0 DEF Suffix
<1> HIDE DEF la, le, lt
<1>2. ASSUME NEW i \in 1 .. lt
      PROVE  t[i] = a[la - lt + i]
  <2>1. le - lt + i \in 1 .. le /\ la - le + (le - lt + i) = la - lt + i
    BY <1>0
  <2> QED
    BY <1>0, <2>1
<1>3. ASSUME NEW i \in 1 .. (la - lt)
      PROVE  a[i] <= old
  <2>1. CASE i <= la - le
    BY <1>0, <2>1
  <2>2. CASE i > la - le
    <3> DEFINE j == i - (la - le)
    <3>1. j \in 1 .. (le - lt) /\ j \in 1 .. le /\ la - le + j = i
      BY <1>0, <2>2
    <3> HIDE DEF j
    <3>2. e[j] = a[i] /\ e[j] <= cutoff /\ e[j] \in Nat
      BY <1>0, <3>1
    <3> QED
      BY <3>2
  <2> QED
    BY <1>0, <2>1, <2>2
<1> QED
  BY <1>2, <1>3

(* A longer window of time keeps what is left.                             *)
LEMMA SuffixLater ==
  ASSUME NEW a \in Seq(Nat), NEW e \in Seq(Nat),
         NEW old \in Int, NEW later \in Int, old <= later, Suffix(e, a, old)
  PROVE  Suffix(e, a, later)
  BY DEF Suffix

(* Seconds rounds up.                                                      *)
LEMMA RoundsUp ==
  ASSUME NEW d \in Nat
  PROVE  /\ Second * Seconds(d) \in Nat
         /\ d <= Second * Seconds(d)
<1> DEFINE a == d + Second - 1
<1>1. Second \in Nat /\ Second > 0 /\ a \in Nat
  BY RateLimiterAssumption
<1>2. /\ a \div Second \in Nat /\ a % Second \in 0 .. (Second - 1)
      /\ a = Second * (a \div Second) + (a % Second)
  BY <1>1
<1>3. Seconds(d) = a \div Second
  BY DEF Seconds
<1> HIDE DEF a
<1> DEFINE q == a \div Second
           p == Second * q
<1>4. p \in Nat
  BY <1>1, <1>2
<1>5. a = p + (a % Second)
  BY <1>2
<1> HIDE DEF p
<1>6. d <= p
  BY <1>1, <1>2, <1>4, <1>5 DEF a
<1> QED
  BY <1>3, <1>4, <1>6 DEF p

LEMMA MinOfTwo ==
  ASSUME NEW a \in Nat, NEW b \in Nat
  PROVE  Min({a, b}) = IF a <= b THEN a ELSE b
<1>1. Min({a, b}) \in {a, b} /\ \A y \in {a, b} : Min({a, b}) <= y
  BY LeastExists
<1> QED
  BY <1>1

-----------------------------------------------------------------------------
(* Trimming keeps what holds of a key.                                     *)
LEMMA TrimKeeps ==
  ASSUME NEW e \in Seq(Nat), NEW a \in Seq(Nat), NEW p \in Nat, NEW c \in Nat,
         NEW cutoff \in Int, cutoff <= c - Window, Counted(e, a, p, c)
  PROVE  Counted(trimExpired(e, cutoff), a, p, c)
<1> DEFINE t == trimExpired(e, cutoff)
<1>1. /\ t \in Seq(Nat) /\ Suffix(t, e, cutoff)
  BY Trims
<1> HIDE DEF t
<1>2. c - Window \in Int /\ Suffix(t, a, c - Window)
  BY <1>1, SuffixOfSuffix, RateLimiterAssumption DEF Counted
<1>3. Len(t) <= Len(e) /\ Len(t) \in Nat /\ Len(e) \in Nat
  BY <1>1 DEF Suffix
<1>4. Len(t) <= Limit
  BY <1>3, RateLimiterAssumption DEF Counted
<1>5. Len(t) < Limit \/ (Len(t) = Limit /\ t[1] = e[1])
  <2>1. CASE Len(t) = Limit
    <3>1. Len(e) = Limit
      BY <1>3, <2>1, RateLimiterAssumption DEF Counted
    <3>2. 1 \in 1 .. Len(t) /\ Len(e) - Len(t) + 1 = 1
      BY <1>3, <2>1, <3>1, RateLimiterAssumption
    <3>3. t[1] = e[Len(e) - Len(t) + 1]
      BY <1>1, <3>2 DEF Suffix
    <3> QED
      BY <2>1, <3>2, <3>3
  <2> QED
    BY <1>3, <1>4, <2>1, RateLimiterAssumption
<1>6. p = NoPromise \/ Len(t) < Limit \/ t[1] + Window <= p
  BY <1>3, <1>5, RateLimiterAssumption DEF Counted
<1> QED
  BY <1>2, <1>4, <1>6 DEF Counted, t

(* Time passing keeps what holds of a key.                                 *)
LEMMA LaterKeeps ==
  ASSUME NEW e \in Seq(Nat), NEW a \in Seq(Nat), NEW p \in Nat,
         NEW c \in Nat, NEW d \in Nat, c <= d, Counted(e, a, p, c)
  PROVE  Counted(e, a, p, d)
<1>1. c - Window \in Int /\ d - Window \in Int /\ c - Window <= d - Window
  BY RateLimiterAssumption
<1>2. Suffix(e, a, d - Window)
  BY <1>1, SuffixLater DEF Counted
<1> QED
  BY <1>2 DEF Counted

(* One more attempt on a key that is not full keeps it.                    *)
LEMMA AdmitKeeps ==
  ASSUME NEW e \in Seq(Nat), NEW a \in Seq(Nat), NEW p \in Nat, NEW c \in Nat,
         NEW n \in Nat, Counted(e, a, p, c), ~Full(e)
  PROVE  Counted(Append(e, n), Latest(Append(a, n)), NoPromise, c)
<1> DEFINE b == Append(a, n)
           f == Append(e, n)
           old == c - Window
<1>1. /\ f \in Seq(Nat) /\ b \in Seq(Nat) /\ Len(f) = Len(e) + 1 /\ Len(b) = Len(a) + 1
      /\ Len(e) \in Nat /\ Len(a) \in Nat /\ Len(e) <= Len(a)
      /\ \A i \in 1 .. Len(e) : f[i] = e[i]
      /\ \A i \in 1 .. Len(a) : b[i] = a[i]
      /\ f[Len(f)] = n /\ b[Len(b)] = n
  BY DEF Counted, Suffix
<1>2. Len(f) <= Limit
  BY <1>1, RateLimiterAssumption DEF Full
<1>3. Suffix(f, b, old)
  <2>1. \A i \in 1 .. (Len(b) - Len(f)) : b[i] <= old
    BY <1>1 DEF Counted, Suffix
  <2>2. ASSUME NEW i \in 1 .. Len(f)
        PROVE  f[i] = b[Len(b) - Len(f) + i]
    <3>1. CASE i = Len(f)
      BY <1>1, <3>1
    <3>2. CASE i # Len(f)
      <4>1. i \in 1 .. Len(e) /\ Len(a) - Len(e) + i \in 1 .. Len(a)
            /\ Len(b) - Len(f) + i = Len(a) - Len(e) + i
        BY <1>1, <3>2
      <4>2. e[i] = a[Len(a) - Len(e) + i]
        BY <4>1 DEF Counted, Suffix
      <4> QED
        BY <1>1, <4>1, <4>2
    <3> QED
      BY <3>1, <3>2
  <2>3. Len(f) <= Len(b)
    BY <1>1
  <2> HIDE DEF b, f, old
  <2> QED
    BY <2>1, <2>2, <2>3 DEF Suffix
<1> HIDE DEF b, f, old
<1>4. CASE Len(b) <= Limit + 1
  <2>1. Latest(b) = b
    BY <1>1, <1>4, RateLimiterAssumption DEF Latest
  <2> QED
    BY <1>2, <1>3, <1>4, <2>1 DEF Counted, b, f, old
<1>5. CASE Len(b) > Limit + 1
  <2> DEFINE t == Tail(b)
  <2>1. Latest(b) = t
    BY <1>5 DEF Latest
  <2>2. /\ t \in Seq(Nat) /\ Len(t) = Len(b) - 1
        /\ \A i \in 1 .. Len(t) : t[i] = b[i + 1]
    BY <1>1, <1>5, RateLimiterAssumption
  <2>3. Len(a) <= Limit + 1
    BY DEF Counted
  <2>4. Len(t) <= Limit + 1
    BY <1>1, <2>2, <2>3
  <2> HIDE DEF t
  <2>5. Suffix(f, t, old)
    <3> DEFINE lf == Len(f)
               lb == Len(b)
               lt == Len(t)
    <3>1. /\ lf \in Nat /\ lb \in Nat /\ lt \in Nat /\ lf <= lt /\ lb = lt + 1
          /\ \A i \in 1 .. lt : t[i] = b[i + 1]
      BY <1>1, <1>2, <1>5, <2>2, RateLimiterAssumption
    <3>2. /\ \A i \in 1 .. lf : f[i] = b[lb - lf + i]
          /\ \A i \in 1 .. (lb - lf) : b[i] <= old
      BY <1>3 DEF Suffix
    <3> SUFFICES /\ \A i \in 1 .. lf : f[i] = t[lt - lf + i]
                 /\ \A i \in 1 .. (lt - lf) : t[i] <= old
      BY <3>1 DEF Suffix
    <3> HIDE DEF lf, lb, lt
    <3>3. ASSUME NEW i \in 1 .. lf
          PROVE  f[i] = t[lt - lf + i]
      <4>1. lt - lf + i \in 1 .. lt /\ lt - lf + i + 1 = lb - lf + i
        BY <3>1
      <4> QED
        BY <3>1, <3>2, <4>1
    <3>4. ASSUME NEW i \in 1 .. (lt - lf)
          PROVE  t[i] <= old
      <4>1. i \in 1 .. lt /\ i + 1 \in 1 .. (lb - lf)
        BY <3>1
      <4> QED
        BY <3>1, <3>2, <4>1
    <3> QED
      BY <3>3, <3>4
  <2> QED
    BY <1>2, <2>1, <2>4, <2>5 DEF Counted, b, f, old
<1> QED
  BY <1>1, <1>4, <1>5, RateLimiterAssumption

(* The promise of a refusal keeps it too: the key is full.                 *)
LEMMA RefuseKeeps ==
  ASSUME NEW e \in Seq(Nat), NEW a \in Seq(Nat), NEW p \in Nat, NEW c \in Nat,
         NEW n \in Nat, Counted(e, a, p, c), Full(e), e[1] > n - Window
  PROVE  LET q == n + Second * Seconds(e[1] + Window - n) IN
           Min({p, q}) \in Nat /\ Counted(e, a, Min({p, q}), c)
<1> DEFINE d == e[1] + Window - n
           s == Second * Seconds(d)
           q == n + s
<1>1. e[1] \in Nat /\ d \in Nat
  BY RateLimiterAssumption DEF Full
<1> HIDE DEF d
<1>2. s \in Nat /\ d <= s
  BY <1>1, RoundsUp
<1> HIDE DEF s
<1>3. q \in Nat /\ e[1] + Window <= q
  BY <1>1, <1>2, RateLimiterAssumption DEF d
<1> HIDE DEF q
<1>4. Min({p, q}) = IF p <= q THEN p ELSE q
  BY <1>3, MinOfTwo
<1>5. Min({p, q}) \in Nat /\ Counted(e, a, Min({p, q}), c)
  BY <1>3, <1>4 DEF Counted
<1> QED
  BY <1>5 DEF q, s, d

-----------------------------------------------------------------------------
(* Nothing has been counted.                                               *)
LEMMA InitEstablishes == Init => IInv
<1> SUFFICES ASSUME Init
             PROVE  IInv
  OBVIOUS
<1>1. NoPromise \in Nat
  BY RateLimiterAssumption DEF NoPromise
<1>2. TypeOK
  BY <1>1 DEF Init, TypeOK
<1>3. ASSUME NEW k \in Keys
      PROVE  KeyInv(k)
  BY <1>3, RateLimiterAssumption DEF Init, KeyInv, Counted, Suffix
<1>4. ASSUME NEW r \in Requests
      PROVE  RequestInv(r)
  BY DEF Init, RequestInv
<1> QED
  BY <1>2, <1>3, <1>4, RateLimiterAssumption DEF IInv, Init

(* Time passes.                                                            *)
LEMMA TickKeeps ==
  ASSUME IInv, Tick
  PROVE  IInv'
<1>1. TypeOK' /\ clock' <= MaxClock /\ clock \in Nat /\ clock' \in Nat /\ clock <= clock'
  BY RateLimiterAssumption DEF IInv, TypeOK, Tick
<1>2. ASSUME NEW k \in Keys
      PROVE  KeyInv(k)'
  <2>1. /\ entries[k] \in Seq(Nat) /\ admitted[k] \in Seq(Nat) /\ promised[k] \in Nat
        /\ Counted(entries[k], admitted[k], promised[k], clock)
    BY DEF IInv, TypeOK, KeyInv
  <2>2. Counted(entries[k], admitted[k], promised[k], clock')
    BY <1>1, <2>1, LaterKeeps
  <2> QED
    BY <2>2 DEF Tick, KeyInv
<1>3. ASSUME NEW r \in Requests
      PROVE  RequestInv(r)'
  BY <1>1 DEF IInv, TypeOK, RequestInv, Tick
<1> QED
  BY <1>1, <1>2, <1>3 DEF IInv

(* A step of one request that leaves the limiter and its history alone.    *)
LEMMA RequestKeeps ==
  ASSUME IInv, NEW r \in Requests,
         (\E k \in Keys : ReadClock(r, k)) \/ LoginFails(r) \/ LoginSucceeds(r)
  PROVE  IInv'
<1>0. /\ pc' \in [Requests -> {"idle", "arrived", "checking", "succeeded"}]
      /\ key' \in [Requests -> Keys \cup {NoKey}]
      /\ now' \in [Requests -> Nat]
      /\ clock \in Nat
      /\ pc'[r] # "idle" => key'[r] \in Keys
      /\ now'[r] <= clock
      /\ \A q \in Requests \ {r} :
           pc'[q] = pc[q] /\ key'[q] = key[q] /\ now'[q] = now[q]
  <2>1. CASE \E k \in Keys : ReadClock(r, k)
    BY <2>1 DEF IInv, TypeOK, ReadClock, Goto
  <2>2. CASE LoginFails(r)
    BY <2>2 DEF IInv, TypeOK, LoginFails, Goto, End
  <2>3. CASE LoginSucceeds(r)
    BY <2>3 DEF IInv, TypeOK, RequestInv, LoginSucceeds, Goto
  <2> QED
    BY <2>1, <2>2, <2>3
<1>2. UNCHANGED <<entries, nextCleanup, clock, admitted, promised>>
  BY DEF ReadClock, LoginFails, LoginSucceeds
<1>1. TypeOK'
  BY <1>0, <1>2 DEF IInv, TypeOK
<1>3. \A k \in Keys : KeyInv(k)'
  BY <1>2 DEF IInv, KeyInv
<1>4. ASSUME NEW q \in Requests
      PROVE  RequestInv(q)'
  BY <1>0, <1>2 DEF IInv, RequestInv
<1> QED
  BY <1>1, <1>2, <1>3, <1>4 DEF IInv

(* What allow knows when it has the mutex.                                 *)
LEMMA AllowKnows ==
  ASSUME IInv, NEW r \in Requests, pc[r] = "arrived"
  PROVE  /\ key[r] \in Keys /\ now[r] \in Nat /\ clock \in Nat
         /\ Cutoff(r) \in Int /\ Cutoff(r) <= clock - Window
         /\ Scheduled(r) \in Nat
<1>1. key[r] \in Keys /\ now[r] \in Nat /\ clock \in Nat /\ now[r] <= clock /\ nextCleanup \in Nat
  BY DEF IInv, TypeOK, RequestInv
<1>2. Window \div 2 \in Nat
  BY RateLimiterAssumption
<1> QED
  BY <1>1, <1>2, RateLimiterAssumption DEF Cutoff, Scheduled, CleanupDue

(* A cleanup, due or not, keeps what holds of the other keys.              *)
LEMMA CleanupKeeps ==
  ASSUME IInv, NEW r \in Requests, pc[r] = "arrived", NEW stamps \in Seq(Nat),
         NEW k \in Keys, k # key[r]
  PROVE  /\ Cleaned(r, stamps)[k] \in Seq(Nat)
         /\ Counted(Cleaned(r, stamps)[k], admitted[k], promised[k], clock)
<1>1. /\ Cutoff(r) \in Int /\ Cutoff(r) <= clock - Window /\ clock \in Nat
  BY AllowKnows
<1>2. /\ entries[k] \in Seq(Nat) /\ admitted[k] \in Seq(Nat) /\ promised[k] \in Nat
      /\ Counted(entries[k], admitted[k], promised[k], clock)
  BY DEF IInv, TypeOK, KeyInv
<1>3. Cleaned(r, stamps)[k] \in {trimExpired(entries[k], Cutoff(r)), entries[k]}
  BY DEF Cleaned
<1>4. trimExpired(entries[k], Cutoff(r)) \in Seq(Nat)
  BY <1>1, <1>2, Trims
<1>5. Counted(trimExpired(entries[k], Cutoff(r)), admitted[k], promised[k], clock)
  BY <1>1, <1>2, TrimKeeps
<1> QED
  BY <1>2, <1>3, <1>4, <1>5

(* What allow finds of its own key.                                        *)
LEMMA OwnKey ==
  ASSUME IInv, NEW r \in Requests, pc[r] = "arrived"
  PROVE  /\ Trimmed(r) \in Seq(Nat)
         /\ Trimmed(r) # <<>> => Trimmed(r)[1] > Cutoff(r)
         /\ Counted(Trimmed(r), admitted[key[r]], promised[key[r]], clock)
<1>1. /\ key[r] \in Keys /\ Cutoff(r) \in Int /\ Cutoff(r) <= clock - Window
      /\ clock \in Nat
  BY AllowKnows
<1>2. /\ entries[key[r]] \in Seq(Nat) /\ admitted[key[r]] \in Seq(Nat)
      /\ promised[key[r]] \in Nat
      /\ Counted(entries[key[r]], admitted[key[r]], promised[key[r]], clock)
  BY <1>1 DEF IInv, TypeOK, KeyInv
<1>3. Trimmed(r) \in Seq(Nat) /\ (Trimmed(r) # <<>> => Trimmed(r)[1] > Cutoff(r))
  BY <1>1, <1>2, Trims DEF Trimmed
<1>4. Counted(Trimmed(r), admitted[key[r]], promised[key[r]], clock)
  BY <1>1, <1>2, TrimKeeps DEF Trimmed
<1> QED
  BY <1>3, <1>4

(* An attempt is let in.                                                   *)
LEMMA AdmitStep ==
  ASSUME IInv, NEW r \in Requests, Admit(r)
  PROVE  IInv'
<1> DEFINE k == key[r]
           f == Append(Trimmed(r), now[r])
           b == Latest(Append(admitted[k], now[r]))
<1>1. pc[r] = "arrived" /\ ~Full(Trimmed(r))
  BY DEF Admit
<1>2. k \in Keys /\ now[r] \in Nat /\ clock \in Nat /\ Scheduled(r) \in Nat
  BY <1>1, AllowKnows
<1>3. Trimmed(r) \in Seq(Nat) /\ Counted(Trimmed(r), admitted[k], promised[k], clock)
  BY <1>1, OwnKey
<1>4. admitted[k] \in Seq(Nat) /\ promised[k] \in Nat /\ NoPromise \in Nat
  BY <1>2, RateLimiterAssumption DEF IInv, TypeOK, NoPromise
<1>5. f \in Seq(Nat) /\ b \in Seq(Nat) /\ Counted(f, b, NoPromise, clock)
  <2>1. Counted(f, b, NoPromise, clock)
    BY <1>1, <1>2, <1>3, <1>4, AdmitKeeps
  <2>2. f \in Seq(Nat) /\ Append(admitted[k], now[r]) \in Seq(Nat)
    BY <1>2, <1>3, <1>4
  <2>3. Append(admitted[k], now[r]) # <<>>
    BY <1>2, <1>4
  <2>4. b \in Seq(Nat)
    <3> DEFINE c == Append(admitted[k], now[r])
    <3> HIDE DEF c
    <3>1. Tail(c) \in Seq(Nat)
      BY <2>2, <2>3 DEF c
    <3>2. Latest(c) \in Seq(Nat)
      BY <2>2, <3>1 DEF Latest, c
    <3> QED
      BY <3>2 DEF c
  <2> QED
    BY <2>1, <2>2, <2>4
<1>6. /\ entries' = Cleaned(r, f)
      /\ admitted' = [admitted EXCEPT ![k] = b]
      /\ promised' = [promised EXCEPT ![k] = NoPromise]
      /\ nextCleanup' = Scheduled(r)
      /\ pc' = [pc EXCEPT ![r] = "checking"]
      /\ UNCHANGED <<clock, key, now>>
  BY DEF Admit, Goto
<1> HIDE DEF f, b
<1>7. /\ Cleaned(r, f)[k] = f
      /\ \A j \in Keys \ {k} :
           /\ Cleaned(r, f)[j] \in Seq(Nat)
           /\ Counted(Cleaned(r, f)[j], admitted[j], promised[j], clock)
  BY <1>1, <1>2, <1>5, CleanupKeeps DEF Cleaned
<1>8. Cleaned(r, f) \in [Keys -> Seq(Nat)]
  BY <1>2, <1>5, <1>7 DEF Cleaned
<1>9. TypeOK'
  BY <1>2, <1>4, <1>5, <1>6, <1>8 DEF IInv, TypeOK
<1>10. ASSUME NEW j \in Keys
       PROVE  KeyInv(j)'
  BY <1>2, <1>5, <1>6, <1>7 DEF IInv, TypeOK, KeyInv
<1>11. ASSUME NEW q \in Requests
       PROVE  RequestInv(q)'
  BY <1>2, <1>6 DEF IInv, TypeOK, RequestInv
<1> QED
  BY <1>6, <1>9, <1>10, <1>11 DEF IInv

(* An attempt is refused.                                                  *)
LEMMA RefuseStep ==
  ASSUME IInv, NEW r \in Requests, Refuse(r)
  PROVE  IInv'
<1> DEFINE k == key[r]
           t == Trimmed(r)
           p == Min({promised[k], now[r] + Second * Seconds(t[1] + Window - now[r])})
<1>1. pc[r] = "arrived" /\ Full(t)
  BY DEF Refuse
<1>2. k \in Keys /\ now[r] \in Nat /\ clock \in Nat /\ Scheduled(r) \in Nat
  BY <1>1, AllowKnows
<1>3. t \in Seq(Nat) /\ Counted(t, admitted[k], promised[k], clock)
  BY <1>1, OwnKey
<1>4. admitted[k] \in Seq(Nat) /\ promised[k] \in Nat
  BY <1>2 DEF IInv, TypeOK
<1>5. t[1] > now[r] - Window
  BY <1>1, OwnKey, RateLimiterAssumption DEF Full, Cutoff
<1>6. /\ entries' = Cleaned(r, t)
      /\ promised' = [promised EXCEPT ![k] = p]
      /\ nextCleanup' = Scheduled(r)
      /\ End(r)
      /\ UNCHANGED <<clock, admitted>>
  BY DEF Refuse
<1> HIDE DEF t
<1>7. p \in Nat /\ Counted(t, admitted[k], p, clock)
  BY <1>1, <1>2, <1>3, <1>4, <1>5, RefuseKeeps
<1> HIDE DEF p
<1>8. /\ Cleaned(r, t)[k] = t
      /\ \A j \in Keys \ {k} :
           /\ Cleaned(r, t)[j] \in Seq(Nat)
           /\ Counted(Cleaned(r, t)[j], admitted[j], promised[j], clock)
  BY <1>1, <1>2, <1>3, CleanupKeeps DEF Cleaned
<1>9. Cleaned(r, t) \in [Keys -> Seq(Nat)]
  BY <1>2, <1>3, <1>8 DEF Cleaned
<1>10. TypeOK'
  BY <1>2, <1>6, <1>7, <1>9 DEF IInv, TypeOK, End, Goto
<1>11. ASSUME NEW j \in Keys
       PROVE  KeyInv(j)'
  BY <1>2, <1>6, <1>7, <1>8 DEF IInv, TypeOK, KeyInv
<1>12. ASSUME NEW q \in Requests
       PROVE  RequestInv(q)'
  BY <1>2, <1>6 DEF IInv, TypeOK, RequestInv, End, Goto
<1> QED
  BY <1>6, <1>10, <1>11, <1>12 DEF IInv

(* A login that succeeded has its key forgotten.                           *)
LEMMA ResetStep ==
  ASSUME IInv, NEW r \in Requests, Reset(r)
  PROVE  IInv'
<1>1. key[r] \in Keys
  BY DEF IInv, RequestInv, Reset
<1>2. TypeOK'
  BY <1>1 DEF IInv, TypeOK, Reset, End, Goto
<1>3. ASSUME NEW j \in Keys
      PROVE  KeyInv(j)'
  <2>1. CASE j = key[r]
    <3>1. entries'[j] = <<>> /\ admitted'[j] = <<>>
      BY <2>1 DEF IInv, TypeOK, Reset
    <3>2. KeyInv(j)' = Counted(entries'[j], admitted'[j], promised'[j], clock')
      BY DEF KeyInv
    <3> QED
      BY <3>1, <3>2, RateLimiterAssumption DEF Counted, Suffix
  <2>2. CASE j # key[r]
    BY <2>2 DEF IInv, TypeOK, KeyInv, Reset
  <2> QED
    BY <2>1, <2>2
<1>4. ASSUME NEW q \in Requests
      PROVE  RequestInv(q)'
  BY DEF IInv, TypeOK, RequestInv, Reset, End, Goto
<1> QED
  BY <1>2, <1>3, <1>4 DEF IInv, Reset

(* The invariant is inductive.                                             *)
LEMMA StepKeeps == IInv /\ [Next]_vars => IInv'
<1> SUFFICES ASSUME IInv, [Next]_vars
             PROVE  IInv'
  OBVIOUS
<1>1. CASE UNCHANGED vars
  BY <1>1 DEF vars, IInv, TypeOK, KeyInv, RequestInv
<1>2. CASE Next
  BY <1>2, TickKeeps, RequestKeeps, AdmitStep, RefuseStep, ResetStep DEF Next
<1> QED
  BY <1>1, <1>2

(* The inductive invariant holds of every behaviour.                       *)
THEOREM Invariant == Spec => []IInv
  BY InitEstablishes, StepKeeps, PTL DEF Spec

(* Type correctness of the limiter and its requests.                       *)
THEOREM TypeCorrect == Spec => []TypeOK
<1>1. IInv => TypeOK
  BY DEF IInv
<1> QED
  BY <1>1, Invariant, PTL

(* No key is let in more than Limit times in a window without a success,   *)
(* whatever order requests take the mutex in (NeverMoreThanLimit).         *)
THEOREM Limits == Spec => []NeverMoreThanLimit
<1>1. IInv => NeverMoreThanLimit
  <2> SUFFICES ASSUME IInv, NEW k \in Keys, Len(admitted[k]) > Limit
               PROVE  admitted[k][1] <= clock - Window
    BY DEF NeverMoreThanLimit
  <2>1. /\ Len(entries[k]) <= Limit /\ Len(entries[k]) \in Nat
        /\ Len(admitted[k]) \in Nat
        /\ Suffix(entries[k], admitted[k], clock - Window)
    BY DEF IInv, TypeOK, KeyInv, Counted
  <2>2. 1 \in 1 .. (Len(admitted[k]) - Len(entries[k]))
    BY <2>1, RateLimiterAssumption
  <2> QED
    BY <2>1, <2>2 DEF Suffix
<1> QED
  BY <1>1, Invariant, PTL

(* Nobody is refused before the time an earlier refusal named, unless      *)
(* somebody else was let in (RetryAfterHonest).                            *)
THEOREM Honest == Spec => RetryAfterHonest
<1>1. ASSUME IInv, NEW r \in Requests, Refuse(r)
      PROVE  now[r] < promised[key[r]]
  <2> DEFINE k == key[r]
             t == Trimmed(r)
  <2>1. pc[r] = "arrived" /\ Full(t)
    BY <1>1 DEF Refuse
  <2>2. k \in Keys /\ now[r] \in Nat /\ promised[k] \in Nat /\ now[r] <= MaxClock
    <3>1. k \in Keys /\ now[r] <= clock /\ clock <= MaxClock
      BY <1>1, <2>1 DEF IInv, RequestInv
    <3>2. now[r] \in Nat /\ promised[k] \in Nat /\ clock \in Nat
      BY <1>1, <3>1 DEF IInv, TypeOK
    <3> QED
      BY <3>1, <3>2, RateLimiterAssumption
  <2>3. t \in Seq(Nat) /\ Counted(t, admitted[k], promised[k], clock)
    BY <1>1, <2>1, OwnKey
  <2>4. t[1] > now[r] - Window
    BY <1>1, <2>1, OwnKey, RateLimiterAssumption DEF Full, Cutoff
  <2>5. t[1] \in Nat /\ ~(Len(t) < Limit)
    BY <2>1, <2>3, RateLimiterAssumption DEF Full
  <2>6. promised[k] = NoPromise \/ t[1] + Window <= promised[k]
    BY <2>3, <2>5 DEF Counted
  <2> QED
    BY <2>2, <2>4, <2>5, <2>6, RateLimiterAssumption DEF NoPromise
<1>2. IInv /\ [Next]_vars =>
        [\A r \in Requests : Refuse(r) => now[r] < promised[key[r]]]_vars
  BY <1>1
<1> QED
  BY <1>2, Invariant, PTL DEF Spec, RetryAfterHonest
=============================================================================
