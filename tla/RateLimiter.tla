----------------------------- MODULE RateLimiter -----------------------------
(***************************************************************************)
(* The sliding-window limiter in front of the two password logins.         *)
(*                                                                         *)
(* The limiter keeps, for each key (the login's scope and the e-mail in    *)
(* lower case), the times of the attempts it admitted.  A request reads    *)
(* the clock before it waits for the mutex, so attempts are not counted in *)
(* the order of their times; and its password is checked after the mutex   *)
(* is free again, so attempts of one key overlap, and a success forgets    *)
(* the attempts that others are still making.                              *)
(*                                                                         *)
(* The limiter lives in the memory of one server process: a restart is     *)
(* Init again.  A key that is absent from the Go map has <<>> here.        *)
(***************************************************************************)
EXTENDS Integers, Sequences, FiniteSetsExt

CONSTANTS
  Keys,      \* keys of the limiter
  Requests,  \* requests in flight
  Limit,     \* rateLimiter.limit
  Window,    \* rateLimiter.window, in units of the clock
  Second,    \* a second, in the same units
  MaxClock   \* bound: the last moment at which a request arrives

(* newRateLimiter replaces a limit or window that is not positive.         *)
ASSUME RateLimiterAssumption ==
  /\ Limit \in Nat \ {0}
  /\ Window \in Nat \ {0}
  /\ Second \in Nat \ {0}
  /\ MaxClock \in Nat

VARIABLES
  entries,      \* rateLimiter.entries
  nextCleanup,  \* rateLimiter.nextCleanup, 0 for the zero time
  clock,        \* time
  pc,           \* where each request is
  key,          \* its limiterKey, NoKey without a request
  now,          \* the time it read
  admitted,     \* history: the last Limit + 1 attempts let in since a success
  promised      \* history: the earliest time a refused client was told to
                \* come back, unless somebody was let in since

limiter == <<entries, nextCleanup>>
requests == <<pc, key, now>>
history == <<admitted, promised>>
vars == <<limiter, clock, requests, history>>

NoKey == "no key"

(* No refusal names a time this late.                                      *)
NoPromise == MaxClock + Window + Second

TypeOK ==
  /\ entries \in [Keys -> Seq(Nat)]
  /\ nextCleanup \in Nat
  /\ clock \in Nat
  /\ pc \in [Requests -> {"idle", "arrived", "checking", "succeeded"}]
  /\ key \in [Requests -> Keys \cup {NoKey}]
  /\ now \in [Requests -> Nat]
  /\ admitted \in [Keys -> Seq(Nat)]
  /\ promised \in [Keys -> Nat]

Init ==
  /\ entries = [k \in Keys |-> <<>>]
  /\ nextCleanup = 0
  /\ clock = 0
  /\ pc = [r \in Requests |-> "idle"]
  /\ key = [r \in Requests |-> NoKey]
  /\ now = [r \in Requests |-> 0]
  /\ admitted = [k \in Keys |-> <<>>]
  /\ promised = [k \in Keys |-> NoPromise]

Goto(r, label) == pc' = [pc EXCEPT ![r] = label]

(* The request is answered.                                                *)
End(r) ==
  /\ Goto(r, "idle")
  /\ key' = [key EXCEPT ![r] = NoKey]
  /\ now' = [now EXCEPT ![r] = 0]

Tick ==
  /\ clock < MaxClock
  /\ clock' = clock + 1
  /\ UNCHANGED <<limiter, requests, history>>

-----------------------------------------------------------------------------
(* The entries from the first one after cutoff on.  Later ones may be      *)
(* older than it, and stay.                                                *)
trimExpired(stamps, cutoff) ==
  LET fresh == {i \in DOMAIN stamps : stamps[i] > cutoff}
  IN IF fresh = {} THEN <<>> ELSE SubSeq(stamps, Min(fresh), Len(stamps))

(* What allow finds of a key after a cleanup, if one was due, and the      *)
(* trimming of the key itself.                                             *)
CleanupDue(r) == now[r] >= nextCleanup
Cutoff(r) == now[r] - Window
Trimmed(r) == trimExpired(entries[key[r]], Cutoff(r))

(* The entries of all keys after the cleanup, with those of r's as given.  *)
Cleaned(r, stamps) ==
  [k \in Keys |->
     IF k = key[r] THEN stamps
     ELSE IF CleanupDue(r) THEN trimExpired(entries[k], Cutoff(r))
     ELSE entries[k]]

Scheduled(r) == IF CleanupDue(r) THEN now[r] + Window \div 2 ELSE nextCleanup

(* Mutant: len(entries) > limiter.limit.                                   *)
OverFull(stamps) == Len(stamps) > Limit

Full(stamps) == Len(stamps) >= Limit

(* Mutant: the Retry-After header rounds down.                             *)
SecondsDown(duration) == duration \div Second

(* rateLimitError rounds the time to wait up to seconds.                   *)
Seconds(duration) == (duration + Second - 1) \div Second

(* The history of admitted attempts, cut to what is needed of it.          *)
Latest(stamps) ==
  IF Len(stamps) > Limit + 1 THEN Tail(stamps) ELSE stamps

-----------------------------------------------------------------------------
(* A login arrives, and allow reads the clock.                             *)
ReadClock(r, k) ==
  /\ pc[r] = "idle"
  /\ key' = [key EXCEPT ![r] = k]
  /\ now' = [now EXCEPT ![r] = clock]
  /\ Goto(r, "arrived")
  /\ UNCHANGED <<limiter, clock, history>>

(* allow under its mutex: the attempt is let in,                           *)
Admit(r) ==
  LET k == key[r] IN
  /\ pc[r] = "arrived" /\ ~Full(Trimmed(r))
  /\ entries' = Cleaned(r, Append(Trimmed(r), now[r]))
  /\ nextCleanup' = Scheduled(r)
  /\ admitted' = [admitted EXCEPT ![k] = Latest(Append(@, now[r]))]
  /\ promised' = [promised EXCEPT ![k] = NoPromise]
  /\ Goto(r, "checking")
  /\ UNCHANGED <<clock, key, now>>

(* or it is refused, and told to wait until the oldest entry is a window   *)
(* old.                                                                    *)
Refuse(r) ==
  LET k == key[r]
      retryAfter == Trimmed(r)[1] + Window - now[r]
  IN
  /\ pc[r] = "arrived" /\ Full(Trimmed(r))
  /\ entries' = Cleaned(r, Trimmed(r))
  /\ nextCleanup' = Scheduled(r)
  /\ promised' = [promised EXCEPT ![k] =
                    Min({@, now[r] + Second * Seconds(retryAfter)})]
  /\ End(r)
  /\ UNCHANGED <<clock, admitted>>

(* The login fails: the attempt stays counted.                             *)
LoginFails(r) ==
  /\ pc[r] = "checking"
  /\ End(r)
  /\ UNCHANGED <<limiter, clock, history>>

LoginSucceeds(r) ==
  /\ pc[r] = "checking"
  /\ Goto(r, "succeeded")
  /\ UNCHANGED <<limiter, clock, key, now, history>>

(* limiter.reset after the login.                                          *)
Reset(r) ==
  /\ pc[r] = "succeeded"
  /\ entries' = [entries EXCEPT ![key[r]] = <<>>]
  /\ admitted' = [admitted EXCEPT ![key[r]] = <<>>]
  /\ End(r)
  /\ UNCHANGED <<nextCleanup, clock, promised>>

Next ==
  \/ Tick
  \/ \E r \in Requests :
       \/ \E k \in Keys : ReadClock(r, k)
       \/ Admit(r) \/ Refuse(r) \/ LoginFails(r) \/ LoginSucceeds(r) \/ Reset(r)

Spec == Init /\ [][Next]_vars
-----------------------------------------------------------------------------
(***************************************************************************)
(* Properties                                                              *)
(***************************************************************************)

(* However requests are delayed between the clock and the mutex, cleanups  *)
(* and the trimming forget no attempt too early: of Limit + 1 attempts on  *)
(* a key without a success in between, the first is a window old.          *)
NeverMoreThanLimit ==
  \A k \in Keys : Len(admitted[k]) > Limit => admitted[k][1] <= clock - Window

(* Retry-After is honest: who waits that long is let in, if nobody else    *)
(* was meanwhile, however many were refused in between.                    *)
RetryAfterHonest ==
  [][\A r \in Requests : Refuse(r) => now[r] < promised[key[r]]]_vars
=============================================================================
