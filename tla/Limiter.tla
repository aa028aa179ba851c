------------------------------ MODULE Limiter -------------------------------
(***************************************************************************)
(* The token bucket of internal/httpd/ratelimit.go, one per client         *)
(* address, that guards password attempts, new uploads and reports.        *)
(*                                                                         *)
(* allow and sweep read the clock before they take the mutex, so the       *)
(* readings reach the buckets out of order.  Tokens are counted in units   *)
(* of what one tick of the clock refills: a request costs Cost of them.    *)
(***************************************************************************)
EXTENDS Integers

CONSTANTS
  Addrs,      \* client addresses
  Handlers,   \* concurrent requests
  Capacity,   \* limiter.capacity, in units
  Cost,       \* one token, in units
  MaxTime     \* bound: the clock stops here

ASSUME LimiterAssumption == /\ Addrs # {}
                            /\ Capacity \in Nat
                            /\ Cost \in Nat \ {0}
                            /\ MaxTime \in Nat

VARIABLES
  now,      \* limiter.now()
  buckets,  \* limiter.buckets, a function on the addresses that have one
  calls,    \* the calls of allow between the clock and the mutex
  sweeper,  \* sweep: the clock reading it took, or -1
  since,    \* history: the start of the window that is looked at
  spent,    \* history: units granted to each address in that window
  lag       \* history: how long those requests were between clock and mutex

vars == <<now, buckets, calls, sweeper, since, spent, lag>>

Bucket == [tokens : Int, seen : Nat]

\* A call of allow: whose request it is, and when it read the clock.
NoCall == [busy |-> FALSE, addr |-> CHOOSE a \in Addrs : TRUE, at |-> 0]
Call == [busy : BOOLEAN, addr : Addrs, at : Nat]

Init ==
  /\ now = 0
  /\ buckets = [a \in {} |-> {}]
  /\ calls = [h \in Handlers |-> NoCall]
  /\ sweeper = -1
  /\ since \in 0..MaxTime
  /\ spent = [a \in Addrs |-> 0]
  /\ lag = [a \in Addrs |-> 0]

-----------------------------------------------------------------------------
\* min of the code.
AtMost(n, limit) == IF n < limit THEN n ELSE limit

\* A bucket as of the clock reading `at`, which may be older than b.seen.
Refilled(b, at) ==
  [tokens |-> AtMost(b.tokens + (at - b.seen), Capacity), seen |-> at]

\* allow reads the clock.  It lets a request without a valid address through
\* before that; the peer of a TCP connection always has one.
AllowBegin(h, a) ==
  /\ ~calls[h].busy
  /\ calls' = [calls EXCEPT ![h] = [busy |-> TRUE, addr |-> a, at |-> now]]
  /\ UNCHANGED <<now, buckets, sweeper, since, spent, lag>>

\* The bucket allow works on: a full one if the address has none.
BucketFor(a, at) ==
  IF a \in DOMAIN buckets THEN buckets[a] ELSE [tokens |-> Capacity, seen |-> at]

\* Under the mutex: refill, and take one token if there is one.
Allow(h) ==
  /\ calls[h].busy
  /\ LET a == calls[h].addr
         b == Refilled(BucketFor(a, calls[h].at), calls[h].at)
         granted == b.tokens >= Cost
     IN  /\ buckets' = [c \in DOMAIN buckets \cup {a} |->
                          IF c # a THEN buckets[c]
                          ELSE IF granted THEN [b EXCEPT !.tokens = @ - Cost]
                          ELSE b]
         /\ spent' = [spent EXCEPT ![a] = IF granted /\ now >= since
                                          THEN @ + Cost ELSE @]
         /\ lag' = [lag EXCEPT ![a] = IF granted /\ now >= since
                                      THEN @ + (now - calls[h].at) ELSE @]
  /\ calls' = [calls EXCEPT ![h] = NoCall]
  /\ UNCHANGED <<now, sweeper, since>>

\* sweep reads the clock.
SweepBegin ==
  /\ sweeper = -1
  /\ sweeper' = now
  /\ UNCHANGED <<now, buckets, calls, since, spent, lag>>

\* Mutant of Swept: buckets one token short of full go too.
SweptEarly(a) == buckets[a].tokens + (sweeper - buckets[a].seen) + Cost >= Capacity

\* The buckets that have refilled completely.
Swept(a) == buckets[a].tokens + (sweeper - buckets[a].seen) >= Capacity

SweepEnd ==
  /\ sweeper # -1
  /\ buckets' = [a \in {c \in DOMAIN buckets : ~Swept(c)} |-> buckets[a]]
  /\ sweeper' = -1
  /\ UNCHANGED <<now, calls, since, spent, lag>>

Tick ==
  /\ now < MaxTime
  /\ now' = now + 1
  /\ UNCHANGED <<buckets, calls, sweeper, since, spent, lag>>

Next ==
  \/ \E h \in Handlers : Allow(h) \/ \E a \in Addrs : AllowBegin(h, a)
  \/ SweepBegin \/ SweepEnd
  \/ Tick

Spec == Init /\ [][Next]_vars

-----------------------------------------------------------------------------
\* Every variable keeps its type.
TypeOK ==
  /\ now \in Nat
  /\ DOMAIN buckets \subseteq Addrs
  /\ buckets \in [DOMAIN buckets -> Bucket]
  /\ calls \in [Handlers -> Call]
  /\ sweeper \in Nat \cup {-1}
  /\ since \in Nat
  /\ spent \in [Addrs -> Nat]
  /\ lag \in [Addrs -> Nat]

\* However requests and sweeps overlap, an address is granted, in any window of
\* time, at most a full bucket and what the window refills, plus the time its
\* requests spent between the clock and the mutex: clock readings that take
\* effect out of order and buckets that sweep drops give no other token away
\* (allow, sweep).
RateBound ==
  now >= since => \A a \in Addrs : spent[a] <= Capacity + (now - since) + lag[a]

=============================================================================
