----------------------------- MODULE GateProofs -----------------------------
(***************************************************************************)
(* Proofs about Limiter, for any set of addresses and handlers and any     *)
(* capacity, cost and time, and about Gate, for any hosts, headers and     *)
(* routes.                                                                 *)
(***************************************************************************)
EXTENDS Gate, SequenceTheorems, TLAPS

-----------------------------------------------------------------------------
(***************************************************************************)
(* The limiter.                                                            *)
(***************************************************************************)

\* No clock reading is ahead of the clock.
ReadingsOK ==
  /\ \A a \in DOMAIN buckets : buckets[a].seen <= now
  /\ \A h \in Handlers : calls[h].at <= now
  /\ sweeper <= now

\* What an address may spend at once, if its requests are not late.
Level(a) ==
  IF a \in DOMAIN buckets
  THEN AtMost(buckets[a].tokens + (now - buckets[a].seen), Capacity)
  ELSE Capacity

\* A bucket may be in debt at a reading older than seen, but never at now.
SolventOK == \A a \in DOMAIN buckets : buckets[a].seen <= buckets[a].tokens + now

\* What has been granted and what may still be granted at once never exceed
\* what the window has given.
AccountOK ==
  \A a \in Addrs :
    /\ now < since => spent[a] = 0
    /\ now >= since => spent[a] + Level(a) <= Capacity + (now - since) + lag[a]

IInv == TypeOK /\ ReadingsOK /\ SolventOK /\ AccountOK

\* A call that is not running is a call.
LEMMA NoCallFacts == NoCall \in Call /\ NoCall.at = 0
  BY LimiterAssumption DEF NoCall, Call

\* The first state.
LEMMA InitOK == Init => IInv
<1> SUFFICES ASSUME Init PROVE IInv
  OBVIOUS
<1>1. DOMAIN buckets = {}
  BY DEF Init
<1>2. TypeOK
  BY <1>1, NoCallFacts, LimiterAssumption DEF Init, TypeOK
<1>3. ReadingsOK
  BY <1>1, NoCallFacts DEF Init, ReadingsOK
<1>4. SolventOK /\ AccountOK
  BY <1>1, LimiterAssumption DEF Init, SolventOK, AccountOK, Level
<1> QED
  BY <1>2, <1>3, <1>4 DEF IInv

\* allow under the mutex.
LEMMA AllowOK ==
  ASSUME IInv, NEW h \in Handlers, Allow(h)
  PROVE  IInv'
<1>0. PICK a \in Addrs, at \in Nat : a = calls[h].addr /\ at = calls[h].at
  BY DEF IInv, TypeOK, Call
<1> DEFINE b0 == BucketFor(a, at)
           b == Refilled(b0, at)
           granted == b.tokens >= Cost
           left == IF granted THEN [b EXCEPT !.tokens = @ - Cost] ELSE b
<1> USE LimiterAssumption DEF IInv
<1>1. at <= now /\ now \in Nat
  BY <1>0 DEF TypeOK, ReadingsOK
<1>2. /\ b0 \in Bucket
      /\ a \in DOMAIN buckets => b0 = buckets[a]
      /\ a \notin DOMAIN buckets => b0.tokens = Capacity /\ b0.seen = at
  BY <1>1 DEF BucketFor, TypeOK, Bucket
<1>3. /\ b.tokens = AtMost(b0.tokens + (at - b0.seen), Capacity)
      /\ b.seen = at
      /\ b \in Bucket
  BY <1>1, <1>2 DEF Refilled, AtMost, Bucket
<1>4. /\ left \in Bucket
      /\ left.seen = at
      /\ left.tokens = IF granted THEN b.tokens - Cost ELSE b.tokens
  BY <1>1, <1>3 DEF Bucket
<1>5. /\ DOMAIN buckets' = DOMAIN buckets \cup {a}
      /\ buckets'[a] = left
      /\ \A c \in DOMAIN buckets \ {a} : buckets'[c] = buckets[c]
      /\ buckets' = [c \in DOMAIN buckets' |-> buckets'[c]]
  BY <1>0 DEF Allow
<1>6. spent' = [spent EXCEPT ![a] = IF granted /\ now >= since THEN @ + Cost ELSE @]
  BY <1>0 DEF Allow
<1>7. lag' = [lag EXCEPT ![a] = IF granted /\ now >= since THEN @ + (now - at) ELSE @]
  BY <1>0 DEF Allow
<1>8. calls' = [calls EXCEPT ![h] = NoCall] /\ UNCHANGED <<now, sweeper, since>>
  BY <1>0 DEF Allow
<1>9. /\ spent'[a] = IF granted /\ now >= since THEN spent[a] + Cost ELSE spent[a]
      /\ lag'[a] = IF granted /\ now >= since THEN lag[a] + (now - at) ELSE lag[a]
      /\ spent[a] \in Nat /\ lag[a] \in Nat /\ since \in Nat
      /\ \A c \in Addrs \ {a} : spent'[c] = spent[c] /\ lag'[c] = lag[c]
  BY <1>1, <1>6, <1>7 DEF TypeOK
<1>10. TypeOK'
  <2>1. spent' \in [Addrs -> Nat]
    BY <1>1, <1>6 DEF TypeOK
  <2>2. lag' \in [Addrs -> Nat]
    BY <1>1, <1>7 DEF TypeOK
  <2>3. calls' \in [Handlers -> Call]
    BY <1>8, NoCallFacts DEF TypeOK
  <2>4. DOMAIN buckets' \subseteq Addrs
    BY <1>1, <1>5 DEF TypeOK
  <2>5. \A c \in DOMAIN buckets' : buckets'[c] \in Bucket
    BY <1>4, <1>5 DEF TypeOK
  <2>6. buckets' \in [DOMAIN buckets' -> Bucket]
    BY <1>5, <2>5
  <2> QED
    BY <1>8, <2>1, <2>2, <2>3, <2>4, <2>6 DEF TypeOK
<1>11. ReadingsOK'
  <2>1. \A c \in DOMAIN buckets' : buckets'[c].seen <= now'
    BY <1>1, <1>4, <1>5, <1>8 DEF ReadingsOK
  <2>2. \A g \in Handlers : calls'[g].at <= now'
    BY <1>1, <1>8, NoCallFacts DEF TypeOK, ReadingsOK
  <2> QED
    BY <1>8, <2>1, <2>2 DEF ReadingsOK
<1>12. b0.seen <= b0.tokens + now /\ b0.tokens \in Int /\ b0.seen \in Nat
  <2>1. CASE a \in DOMAIN buckets
    BY <1>2, <2>1 DEF SolventOK, Bucket
  <2>2. CASE a \notin DOMAIN buckets
    BY <1>1, <1>2, <2>2 DEF Bucket
  <2> QED
    BY <2>1, <2>2
<1>13. SolventOK'
  <2>1. at <= left.tokens + now
    BY <1>1, <1>3, <1>4, <1>12 DEF AtMost
  <2> QED
    BY <1>4, <1>5, <1>8, <2>1 DEF SolventOK
<1>14. Level(a) = AtMost(b0.tokens + (now - b0.seen), Capacity)
  BY <1>1, <1>2 DEF Level, AtMost
<1>15. Level(a)' = AtMost(left.tokens + (now - at), Capacity)
  BY <1>4, <1>5, <1>8 DEF Level, AtMost
<1>16. /\ Level(a) \in Int /\ Level(a)' \in Int
       /\ granted => Level(a)' + Cost <= Level(a) + (now - at)
       /\ ~granted => Level(a)' <= Level(a)
  BY <1>1, <1>3, <1>4, <1>12, <1>14, <1>15 DEF AtMost, Bucket
<1>17. AccountOK'
  <2> SUFFICES ASSUME NEW c \in Addrs
               PROVE  /\ now < since => spent'[c] = 0
                      /\ now >= since =>
                           spent'[c] + Level(c)' <= Capacity + (now - since) + lag'[c]
    BY <1>8 DEF AccountOK
  <2>1. CASE c = a
    <3>1. /\ now < since => spent[a] = 0
          /\ now >= since => spent[a] + Level(a) <= Capacity + (now - since) + lag[a]
      BY <1>1 DEF AccountOK
    <3> HIDE DEF b, granted, left
    <3> QED
      BY <1>1, <1>9, <1>16, <2>1, <3>1
  <2>2. CASE c # a
    <3>1. Level(c)' = Level(c)
      BY <1>5, <1>8, <2>2 DEF Level, AtMost
    <3> QED
      BY <1>9, <2>2, <3>1 DEF AccountOK
  <2> QED
    BY <2>1, <2>2
<1> QED
  BY <1>10, <1>11, <1>13, <1>17

\* sweep under the mutex.
LEMMA SweepOK ==
  ASSUME IInv, SweepEnd
  PROVE  IInv'
<1> USE LimiterAssumption DEF IInv
<1>1. sweeper \in Nat /\ sweeper <= now /\ now \in Nat
  BY DEF SweepEnd, TypeOK, ReadingsOK
<1>2. /\ DOMAIN buckets' = {c \in DOMAIN buckets : ~Swept(c)}
      /\ \A c \in DOMAIN buckets' : buckets'[c] = buckets[c]
      /\ buckets' = [c \in DOMAIN buckets' |-> buckets'[c]]
      /\ sweeper' = -1
      /\ UNCHANGED <<now, calls, since, spent, lag>>
  BY DEF SweepEnd
<1>3. TypeOK'
  BY <1>2 DEF TypeOK
<1>4. ReadingsOK'
  BY <1>1, <1>2 DEF ReadingsOK
<1>5. ASSUME NEW c \in Addrs PROVE Level(c)' = Level(c)
  <2>1. CASE c \in DOMAIN buckets /\ Swept(c)
    <3>1. buckets[c].tokens \in Int /\ buckets[c].seen \in Nat
      BY <2>1 DEF TypeOK, Bucket
    <3>2. buckets[c].tokens + (sweeper - buckets[c].seen) >= Capacity
      BY <2>1 DEF Swept
    <3>3. Level(c) = Capacity
      BY <1>1, <2>1, <3>1, <3>2 DEF Level, AtMost
    <3> QED
      BY <1>2, <2>1, <3>3 DEF Level
  <2>2. CASE ~(c \in DOMAIN buckets /\ Swept(c))
    BY <1>2, <2>2 DEF Level, AtMost
  <2> QED
    BY <2>1, <2>2
<1>6. SolventOK'
  BY <1>2 DEF SolventOK
<1>7. AccountOK'
  BY <1>2, <1>5 DEF AccountOK
<1> QED
  BY <1>3, <1>4, <1>6, <1>7

\* Every step keeps the invariant.
LEMMA NextOK == IInv /\ [Next]_vars => IInv'
<1> SUFFICES ASSUME IInv, [Next]_vars PROVE IInv'
  OBVIOUS
<1> USE LimiterAssumption DEF IInv
<1>1. CASE UNCHANGED vars
  BY <1>1 DEF vars, TypeOK, ReadingsOK, SolventOK, AccountOK, Level
<1>2. ASSUME NEW h \in Handlers, NEW a \in Addrs, AllowBegin(h, a)
      PROVE  IInv'
  <2>1. /\ calls' = [calls EXCEPT ![h] = [busy |-> TRUE, addr |-> a, at |-> now]]
        /\ UNCHANGED <<now, buckets, sweeper, since, spent, lag>>
    BY <1>2 DEF AllowBegin
  <2>2. now \in Nat /\ [busy |-> TRUE, addr |-> a, at |-> now] \in Call
    BY DEF TypeOK, Call
  <2>3. TypeOK'
    BY <2>1, <2>2 DEF TypeOK
  <2>4. ReadingsOK'
    BY <2>1, <2>2 DEF ReadingsOK, TypeOK
  <2>5. SolventOK' /\ AccountOK'
    BY <2>1 DEF SolventOK, AccountOK, Level
  <2> QED
    BY <2>3, <2>4, <2>5
<1>3. CASE SweepBegin
  BY <1>3 DEF SweepBegin, TypeOK, ReadingsOK, SolventOK, AccountOK, Level
<1>4. CASE Tick
  <2>1. now \in Nat /\ now' = now + 1 /\ UNCHANGED <<buckets, calls, sweeper, since, spent, lag>>
    BY <1>4 DEF Tick, TypeOK
  <2>2. TypeOK'
    BY <2>1 DEF TypeOK
  <2>3. ReadingsOK'
    BY <2>1 DEF ReadingsOK, TypeOK, Call, Bucket
  <2>4. SolventOK'
    BY <2>1 DEF SolventOK, TypeOK, Bucket
  <2>5. ASSUME NEW a \in Addrs
        PROVE  Level(a) \in Int /\ Level(a)' \in Int
               /\ Level(a)' <= Level(a) + 1 /\ Level(a)' <= Capacity
    BY <2>1 DEF Level, AtMost, TypeOK, Bucket
  <2>6. AccountOK'
    BY <2>1, <2>5 DEF AccountOK, TypeOK
  <2> QED
    BY <2>2, <2>3, <2>4, <2>6
<1> QED
  BY <1>1, <1>2, <1>3, <1>4, AllowOK, SweepOK DEF Next

\* The invariant holds in every reachable state of the limiter.
THEOREM LimiterInvariance == Spec => []IInv
  BY InitOK, NextOK, PTL DEF Spec

\* allow never grants an address more than one full bucket and what time has
\* refilled, whatever the order in which clock readings and sweeps take effect.
THEOREM RateLimited == Spec => []RateBound
<1>1. IInv => RateBound
  <2> SUFFICES ASSUME IInv, now >= since, NEW a \in Addrs
               PROVE  spent[a] <= Capacity + (now - since) + lag[a]
    BY DEF RateBound
  <2> USE LimiterAssumption DEF IInv
  <2>1. spent[a] \in Nat /\ lag[a] \in Nat /\ now \in Nat /\ since \in Nat
    BY DEF TypeOK
  <2>2. Level(a) \in Int /\ Level(a) >= 0
    BY <2>1 DEF Level, AtMost, SolventOK, TypeOK, Bucket
  <2>3. spent[a] + Level(a) <= Capacity + (now - since) + lag[a]
    BY DEF AccountOK
  <2> QED
    BY <2>1, <2>2, <2>3
<1> QED
  BY <1>1, LimiterInvariance, PTL

-----------------------------------------------------------------------------
(***************************************************************************)
(* The address a request counts for.                                       *)
(***************************************************************************)

\* A list of bounded length is a list.
LEMMA BoundedIsSeq ==
  ASSUME NEW S, NEW n \in Nat, NEW s \in BoundedSeq(S, n)
  PROVE  s \in Seq(S)
  BY DEF BoundedSeq, SeqOf

\* The walk from the right stops at the hop that the first proxy wrote: all
\* those after it are proxies.
LEMMA ForwardedStops ==
  ASSUME NEW r, NEW j \in DOMAIN r.hops, DOMAIN r.hops \subseteq Nat,
         r.hops[j] # Garbage, ~Trusts(r.hops[j]),
         \A i \in DOMAIN r.hops : i > j => Trusts(r.hops[i])
  PROVE  Forwarded(r) = r.hops[j]
<1> DEFINE strangers == {i \in DOMAIN r.hops : r.hops[i] # Garbage /\ ~Trusts(r.hops[i])}
<1>1. j \in strangers /\ \A i \in strangers : j >= i
  OBVIOUS
<1>2. \A i \in strangers : (\A k \in strangers : i >= k) => i = j
  BY <1>1
<1>3. (CHOOSE i \in strangers : \A k \in strangers : i >= k) = j
  BY <1>1, <1>2
<1> QED
  BY <1>1, <1>3 DEF Forwarded

\* resolve finds the client, through any route, under any headers of its own.
LEMMA ResolvesToClient ==
  ASSUME NEW configured \in BOOLEAN, NEW c \in Clients, NEW route \in Routes,
         NEW own \in Written, NEW text \in Texts, NEW m \in BOOLEAN
  PROVE  Resolve(configured, Request(configured, c, route, own, text, m)) = Plain(c)
<1> USE GateAssumption
<1> DEFINE path == <<c>> \o route
           n == Len(path)
           tail == [i \in 1..(n - 1) |-> Plain(path[i])]
           r == Request(configured, c, route, own, text, m)
<1>1. c \in Hosts /\ c \notin Proxies /\ Plain(c) \in Address /\ Plain(c) # Garbage
  <2>1. c \in Hosts /\ c \notin Proxies
    OBVIOUS
  <2>2. Plain(c) \in Address
    BY <2>1 DEF Plain, Address
  <2> QED
    BY <2>1, <2>2
<1>2. route \in Seq(Proxies) /\ own \in Seq(Texts)
  BY BoundedIsSeq DEF Routes, Written
<1>3. Len(route) \in Nat /\ Len(own) \in Nat
  BY <1>2
<1>4. /\ n = Len(route) + 1
      /\ path[1] = c
      /\ \A i \in 2..n : path[i] = route[i - 1]
  BY <1>2, <1>3
<1>5. \A i \in 2..n : path[i] \in Proxies
  <2>1. \A i \in 1..Len(route) : route[i] \in Proxies
    BY <1>2
  <2> QED
    BY <1>3, <1>4, <2>1
<1>6. /\ r.peer = [host |-> path[n], mapped |-> m]
      /\ r.real = IF configured /\ n > 1 THEN Plain(c) ELSE text
      /\ r.hops = own \o tail
  BY DEF Request
<1>7. Unmap(r.peer) = Plain(path[n])
  BY <1>6 DEF Unmap
<1>8. /\ Trusts(Plain(c)) = FALSE
      /\ \A p \in Proxies : Trusts(Plain(p))
      /\ Unmap(Plain(c)) = Plain(c)
  BY <1>1 DEF Trusts, Plain, Unmap
<1> HIDE DEF path, n, r
<1>9. ASSUME n = 1 PROVE Resolve(configured, r) = Plain(c)
  BY <1>4, <1>7, <1>8, <1>9 DEF Resolve
<1>10. ASSUME n # 1 PROVE Resolve(configured, r) = Plain(c)
  <2>1. n > 1 /\ n \in Nat
    BY <1>3, <1>4, <1>10
  <2>2. Trusts(Unmap(r.peer))
    BY <1>5, <1>7, <1>8, <2>1
  <2>3. CASE configured
    BY <1>1, <1>6, <1>8, <2>1, <2>2, <2>3 DEF Resolve
  <2>4. CASE ~configured
    <3>1. tail \in Seq(Address) /\ Len(tail) = n - 1
      <4>1. \A i \in 1..(n - 1) : path[i] \in Hosts
        BY <1>1, <1>4, <1>5, <2>1
      <4>2. \A i \in 1..(n - 1) : Plain(path[i]) \in Address
        BY <4>1 DEF Plain, Address
      <4> QED
        BY <2>1, <4>2
    <3>2. \A i \in 1..(n - 1) : tail[i] = Plain(path[i])
      OBVIOUS
    <3> HIDE DEF tail
    <3>3. own \in Seq(Address \cup {Garbage}) /\ tail \in Seq(Address \cup {Garbage})
      BY <1>2, <3>1
    <3>4. /\ Len(own \o tail) = Len(own) + Len(tail)
          /\ \A i \in 1..(Len(own) + Len(tail)) :
               (own \o tail)[i] = IF i <= Len(own) THEN own[i] ELSE tail[i - Len(own)]
          /\ own \o tail \in Seq(Address \cup {Garbage})
      BY <3>3, ConcatProperties
    <3>5. DOMAIN r.hops = 1..(Len(own) + (n - 1))
      BY <1>6, <3>1, <3>4
    <3> DEFINE j == Len(own) + 1
    <3>6. j \in DOMAIN r.hops /\ r.hops[j] = Plain(c)
      <4>1. j \in 1..(Len(own) + Len(tail)) /\ ~(j <= Len(own)) /\ j - Len(own) = 1
        BY <1>3, <2>1, <3>1
      <4>2. tail[1] = Plain(c)
        BY <1>4, <2>1, <3>2
      <4>3. (own \o tail)[j] = tail[j - Len(own)]
        BY <3>4, <4>1
      <4>4. r.hops[j] = Plain(c)
        BY <1>6, <4>1, <4>2, <4>3
      <4> QED
        BY <3>1, <3>5, <4>1, <4>4
    <3>7. \A i \in DOMAIN r.hops : i > j => Trusts(r.hops[i])
      <4> SUFFICES ASSUME NEW i \in DOMAIN r.hops, i > j PROVE Trusts(r.hops[i])
        OBVIOUS
      <4>1. /\ i - Len(own) \in 2..(n - 1)
            /\ i \in 1..(Len(own) + Len(tail)) /\ ~(i <= Len(own))
        BY <1>3, <2>1, <3>1, <3>5
      <4>2. r.hops[i] = tail[i - Len(own)]
        BY <1>6, <3>4, <4>1
      <4>3. tail[i - Len(own)] = Plain(path[i - Len(own)])
        BY <2>1, <3>2, <4>1
      <4>4. path[i - Len(own)] \in Proxies
        BY <1>5, <2>1, <4>1
      <4> QED
        BY <1>8, <4>2, <4>3, <4>4
    <3>8. Forwarded(r) = Plain(c)
      <4>1. DOMAIN r.hops \subseteq Nat
        BY <1>3, <2>1, <3>5
      <4> QED
        BY <1>1, <1>8, <3>6, <3>7, <4>1, ForwardedStops
    <3> QED
      BY <2>2, <2>4, <3>8 DEF Resolve
  <2> QED
    BY <2>3, <2>4
<1> QED
  BY <1>9, <1>10 DEF r

\* Whatever a client sends, one address pays for it.
LEMMA OneAddress ==
  ASSUME NEW configured \in BOOLEAN, NEW c \in Clients,
         NEW a \in AccountedTo[configured][c]
  PROVE  a = Plain(c) /\ a \in Addrs
<1>1. a = Plain(c)
  <2>1. AccountedTo[configured][c] =
          {Resolve(configured, Request(configured, c, route, own, text, m)) :
             route \in Routes, own \in Written, text \in Texts, m \in BOOLEAN}
    BY DEF AccountedTo
  <2>2. PICK route \in Routes, own \in Written, text \in Texts, m \in BOOLEAN :
          a = Resolve(configured, Request(configured, c, route, own, text, m))
    BY <2>1
  <2> QED
    BY <2>2, ResolvesToClient
<1>2. Plain(c) \in Address
  BY GateAssumption DEF Plain, Address
<1> QED
  BY <1>1, <1>2, GateAssumption

-----------------------------------------------------------------------------
(***************************************************************************)
(* The limiter behind the resolver.                                        *)
(***************************************************************************)
FromOK == realIP \in BOOLEAN /\ from \in [Handlers -> Clients]

\* The resolver only ever hands the limiter one of its addresses.
LEMMA GateStep ==
  ASSUME FromOK, [GateNext]_gateVars
  PROVE  FromOK' /\ [Next]_vars
<1>1. ASSUME NEW h \in Handlers, Arrive(h) PROVE FromOK' /\ [Next]_vars
  <2>1. PICK c \in Clients : /\ \E a \in AccountedTo[realIP][c] : AllowBegin(h, a)
                             /\ from' = [from EXCEPT ![h] = c]
                             /\ UNCHANGED realIP
    BY <1>1 DEF Arrive
  <2>2. PICK a \in AccountedTo[realIP][c] : AllowBegin(h, a)
    BY <2>1
  <2>3. a \in Addrs
    BY <2>2, OneAddress DEF FromOK
  <2> QED
    BY <2>1, <2>2, <2>3 DEF FromOK, Next
<1>2. ASSUME NEW h \in Handlers, Answer(h) PROVE FromOK' /\ [Next]_vars
  BY <1>2 DEF Answer, FromOK, Next
<1>3. CASE SweepLimiters
  BY <1>3 DEF SweepLimiters, FromOK, Next
<1>4. CASE Tick /\ UNCHANGED <<realIP, from>>
  BY <1>4 DEF FromOK, Next
<1>5. CASE UNCHANGED gateVars
  BY <1>5 DEF gateVars, vars, FromOK
<1> QED
  BY <1>1, <1>2, <1>3, <1>4, <1>5 DEF GateNext

\* The first state of the gate is one of the limiter.
LEMMA GateInitOK == GateInit => Init /\ FromOK /\ Attributed
<1> SUFFICES ASSUME GateInit PROVE Init /\ FromOK /\ Attributed
  OBVIOUS
<1>1. (CHOOSE c \in Clients : TRUE) \in Clients
  BY GateAssumption
<1>2. \A h \in Handlers : ~calls[h].busy
  BY DEF GateInit, Init, NoCall
<1> QED
  BY <1>1, <1>2 DEF GateInit, FromOK, Attributed

\* What the handlers behind the proxies do to their limiter is what a limiter
\* may be asked to do: clientIPResolver in front of it implements the calls that
\* Limiter quantifies over.
THEOREM GateImplementsLimiter == GateSpec => Spec
<1>1. GateInit => Init /\ FromOK
  BY GateInitOK
<1>2. FromOK /\ [GateNext]_gateVars => FromOK' /\ [Next]_vars
  BY GateStep
<1> QED
  BY <1>1, <1>2, PTL DEF GateSpec, Spec

\* So the rate of an address is bounded for requests that come through proxies
\* with any headers.
THEOREM GateRateLimited == GateSpec => []RateBound
  BY GateImplementsLimiter, RateLimited, PTL

\* A step of the gate keeps every running call on its client's own address.
LEMMA AttributedStep ==
  ASSUME IInv, FromOK, Attributed, [GateNext]_gateVars
  PROVE  Attributed'
<1>0. calls \in [Handlers -> Call] /\ from \in [Handlers -> Clients]
  BY DEF IInv, TypeOK, FromOK
<1>1. ASSUME NEW h \in Handlers, Arrive(h) PROVE Attributed'
  <2>1. PICK c \in Clients : /\ \E a \in AccountedTo[realIP][c] : AllowBegin(h, a)
                             /\ from' = [from EXCEPT ![h] = c]
    BY <1>1 DEF Arrive
  <2>2. PICK a \in AccountedTo[realIP][c] : AllowBegin(h, a)
    BY <2>1
  <2>3. a = Plain(c)
    BY <2>2, OneAddress DEF FromOK
  <2> QED
    BY <1>0, <2>1, <2>2, <2>3 DEF Attributed, AllowBegin
<1>2. ASSUME NEW h \in Handlers, Answer(h) PROVE Attributed'
  <2>1. calls' = [calls EXCEPT ![h] = NoCall] /\ from' = from /\ ~NoCall.busy
    BY <1>2 DEF Answer, Allow, NoCall
  <2> QED
    BY <1>0, <2>1 DEF Attributed
<1>3. CASE SweepLimiters \/ (Tick /\ UNCHANGED <<realIP, from>>) \/ UNCHANGED gateVars
  BY <1>3 DEF SweepLimiters, SweepBegin, SweepEnd, Tick, gateVars, Attributed
<1> QED
  BY <1>1, <1>2, <1>3 DEF GateNext

\* For any hosts, any number of proxies on the way and any text in the headers, a
\* request is accounted to the address that connected to our machines.
THEOREM RequestsAttributed == GateSpec => []Attributed
<1>1. GateInit => Attributed /\ FromOK
  BY GateInitOK
<1>2. FromOK /\ [GateNext]_gateVars => FromOK'
  BY GateStep
<1>3. IInv /\ FromOK /\ Attributed /\ [GateNext]_gateVars => Attributed'
  BY AttributedStep
<1> QED
  BY <1>1, <1>2, <1>3, GateImplementsLimiter, LimiterInvariance, PTL DEF GateSpec

=============================================================================
