-------------------------------- MODULE Gate --------------------------------
(***************************************************************************)
(* The rate limiter behind the reverse proxies: clientIPResolver           *)
(* (internal/httpd/clientip.go) decides which address a request counts     *)
(* for, and handleStartUpload, handleUnlock and handleReport ask their     *)
(* limiter for a token of that address before they do anything else.  The  *)
(* three limiters are alike and share nothing; this is one of them.        *)
(*                                                                         *)
(* An address is a host, written plainly or as an IPv4-mapped IPv6         *)
(* address: netip keeps the two apart, and a trusted prefix contains only  *)
(* the plain one.                                                          *)
(***************************************************************************)
EXTENDS Limiter, Sequences, SequencesExt

CONSTANTS
  Hosts,     \* machines that may send or pass on a request
  Clients,   \* the hosts that send requests of their own
  Proxies,   \* those that SECUREFILE_TRUSTED_PROXIES names
  Garbage,   \* header text that netip.ParseAddr refuses
  Texts,     \* what clients write into the headers themselves
  MaxHops,   \* bound: hops a client writes into X-Forwarded-For
  MaxRoute   \* bound: proxies between a client and the server

Address == [host : Hosts, mapped : BOOLEAN]
Plain(x) == [host |-> x, mapped |-> FALSE]

ASSUME GateAssumption ==
  /\ Addrs = Address
  /\ Proxies \subseteq Hosts
  /\ Clients \subseteq Hosts \ Proxies
  /\ Clients # {}
  /\ Garbage \notin Address
  /\ Texts \subseteq Address \cup {Garbage}
  /\ MaxHops \in Nat
  /\ MaxRoute \in Nat

VARIABLES
  realIP,  \* whether clientIPResolver.realIPHeader is configured
  from     \* history: the host whose request each call of allow serves

gateVars == <<now, buckets, calls, sweeper, since, spent, lag, realIP, from>>

-----------------------------------------------------------------------------
(***************************************************************************)
(* clientIPResolver.  A request is the address of its TCP peer, the text   *)
(* of the real-IP header and the hops of X-Forwarded-For.                  *)
(***************************************************************************)
Trusts(a) == ~a.mapped /\ a.host \in Proxies

Unmap(a) == Plain(a.host)

\* Mutant of Forwarded: the hops are walked from the left.
ForwardedLeft(r) ==
  LET strangers == {i \in DOMAIN r.hops : r.hops[i] # Garbage /\ ~Trusts(r.hops[i])}
  IN  IF strangers = {} THEN Unmap(r.peer)
      ELSE r.hops[CHOOSE i \in strangers : \A j \in strangers : i <= j]

\* The rightmost hop that parses and is not one of our proxies.
Forwarded(r) ==
  LET strangers == {i \in DOMAIN r.hops : r.hops[i] # Garbage /\ ~Trusts(r.hops[i])}
  IN  IF strangers = {} THEN Unmap(r.peer)
      ELSE r.hops[CHOOSE i \in strangers : \A j \in strangers : i >= j]

\* resolve.  configured: realIPHeader is set.
Resolve(configured, r) ==
  IF ~Trusts(Unmap(r.peer)) THEN Unmap(r.peer)
  ELSE IF configured /\ r.real # Garbage THEN Unmap(r.real)
  ELSE Forwarded(r)

-----------------------------------------------------------------------------
(***************************************************************************)
(* The requests that reach the server from client c.  The client writes    *)
(* both headers as it likes.  Each proxy on the route appends the address  *)
(* of whoever connected to it to X-Forwarded-For (nginx's                  *)
(* $proxy_add_x_forwarded_for); where a real-IP header is configured the   *)
(* first one sets it to the client's address (Cloudflare's tunnel).  The   *)
(* server's own listener may report its peer in mapped form.               *)
(***************************************************************************)
Routes == BoundedSeq(Proxies, MaxRoute)
Written == BoundedSeq(Texts, MaxHops)

\* The hosts a request passes: its client, then the proxies in order.
Request(configured, c, route, own, text, m) ==
  LET path == <<c>> \o route
      n == Len(path)
  IN  [peer |-> [host |-> path[n], mapped |-> m],
       real |-> IF configured /\ n > 1 THEN Plain(c) ELSE text,
       hops |-> own \o [i \in 1..(n - 1) |-> Plain(path[i])]]

\* The addresses a client's requests are accounted to.
AccountedTo ==
  [configured \in BOOLEAN |-> [c \in Clients |->
     {Resolve(configured, Request(configured, c, route, own, text, m)) :
        route \in Routes, own \in Written, text \in Texts, m \in BOOLEAN}]]

-----------------------------------------------------------------------------
GateInit ==
  /\ Init
  /\ realIP \in BOOLEAN
  /\ from = [h \in Handlers |-> CHOOSE c \in Clients : TRUE]

\* A request reaches its handler, which resolves its address and calls allow.
Arrive(h) ==
  \E c \in Clients :
    /\ \E a \in AccountedTo[realIP][c] : AllowBegin(h, a)
    /\ from' = [from EXCEPT ![h] = c]
    /\ UNCHANGED realIP

\* allow answers; on a refusal the handler says 429 and is done.
Answer(h) == Allow(h) /\ UNCHANGED <<realIP, from>>

\* sweepLimiters, every five minutes.
SweepLimiters == (SweepBegin \/ SweepEnd) /\ UNCHANGED <<realIP, from>>

GateNext ==
  \/ \E h \in Handlers : Arrive(h) \/ Answer(h)
  \/ SweepLimiters
  \/ Tick /\ UNCHANGED <<realIP, from>>

GateSpec == GateInit /\ [][GateNext]_gateVars

-----------------------------------------------------------------------------
\* Every request is accounted to the address that connected to our machines,
\* under one spelling: neither what its client has written into the headers,
\* nor the route it took through the trusted proxies, nor the form in which
\* the listener reports its peer moves it to another bucket (resolve).
Attributed ==
  \A h \in Handlers : calls[h].busy => calls[h].addr = Plain(from[h])

=============================================================================
