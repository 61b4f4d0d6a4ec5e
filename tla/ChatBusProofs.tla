---------------------------- MODULE ChatBusProofs ----------------------------
(***************************************************************************)
(* Theorems about ChatBus and the event bus under it, for any posts,       *)
(* clients, queue length and number of errors: the types, what a client    *)
(* that listens can miss, what an answer 'ok' says, and how a producer     *)
(* comes to be left open.                                                  *)
(***************************************************************************)
EXTENDS ChatBus, SequenceTheorems, TLAPS

----------------------------------------------------------------------------
(* Sequences without repetition                                            *)

LEMMA Lengths ==
  ASSUME NEW S, NEW s \in Seq(S)
  PROVE  Len(s) \in Nat
  OBVIOUS

LEMMA Grown ==
  ASSUME NEW S, NEW s \in Seq(S), NEW e \in S
  PROVE  /\ Append(s, e) \in Seq(S) /\ Len(Append(s, e)) = Len(s) + 1 /\ Len(s) \in Nat
         /\ \A i \in 1 .. Len(s) : Append(s, e)[i] = s[i]
         /\ Append(s, e)[Len(s) + 1] = e
         /\ ToSet(Append(s, e)) = ToSet(s) \union {e}
<1>1. /\ Append(s, e) \in Seq(S) /\ Len(Append(s, e)) = Len(s) + 1 /\ Len(s) \in Nat
      /\ \A i \in 1 .. Len(s) : Append(s, e)[i] = s[i]
      /\ Append(s, e)[Len(s) + 1] = e
  OBVIOUS
<1>2. DOMAIN s = 1 .. Len(s) /\ DOMAIN Append(s, e) = 1 .. Len(s) + 1
  BY <1>1
<1>3. ToSet(Append(s, e)) = ToSet(s) \union {e}
  BY <1>1, <1>2 DEF ToSet
<1> QED
  BY <1>1, <1>3

LEMMA GrownInjective ==
  ASSUME NEW S, NEW s \in Seq(S), NEW e \in S, IsInjective(s), e \notin ToSet(s)
  PROVE  IsInjective(Append(s, e))
<1>1. DOMAIN s = 1 .. Len(s) /\ DOMAIN Append(s, e) = 1 .. Len(s) + 1
  OBVIOUS
<1>2. \A i \in 1 .. Len(s) : s[i] # e
  BY <1>1 DEF ToSet
<1> QED
  BY <1>1, <1>2, Grown DEF IsInjective

\* What was published from n + 1 on.
LEMMA Suffix ==
  ASSUME NEW s \in Seq(Posts), NEW n \in 0 .. Len(s)
  PROVE  LET sent == SubSeq(s, n + 1, Len(s))
         IN  /\ sent \in Seq(Posts) /\ Len(sent) = Len(s) - n /\ DOMAIN sent = 1 .. Len(s) - n
             /\ \A i \in 1 .. Len(s) - n : sent[i] = s[n + i]
             /\ ToSet(sent) = {s[i] : i \in n + 1 .. Len(s)}
<1> DEFINE sent == SubSeq(s, n + 1, Len(s))
<1>1. /\ sent \in Seq(Posts) /\ Len(sent) = IF n + 1 <= Len(s) THEN Len(s) - (n + 1) + 1 ELSE 0
      /\ \A i \in 1 .. Len(s) - (n + 1) + 1 : sent[i] = s[n + 1 + i - 1]
  <2>1. \A i \in n + 1 .. Len(s) : s[i] \in Posts
    OBVIOUS
  <2>2. n + 1 \in Int /\ Len(s) \in Int
    OBVIOUS
  <2> QED
    BY <2>1, <2>2, SubSeqProperties
<1>2. Len(sent) = Len(s) - n /\ \A i \in 1 .. Len(s) - n : sent[i] = s[n + i]
  BY <1>1
<1>3. DOMAIN sent = 1 .. Len(s) - n
  BY <1>1, <1>2
<1> HIDE DEF sent
<1>4. ToSet(sent) = {s[i] : i \in n + 1 .. Len(s)}
  <2>1. ASSUME NEW i \in n + 1 .. Len(s)
        PROVE  s[i] \in ToSet(sent)
    <3>1. i - n \in 1 .. Len(s) - n /\ n + (i - n) = i
      OBVIOUS
    <3> QED
      BY <1>2, <1>3, <3>1 DEF ToSet
  <2>2. ASSUME NEW i \in 1 .. Len(s) - n
        PROVE  sent[i] \in {s[j] : j \in n + 1 .. Len(s)}
    BY <1>2
  <2> QED
    BY <1>3, <2>1, <2>2 DEF ToSet
<1> QED
  BY <1>1, <1>2, <1>3, <1>4 DEF sent

\* The events a client has yet to lose: in the order of s, from n + 1 on, but those
\* of lost, and the latest among them.
Follows(h, s, n, lost) ==
    /\ ToSet(h) = {s[i] : i \in n + 1 .. Len(s)} \ lost
    /\ \A i, j \in DOMAIN h : i < j => \E k, m \in DOMAIN s : k < m /\ s[k] = h[i] /\ s[m] = h[j]
    /\ n < Len(s) => h # <<>> /\ h[Len(h)] = s[Len(s)]

\* p is how s begins.
Begins(p, s) == Len(p) \in 0 .. Len(s) /\ \A i \in 1 .. Len(p) : p[i] = s[i]

\* Who hears the beginning of h only, hears the beginning of s.
LEMMA FollowsBegins ==
  ASSUME NEW S, NEW s \in Seq(S), NEW h \in Seq(S), NEW a \in Seq(S), NEW n \in 0 .. Len(s),
         NEW lost, IsInjective(s), Follows(h, s, n, lost), Begins(a, h)
  PROVE  \E p \in Seq(S) : Begins(p, s) /\ n <= Len(p) /\ Follows(a, p, n, lost)
<1> DEFINE p(m) == SubSeq(s, 1, m)
<1>1. /\ Len(s) \in Nat /\ Len(h) \in Nat /\ Len(a) \in 0 .. Len(h)
      /\ DOMAIN s = 1 .. Len(s) /\ DOMAIN h = 1 .. Len(h) /\ DOMAIN a = 1 .. Len(a)
  BY Lengths DEF Begins
<1>2. ASSUME NEW m \in n .. Len(s)
      PROVE  p(m) \in Seq(S) /\ Len(p(m)) = m /\ \A i \in 1 .. m : p(m)[i] = s[i]
  <2>1. m \in Nat /\ 1 \in Int /\ m \in Int /\ \A i \in 1 .. m : s[i] \in S
    BY <1>1
  <2>2. /\ p(m) \in Seq(S) /\ Len(p(m)) = IF 1 <= m THEN m - 1 + 1 ELSE 0
        /\ \A i \in 1 .. m - 1 + 1 : p(m)[i] = s[1 + i - 1]
    BY <2>1, SubSeqProperties
  <2> QED
    BY <2>1, <2>2
<1> HIDE DEF p
<1>3. CASE Len(a) = 0
  <2>1. n \in n .. Len(s)
    BY <1>1
  <2>2. ToSet(a) = {} /\ n + 1 .. n = {}
    BY <1>1, <1>3 DEF ToSet
  <2>3. Follows(a, p(n), n, lost)
    BY <1>1, <1>2, <1>3, <2>1, <2>2 DEF Follows
  <2> QED
    BY <1>1, <1>2, <2>1, <2>3 DEF Begins
<1>4. CASE Len(a) # 0
  <2> DEFINE l == Len(a)
  <2>1. l \in DOMAIN a /\ l \in DOMAIN h /\ a[l] = h[l]
    BY <1>1, <1>4 DEF Begins
  <2>2. h[l] \in ToSet(h)
    BY <2>1 DEF ToSet
  <2>3. PICK m \in n + 1 .. Len(s) : h[l] = s[m]
    BY <2>2 DEF Follows
  <2>4. m \in n .. Len(s) /\ m \in Nat /\ m \in DOMAIN s
    BY <1>1
  <2>5. ASSUME NEW i \in DOMAIN a
        PROVE  \E k \in n + 1 .. m : a[i] = s[k] /\ s[k] \notin lost
    <3>1. i \in DOMAIN h /\ a[i] = h[i]
      BY <1>1 DEF Begins
    <3>2. h[i] \in ToSet(h)
      BY <3>1 DEF ToSet
    <3>3. PICK k \in n + 1 .. Len(s) : h[i] = s[k] /\ s[k] \notin lost
      BY <3>2 DEF Follows
    <3>4. CASE i = l
      <4>1. s[m] \notin lost
        BY <2>3, <3>1, <3>3, <3>4, <2>1
      <4> QED
        BY <1>1, <2>3, <2>4, <3>1, <3>4, <4>1
    <3>5. CASE i < l
      <4>1. PICK b \in DOMAIN s, d \in DOMAIN s : b < d /\ s[b] = h[i] /\ s[d] = h[l]
        BY <2>1, <3>1, <3>5 DEF Follows
      <4>2. b = k /\ d = m
        BY <1>1, <2>3, <2>4, <3>3, <4>1 DEF IsInjective
      <4> QED
        BY <1>1, <3>1, <3>3, <4>1, <4>2
    <3> QED
      BY <1>1, <3>4, <3>5
  <2>6. ASSUME NEW k \in n + 1 .. m, s[k] \notin lost
        PROVE  s[k] \in ToSet(a)
    <3>1. k \in n + 1 .. Len(s) /\ k \in DOMAIN s
      BY <1>1, <2>4
    <3>2. s[k] \in ToSet(h)
      BY <2>6, <3>1 DEF Follows
    <3>3. PICK i \in DOMAIN h : h[i] = s[k]
      BY <3>2 DEF ToSet
    <3>4. CASE i <= l
      <4>1. i \in DOMAIN a /\ a[i] = h[i]
        BY <1>1, <3>4 DEF Begins
      <4> QED
        BY <3>3, <4>1 DEF ToSet
    <3>5. CASE l < i
      <4>1. PICK b \in DOMAIN s, d \in DOMAIN s : b < d /\ s[b] = h[l] /\ s[d] = h[i]
        BY <2>1, <3>5 DEF Follows
      <4>2. b = m /\ d = k
        BY <2>3, <2>4, <3>1, <3>3, <4>1 DEF IsInjective
      <4> QED
        BY <1>1, <2>4, <4>1, <4>2
    <3> QED
      BY <1>1, <3>4, <3>5
  <2>7. /\ p(m) \in Seq(S) /\ Len(p(m)) = m /\ DOMAIN p(m) = 1 .. m
        /\ \A i \in 1 .. m : p(m)[i] = s[i]
    BY <1>2, <2>4
  <2>8. ToSet(a) = {p(m)[i] : i \in n + 1 .. m} \ lost
    <3>1. ASSUME NEW i \in DOMAIN a
          PROVE  a[i] \in {p(m)[k] : k \in n + 1 .. m} \ lost
      <4>1. PICK k \in n + 1 .. m : a[i] = s[k] /\ s[k] \notin lost
        BY <2>5
      <4>2. p(m)[k] = s[k]
        BY <2>4, <2>7
      <4> QED
        BY <4>1, <4>2
    <3>2. ASSUME NEW k \in n + 1 .. m, p(m)[k] \notin lost
          PROVE  p(m)[k] \in ToSet(a)
      <4>1. p(m)[k] = s[k]
        BY <2>4, <2>7
      <4> QED
        BY <2>6, <3>2, <4>1
    <3> QED
      BY <3>1, <3>2 DEF ToSet
  <2>9. ASSUME NEW i \in DOMAIN a, NEW j \in DOMAIN a, i < j
        PROVE  \E k, d \in DOMAIN p(m) : k < d /\ p(m)[k] = a[i] /\ p(m)[d] = a[j]
    <3>1. i \in DOMAIN h /\ j \in DOMAIN h /\ a[i] = h[i] /\ a[j] = h[j]
      BY <1>1 DEF Begins
    <3>2. PICK k \in DOMAIN s, d \in DOMAIN s : k < d /\ s[k] = h[i] /\ s[d] = h[j]
      BY <2>9, <3>1 DEF Follows
    <3>3. PICK b \in n + 1 .. m : a[j] = s[b]
      BY <2>5
    <3>4. b = d
      BY <1>1, <2>4, <3>1, <3>2, <3>3 DEF IsInjective
    <3>5. k \in DOMAIN p(m) /\ d \in DOMAIN p(m)
      BY <1>1, <2>4, <2>7, <3>2, <3>4
    <3> QED
      BY <2>7, <3>1, <3>2, <3>5
  <2>10. a # <<>> /\ a[Len(a)] = p(m)[Len(p(m))]
    <3>1. m \in 1 .. m
      BY <2>4
    <3> QED
      BY <1>4, <2>1, <2>3, <2>7, <3>1
  <2>11. Follows(a, p(m), n, lost)
    BY <2>7, <2>8, <2>9, <2>10 DEF Follows
  <2>12. Begins(p(m), s) /\ n <= Len(p(m))
    BY <1>1, <2>4, <2>7 DEF Begins
  <2> QED
    BY <2>7, <2>11, <2>12
<1> QED
  BY <1>3, <1>4

LEMMA FollowsNext ==
  ASSUME NEW S, NEW s \in Seq(S), NEW h \in Seq(S), NEW e \in S, NEW n \in 0 .. Len(s), NEW lost,
         Follows(h, s, n, lost), e \notin lost
  PROVE  Follows(Append(h, e), Append(s, e), n, lost)
<1> DEFINE g == Append(h, e)
           t == Append(s, e)
<1>1. /\ Len(t) = Len(s) + 1 /\ t[Len(s) + 1] = e /\ \A i \in 1 .. Len(s) : t[i] = s[i]
      /\ Len(g) = Len(h) + 1 /\ g[Len(h) + 1] = e /\ \A i \in 1 .. Len(h) : g[i] = h[i]
      /\ ToSet(g) = ToSet(h) \union {e} /\ t \in Seq(S) /\ g \in Seq(S)
      /\ Len(s) \in Nat /\ Len(h) \in Nat
  BY Grown
<1>2. /\ DOMAIN s = 1 .. Len(s) /\ DOMAIN t = 1 .. Len(s) + 1
      /\ DOMAIN h = 1 .. Len(h) /\ DOMAIN g = 1 .. Len(h) + 1
  BY <1>1
<1> HIDE DEF g, t
<1>3. {t[i] : i \in n + 1 .. Len(t)} = {s[i] : i \in n + 1 .. Len(s)} \union {e}
  <2>1. ASSUME NEW i \in n + 1 .. Len(t)
        PROVE  t[i] \in {s[j] : j \in n + 1 .. Len(s)} \union {e}
    BY <1>1
  <2>2. ASSUME NEW i \in n + 1 .. Len(s)
        PROVE  s[i] \in {t[j] : j \in n + 1 .. Len(t)}
    <3>1. i \in n + 1 .. Len(t) /\ t[i] = s[i]
      BY <1>1
    <3> QED
      BY <3>1
  <2>3. e \in {t[j] : j \in n + 1 .. Len(t)}
    <3>1. Len(t) \in n + 1 .. Len(t) /\ t[Len(t)] = e
      BY <1>1
    <3> QED
      BY <3>1
  <2> QED
    BY <2>1, <2>2, <2>3
<1>4. ASSUME NEW i \in DOMAIN g, NEW j \in DOMAIN g, i < j
      PROVE  \E k, m \in DOMAIN t : k < m /\ t[k] = g[i] /\ t[m] = g[j]
  <2>1. CASE j \in 1 .. Len(h)
    <3>1. i \in DOMAIN h /\ j \in DOMAIN h /\ g[i] = h[i] /\ g[j] = h[j]
      BY <1>1, <1>2, <1>4, <2>1
    <3>2. PICK k \in DOMAIN s, m \in DOMAIN s : k < m /\ s[k] = h[i] /\ s[m] = h[j]
      BY <1>4, <3>1 DEF Follows
    <3>3. k \in DOMAIN t /\ m \in DOMAIN t /\ t[k] = s[k] /\ t[m] = s[m]
      BY <1>1, <1>2
    <3> QED
      BY <3>1, <3>2, <3>3
  <2>2. CASE j = Len(h) + 1
    <3>1. i \in DOMAIN h /\ g[i] = h[i] /\ g[j] = e
      BY <1>1, <1>2, <1>4, <2>2
    <3>2. h[i] \in ToSet(h)
      BY <3>1 DEF ToSet
    <3>3. PICK k \in n + 1 .. Len(s) : s[k] = h[i]
      BY <3>2 DEF Follows
    <3>4. k \in DOMAIN t /\ Len(t) \in DOMAIN t /\ k < Len(t) /\ t[k] = s[k] /\ t[Len(t)] = e
      BY <1>1, <1>2
    <3> QED
      BY <3>1, <3>3, <3>4
  <2> QED
    BY <1>1, <1>2, <2>1, <2>2
<1>5. g # <<>> /\ g[Len(g)] = t[Len(t)]
  BY <1>1
<1>6. ToSet(g) = {t[i] : i \in n + 1 .. Len(t)} \ lost
  BY <1>1, <1>3 DEF Follows
<1>7. Follows(g, t, n, lost)
  BY <1>4, <1>5, <1>6 DEF Follows
<1> QED
  BY <1>7 DEF g, t

\* h without its k-th element.
Skips(g, h, k) ==
    /\ Len(g) = Len(h) - 1
    /\ \A i \in 1 .. Len(g) : g[i] = IF i < k THEN h[i] ELSE h[i + 1]

\* What is skipped is not the last one.
LEMMA FollowsLoses ==
  ASSUME NEW S, NEW s \in Seq(S), NEW h \in Seq(S), NEW g \in Seq(S), NEW n \in 0 .. Len(s),
         NEW lost, IsInjective(s), Follows(h, s, n, lost),
         NEW k \in 1 .. Len(h) - 1, Skips(g, h, k)
  PROVE  Follows(g, s, n, lost \union {h[k]})
<1>1. /\ Len(h) \in Nat /\ Len(g) \in Nat /\ Len(s) \in Nat
      /\ DOMAIN h = 1 .. Len(h) /\ DOMAIN g = 1 .. Len(h) - 1 /\ DOMAIN s = 1 .. Len(s)
  <2>1. Len(h) \in Nat /\ Len(g) \in Nat /\ Len(s) \in Nat
    BY Lengths
  <2>2. Len(g) = Len(h) - 1
    BY DEF Skips
  <2> QED
    BY <2>1, <2>2
<1>9. Len(g) = Len(h) - 1 /\ \A i \in 1 .. Len(h) - 1 : g[i] = IF i < k THEN h[i] ELSE h[i + 1]
  <2>1. Len(g) = Len(h) - 1
    BY DEF Skips
  <2> QED
    BY <2>1 DEF Skips
<1>2. ASSUME NEW i \in DOMAIN h, NEW j \in DOMAIN h, i < j
      PROVE  h[i] # h[j]
  <2>1. PICK a \in DOMAIN s, b \in DOMAIN s : a < b /\ s[a] = h[i] /\ s[b] = h[j]
    BY <1>2 DEF Follows
  <2> QED
    BY <1>1, <1>9, <2>1 DEF IsInjective
<1>3. ToSet(g) = ToSet(h) \ {h[k]}
  <2>1. ASSUME NEW i \in DOMAIN g
        PROVE  g[i] \in ToSet(h) /\ g[i] # h[k]
    <3>1. CASE i < k
      <4>1. i \in DOMAIN h /\ k \in DOMAIN h /\ i < k /\ g[i] = h[i]
        BY <1>1, <1>9, <3>1
      <4> QED
        BY <1>2, <4>1 DEF ToSet
    <3>2. CASE ~ i < k
      <4>1. i + 1 \in DOMAIN h /\ k \in DOMAIN h /\ k < i + 1 /\ g[i] = h[i + 1]
        BY <1>1, <1>9, <3>2
      <4> QED
        BY <1>2, <4>1 DEF ToSet
    <3> QED
      BY <3>1, <3>2
  <2>2. ASSUME NEW i \in DOMAIN h, i # k
        PROVE  h[i] \in ToSet(g)
    <3>1. CASE i < k
      <4>1. i \in DOMAIN g /\ g[i] = h[i]
        BY <1>1, <1>9, <3>1
      <4> QED
        BY <4>1 DEF ToSet
    <3>2. CASE ~ i < k
      <4>1. i - 1 \in DOMAIN g /\ g[i - 1] = h[i]
        BY <1>1, <1>9, <2>2, <3>2
      <4> QED
        BY <4>1 DEF ToSet
    <3> QED
      BY <3>1, <3>2
  <2> QED
    BY <2>1, <2>2 DEF ToSet
<1>4. ASSUME NEW i \in DOMAIN g, NEW j \in DOMAIN g, i < j
      PROVE  \E a, b \in DOMAIN s : a < b /\ s[a] = g[i] /\ s[b] = g[j]
  <2> DEFINE p == IF i < k THEN i ELSE i + 1
             q == IF j < k THEN j ELSE j + 1
  <2>1. p \in DOMAIN h /\ q \in DOMAIN h /\ p < q
    BY <1>1, <1>4
  <2>2. g[i] = h[p] /\ g[j] = h[q]
    BY <1>1, <1>9, <1>4
  <2> HIDE DEF p, q
  <2> QED
    BY <2>1, <2>2 DEF Follows
<1>5. n < Len(s) => g # <<>> /\ g[Len(g)] = s[Len(s)]
  <2>1. Len(g) >= k /\ Len(g) \in 1 .. Len(g) /\ g[Len(g)] = h[Len(h)] /\ g # <<>>
    BY <1>1, <1>9
  <2> QED
    BY <2>1 DEF Follows
<1>6. ToSet(g) = {s[i] : i \in n + 1 .. Len(s)} \ (lost \union {h[k]})
  BY <1>3 DEF Follows
<1> QED
  BY <1>4, <1>5, <1>6 DEF Follows

----------------------------------------------------------------------------
(* The event bus                                                           *)

\* Who starts a producer has the lock, and there is none until it has started.
StartsAlone == \A c \in Callers : caller[c].pc = "starting" => lock = c /\ producer = NoProducer

KafkaSound == KafkaTypeOK /\ StartsAlone

LEMMA Moved ==
  ASSUME KafkaTypeOK, NEW c \in Callers,
         NEW pc \in {"idle", "lock", "starting", "sending", "stopping", "sleep", "raised"},
         NEW p \in Producers \union {NoProducer}, Move(c, pc, p)
  PROVE  /\ caller' \in [Callers -> CallerType]
         /\ caller'[c].pc = pc /\ caller'[c].held = p /\ caller'[c].retry = caller[c].retry
         /\ \A d \in Callers \ {c} : caller'[d] = caller[d]
  BY DEF KafkaTypeOK, Move, CallerType

LEMMA Returned ==
  ASSUME KafkaTypeOK, NEW c \in Callers, Return(c)
  PROVE  /\ caller' \in [Callers -> CallerType] /\ caller'[c] = Resting
         /\ \A d \in Callers \ {c} : caller'[d] = caller[d]
  BY DEF KafkaTypeOK, Return, Resting, CallerType

\* A caller whose step neither starts nor takes the lock.
LEMMA OthersStart ==
  ASSUME KafkaSound, NEW c \in Callers, caller[c].pc # "starting" \/ lock' = NoProducer,
         caller'[c].pc # "starting", \A d \in Callers \ {c} : caller'[d] = caller[d],
         lock' = lock \/ caller[c].pc = "starting", producer' \in {producer, NoProducer}
  PROVE  StartsAlone'
<1>1. ASSUME NEW d \in Callers, caller'[d].pc = "starting"
      PROVE  lock' = d /\ producer' = NoProducer
  <2>1. d # c /\ caller[d].pc = "starting"
    BY <1>1
  <2>2. lock = d /\ producer = NoProducer
    BY <2>1 DEF KafkaSound, StartsAlone
  <2>3. caller[c].pc # "starting"
    BY <2>1, <2>2 DEF KafkaSound, StartsAlone
  <2> QED
    BY <2>2, <2>3
<1> QED
  BY <1>1 DEF StartsAlone

LEMMA CallSound ==
  ASSUME KafkaSound, NEW c \in Callers, Call(c)
  PROVE  KafkaSound'
<1>1. PICK pc \in {"lock", "sending"}, p \in Producers \union {NoProducer} : Move(c, pc, p)
  BY DEF Call, KafkaSound, KafkaTypeOK
<1>2. KafkaTypeOK'
  BY <1>1, Moved DEF Call, KafkaSound, KafkaTypeOK
<1>3. StartsAlone'
  BY <1>1, Moved, OthersStart DEF Call, KafkaSound
<1> QED
  BY <1>2, <1>3 DEF KafkaSound

LEMMA StartedTakes ==
  ASSUME KafkaSound, NEW c \in Callers, Started(c)
  PROVE  producer' \in Producers \ open /\ Move(c, "sending", producer')
  BY DEF Started, Fresh

LEMMA PublishSound ==
  ASSUME KafkaSound, NEW c \in Callers, PublishStep(c)
  PROVE  KafkaSound'
<1> USE KafkaAssumption DEF Error
<1>1. CASE Lock(c)
  <2>1. PICK pc \in {"starting", "sending"}, p \in Producers \union {NoProducer} :
          /\ Move(c, pc, p)
          /\ pc = "starting" => producer = NoProducer /\ lock' = c
          /\ pc = "sending" => lock' = lock
    BY <1>1 DEF Lock, KafkaSound, KafkaTypeOK
  <2>2. KafkaTypeOK'
    BY <1>1, <2>1, Moved DEF Lock, KafkaSound, KafkaTypeOK
  <2>3. \A d \in Callers : caller[d].pc # "starting"
    BY <1>1 DEF Lock, KafkaSound, StartsAlone
  <2>4. StartsAlone'
    BY <1>1, <2>1, <2>3, Moved DEF Lock, StartsAlone, KafkaSound
  <2> QED
    BY <2>2, <2>4 DEF KafkaSound
<1>2. CASE Started(c)
  <2>1. producer' \in Producers \ open /\ Move(c, "sending", producer')
    BY <1>2, StartedTakes
  <2>2. KafkaTypeOK'
    BY <1>2, <2>1, Moved DEF Started, KafkaSound, KafkaTypeOK
  <2>3. \A d \in Callers \ {c} : caller[d].pc # "starting"
    BY <1>2 DEF Started, KafkaSound, StartsAlone
  <2>4. StartsAlone'
    BY <2>1, <2>3, Moved DEF StartsAlone, KafkaSound
  <2> QED
    BY <2>2, <2>4 DEF KafkaSound
<1>3. CASE GivesUp(c)
  <2>1. KafkaTypeOK'
    BY <1>3, Returned DEF GivesUp, KafkaSound, KafkaTypeOK
  <2>2. StartsAlone'
    BY <1>3, Returned, OthersStart DEF GivesUp, KafkaSound, Resting
  <2> QED
    BY <2>1, <2>2 DEF KafkaSound
<1>4. CASE Sent(c)
  <2>1. KafkaTypeOK'
    BY <1>4, Returned DEF Sent, KafkaSound, KafkaTypeOK
  <2>2. StartsAlone'
    BY <1>4, Returned, OthersStart DEF Sent, KafkaSound, Resting
  <2> QED
    BY <2>1, <2>2 DEF KafkaSound
<1>5. CASE SendFails(c)
  <2>1. \/ Return(c)
        \/ Move(c, "sleep", NoProducer)
        \/ Move(c, "stopping", producer)
    BY <1>5 DEF SendFails
  <2>2. /\ caller' \in [Callers -> CallerType] /\ caller'[c].pc # "starting"
        /\ \A d \in Callers \ {c} : caller'[d] = caller[d]
    BY <2>1, Moved, Returned DEF KafkaSound, KafkaTypeOK, Resting
  <2>3. errors' \in 0 .. MaxErrors
    BY <1>5 DEF SendFails, KafkaSound, KafkaTypeOK
  <2>4. KafkaTypeOK'
    BY <1>5, <2>2, <2>3 DEF SendFails, KafkaSound, KafkaTypeOK
  <2>5. StartsAlone'
    BY <1>5, <2>2, OthersStart DEF SendFails
  <2> QED
    BY <2>4, <2>5 DEF KafkaSound
<1>6. CASE Stopped(c)
  <2>1. KafkaTypeOK'
    BY <1>6, Moved DEF Stopped, KafkaSound, KafkaTypeOK
  <2>2. StartsAlone'
    BY <1>6, Moved, OthersStart DEF Stopped, KafkaSound
  <2> QED
    BY <2>1, <2>2 DEF KafkaSound
<1>7. CASE StopRaises(c)
  <2>1. KafkaTypeOK'
    BY <1>7, Moved DEF StopRaises, KafkaSound, KafkaTypeOK
  <2>2. StartsAlone'
    BY <1>7, Moved, OthersStart DEF StopRaises, KafkaSound
  <2> QED
    BY <2>1, <2>2 DEF KafkaSound
<1>8. CASE Retry(c)
  <2>1. /\ caller' \in [Callers -> CallerType] /\ caller'[c].pc = "lock"
        /\ \A d \in Callers \ {c} : caller'[d] = caller[d]
    BY <1>8 DEF Retry, KafkaSound, KafkaTypeOK, CallerType
  <2>2. KafkaTypeOK'
    BY <1>8, <2>1 DEF Retry, KafkaSound, KafkaTypeOK
  <2>3. StartsAlone'
    BY <1>8, <2>1, OthersStart DEF Retry
  <2> QED
    BY <2>2, <2>3 DEF KafkaSound
<1> QED
  BY <1>1, <1>2, <1>3, <1>4, <1>5, <1>6, <1>7, <1>8 DEF PublishStep

\* What LeftOpenOnlyByLateStop says of a step.
LeavesOpen ==
    \A p \in open :
        (p = producer /\ p # producer' /\ p \in open') =>
            /\ producer' = NoProducer
            /\ \E c \in Callers :
                 /\ caller[c].pc = "stopping"
                 /\ caller[c].held # p \/ caller'[c].pc = "raised"

LEMMA PublishLeaves ==
  ASSUME KafkaSound, NEW c \in Callers, PublishStep(c)
  PROVE  LeavesOpen
<1>1. CASE producer' = producer
  BY <1>1 DEF LeavesOpen
<1>2. CASE Started(c)
  <2>1. producer = NoProducer
    BY <1>2 DEF Started, KafkaSound, StartsAlone
  <2> QED
    BY <2>1, KafkaAssumption DEF LeavesOpen, KafkaSound, KafkaTypeOK
<1>3. CASE Stopped(c)
  BY <1>3 DEF Stopped, LeavesOpen
<1>4. CASE StopRaises(c)
  <2>1. caller'[c].pc = "raised"
    BY <1>4, Moved DEF StopRaises, KafkaSound
  <2> QED
    BY <1>4, <2>1 DEF StopRaises, LeavesOpen
<1> QED
  BY <1>1, <1>2, <1>3, <1>4
     DEF PublishStep, Lock, GivesUp, Sent, SendFails, Retry

----------------------------------------------------------------------------
(* What a client holds                                                     *)

\* The i-th element of g, q and w as one sequence.
Nth(g, q, w, i) ==
    IF i <= Len(g) THEN g[i]
    ELSE IF i <= Len(g) + Len(q) THEN q[i - Len(g)] ELSE w[i - Len(g) - Len(q)]

\* h is the three of them; p is q and then e; v is w without its first.
Spells(h, g, q, w) ==
    /\ Len(h) = Len(g) + Len(q) + Len(w)
    /\ \A i \in 1 .. Len(h) : h[i] = Nth(g, q, w, i)

Grows(p, q, e) ==
    /\ Len(p) = Len(q) + 1
    /\ \A i \in 1 .. Len(q) : p[i] = q[i]
    /\ p[Len(q) + 1] = e

Shrinks(v, w) ==
    /\ Len(w) >= 1
    /\ Len(v) = Len(w) - 1
    /\ \A i \in 1 .. Len(w) - 1 : v[i] = w[i + 1]

LEMMA Appends ==
  ASSUME NEW S, NEW s \in Seq(S), NEW e \in S
  PROVE  Append(s, e) \in Seq(S) /\ Grows(Append(s, e), s, e)
  BY Grown DEF Grows

LEMMA HeadAndTail ==
  ASSUME NEW S, NEW s \in Seq(S), s # <<>>
  PROVE  Tail(s) \in Seq(S) /\ Shrinks(Tail(s), s) /\ Head(s) = s[1] /\ Head(s) \in S
  BY DEF Shrinks

LEMMA Joined ==
  ASSUME NEW S, NEW g \in Seq(S), NEW q \in Seq(S), NEW w \in Seq(S)
  PROVE  g \o q \o w \in Seq(S) /\ Spells(g \o q \o w, g, q, w)
<1>1. /\ g \o q \in Seq(S) /\ Len(g \o q) = Len(g) + Len(q)
      /\ \A i \in 1 .. Len(g) + Len(q) : (g \o q)[i] = IF i <= Len(g) THEN g[i] ELSE q[i - Len(g)]
  BY ConcatProperties
<1> DEFINE gq == g \o q
<1>2. /\ gq \o w \in Seq(S) /\ Len(gq \o w) = Len(gq) + Len(w)
      /\ \A i \in 1 .. Len(gq) + Len(w) : (gq \o w)[i] = IF i <= Len(gq) THEN gq[i] ELSE w[i - Len(gq)]
  BY <1>1, ConcatProperties
<1>3. Len(g) \in Nat /\ Len(q) \in Nat /\ Len(w) \in Nat
  OBVIOUS
<1> HIDE DEF gq
<1>4. \A i \in 1 .. Len(gq \o w) : (gq \o w)[i] = Nth(g, q, w, i)
  BY <1>1, <1>2, <1>3 DEF gq, Nth
<1>5. Len(gq \o w) = Len(g) + Len(q) + Len(w)
  BY <1>1, <1>2 DEF gq
<1> QED
  BY <1>2, <1>4, <1>5 DEF gq, Spells

\* Sequences that spell the same are the same.
LEMMA SpeltAlike ==
  ASSUME NEW S, NEW h \in Seq(S), NEW k \in Seq(S), NEW g, NEW q, NEW w,
         Spells(h, g, q, w), Spells(k, g, q, w)
  PROVE  h = k
<1>1. Len(h) = Len(k) /\ \A i \in 1 .. Len(h) : h[i] = k[i]
  BY DEF Spells
<1> QED
  BY <1>1, SeqEqual

\* Without w, it is the beginning.
LEMMA SpellsBegin ==
  ASSUME NEW S, NEW h \in Seq(S), NEW a \in Seq(S), NEW g \in Seq(S), NEW q \in Seq(S),
         NEW w \in Seq(S), NEW e \in Seq(S), Len(e) = 0, Spells(h, g, q, w), Spells(a, g, q, e)
  PROVE  Begins(a, h)
<1>1. Len(g) \in Nat /\ Len(q) \in Nat /\ Len(w) \in Nat
  BY Lengths
<1>2. /\ Len(a) = Len(g) + Len(q) /\ Len(h) = Len(a) + Len(w)
      /\ Len(a) \in Nat /\ Len(h) \in Nat /\ Len(a) <= Len(h)
  BY <1>1 DEF Spells
<1>3. ASSUME NEW i \in 1 .. Len(a)
      PROVE  a[i] = h[i]
  <2>1. i \in 1 .. Len(h) /\ i <= Len(g) + Len(q)
    BY <1>2
  <2>2. a[i] = Nth(g, q, e, i) /\ h[i] = Nth(g, q, w, i)
    BY <2>1 DEF Spells
  <2> QED
    BY <2>1, <2>2 DEF Nth
<1> QED
  BY <1>2, <1>3 DEF Begins

\* The places of the elements, when one of the three grows or shrinks.
LEMMA WireGrowsAt ==
  ASSUME NEW g, NEW q, NEW w, NEW v, NEW h, NEW k, NEW e,
         Len(g) \in Nat, Len(q) \in Nat, Len(w) \in Nat,
         Grows(v, w, e), Grows(k, h, e), Spells(h, g, q, w)
  PROVE  Spells(k, g, q, v)
<1>1. Len(k) = Len(g) + Len(q) + Len(v) /\ Len(k) = Len(g) + Len(q) + Len(w) + 1
  BY DEF Grows, Spells
<1>2. ASSUME NEW i \in 1 .. Len(g) + Len(q) + Len(w) + 1
      PROVE  k[i] = Nth(g, q, v, i)
  <2>1. CASE i <= Len(g) + Len(q)
    <3>1. k[i] = h[i] /\ h[i] = Nth(g, q, w, i)
      BY <2>1 DEF Grows, Spells
    <3> QED
      BY <2>1, <3>1 DEF Nth
  <2>2. CASE i > Len(g) + Len(q) /\ i <= Len(g) + Len(q) + Len(w)
    <3>1. k[i] = h[i] /\ h[i] = Nth(g, q, w, i)
      BY <2>2 DEF Grows, Spells
    <3>2. i - Len(g) - Len(q) \in 1 .. Len(w)
      BY <2>2
    <3>3. v[i - Len(g) - Len(q)] = w[i - Len(g) - Len(q)]
      BY <3>2 DEF Grows
    <3> QED
      BY <2>2, <3>1, <3>3 DEF Nth
  <2>3. CASE i = Len(g) + Len(q) + Len(w) + 1
    <3>1. i - Len(g) - Len(q) = Len(w) + 1 /\ ~ i <= Len(g) /\ ~ i <= Len(g) + Len(q)
      BY <2>3
    <3>2. i = Len(h) + 1
      BY <2>3 DEF Spells
    <3>3. k[i] = e /\ v[Len(w) + 1] = e
      BY <3>2 DEF Grows
    <3> QED
      BY <3>1, <3>3 DEF Nth
  <2> QED
    BY <2>1, <2>2, <2>3
<1> QED
  BY <1>1, <1>2 DEF Spells

LEMMA WireMovesAt ==
  ASSUME NEW g, NEW q, NEW w, NEW p, NEW v, NEW h,
         Len(g) \in Nat, Len(q) \in Nat, Len(w) \in Nat,
         Grows(p, q, w[1]), Shrinks(v, w), Spells(h, g, q, w)
  PROVE  Spells(h, g, p, v)
<1>1. Len(h) = Len(g) + Len(p) + Len(v) /\ Len(p) = Len(q) + 1
  BY DEF Grows, Shrinks, Spells
<1>2. ASSUME NEW i \in 1 .. Len(h)
      PROVE  h[i] = Nth(g, p, v, i)
  <2>0. Len(h) = Len(g) + Len(q) + Len(w) /\ h[i] = Nth(g, q, w, i) /\ i \in Nat
    BY DEF Spells
  <2>1. CASE i <= Len(g)
    BY <2>0, <2>1 DEF Nth
  <2>2. CASE i > Len(g) /\ i <= Len(g) + Len(q)
    <3>1. i - Len(g) \in 1 .. Len(q)
      BY <2>0, <2>2
    <3>2. p[i - Len(g)] = q[i - Len(g)]
      BY <3>1 DEF Grows
    <3> QED
      BY <1>1, <2>0, <2>2, <3>2 DEF Nth
  <2>3. CASE i = Len(g) + Len(q) + 1
    <3>1. i - Len(g) - Len(q) = 1 /\ i - Len(g) = Len(q) + 1
      BY <2>3
    <3>2. p[Len(q) + 1] = w[1]
      BY DEF Grows
    <3> QED
      BY <1>1, <2>0, <2>3, <3>1, <3>2 DEF Nth
  <2>4. CASE i > Len(g) + Len(q) + 1
    <3>1. i - Len(g) - Len(p) \in 1 .. Len(w) - 1 /\ i - Len(g) - Len(q) = i - Len(g) - Len(p) + 1
      BY <1>1, <2>0, <2>4
    <3>2. v[i - Len(g) - Len(p)] = w[i - Len(g) - Len(p) + 1]
      BY <3>1 DEF Shrinks
    <3> QED
      BY <1>1, <2>0, <2>4, <3>1, <3>2 DEF Nth
  <2> QED
    BY <2>0, <2>1, <2>2, <2>3, <2>4
<1> QED
  BY <1>1, <1>2 DEF Spells

LEMMA QueueMovesAt ==
  ASSUME NEW g, NEW q, NEW w, NEW p, NEW v, NEW h,
         Len(g) \in Nat, Len(q) \in Nat, Len(w) \in Nat,
         Grows(p, g, q[1]), Shrinks(v, q), Spells(h, g, q, w)
  PROVE  Spells(h, p, v, w)
<1>1. Len(h) = Len(p) + Len(v) + Len(w) /\ Len(p) = Len(g) + 1 /\ Len(v) = Len(q) - 1
  BY DEF Grows, Shrinks, Spells
<1>2. ASSUME NEW i \in 1 .. Len(h)
      PROVE  h[i] = Nth(p, v, w, i)
  <2>0. Len(h) = Len(g) + Len(q) + Len(w) /\ h[i] = Nth(g, q, w, i) /\ i \in Nat /\ Len(q) >= 1
    BY DEF Spells, Shrinks
  <2>1. CASE i <= Len(g)
    <3>1. p[i] = g[i]
      BY <2>0, <2>1 DEF Grows
    <3> QED
      BY <1>1, <2>0, <2>1, <3>1 DEF Nth
  <2>2. CASE i = Len(g) + 1
    <3>1. i - Len(g) = 1 /\ p[i] = q[1]
      BY <2>2 DEF Grows
    <3> QED
      BY <1>1, <2>0, <2>2, <3>1 DEF Nth
  <2>3. CASE i > Len(g) + 1 /\ i <= Len(g) + Len(q)
    <3>1. i - Len(p) \in 1 .. Len(q) - 1 /\ i - Len(g) = i - Len(p) + 1
      BY <1>1, <2>0, <2>3
    <3>2. v[i - Len(p)] = q[i - Len(p) + 1]
      BY <3>1 DEF Shrinks
    <3> QED
      BY <1>1, <2>0, <2>3, <3>1, <3>2 DEF Nth
  <2>4. CASE i > Len(g) + Len(q)
    <3>1. i - Len(g) - Len(q) = i - Len(p) - Len(v)
      BY <1>1, <2>0
    <3> QED
      BY <1>1, <2>0, <2>4, <3>1 DEF Nth
  <2> QED
    BY <2>0, <2>1, <2>2, <2>3, <2>4
<1> QED
  BY <1>1, <1>2 DEF Spells

LEMMA QueueLosesAt ==
  ASSUME NEW g, NEW q, NEW w, NEW t, NEW h, NEW k,
         Len(g) \in Nat, Len(q) \in Nat, Len(w) \in Nat,
         Shrinks(t, q), Spells(h, g, q, w), Spells(k, g, t, w)
  PROVE  Skips(k, h, Len(g) + 1) /\ h[Len(g) + 1] = q[1]
<1>1. /\ Len(h) = Len(g) + Len(q) + Len(w) /\ Len(k) = Len(h) - 1
      /\ Len(t) = Len(q) - 1 /\ Len(q) >= 1
  BY DEF Shrinks, Spells
<1>2. ASSUME NEW i \in 1 .. Len(k)
      PROVE  k[i] = IF i < Len(g) + 1 THEN h[i] ELSE h[i + 1]
  <2>0. /\ k[i] = Nth(g, t, w, i) /\ h[i] = Nth(g, q, w, i) /\ h[i + 1] = Nth(g, q, w, i + 1)
        /\ i \in Nat /\ i >= 1
    <3>1. i \in 1 .. Len(h) /\ i + 1 \in 1 .. Len(h)
      BY <1>1
    <3> QED
      BY <1>1, <3>1 DEF Spells
  <2>1. CASE i <= Len(g)
    BY <2>0, <2>1 DEF Nth
  <2>2. CASE i > Len(g) /\ i <= Len(g) + Len(t)
    <3>1. i - Len(g) \in 1 .. Len(q) - 1 /\ i + 1 - Len(g) = i - Len(g) + 1
      BY <1>1, <2>0, <2>2
    <3>2. t[i - Len(g)] = q[i - Len(g) + 1]
      BY <3>1 DEF Shrinks
    <3>3. k[i] = t[i - Len(g)]
      BY <2>0, <2>2 DEF Nth
    <3>4. h[i + 1] = q[i + 1 - Len(g)]
      BY <1>1, <2>0, <2>2 DEF Nth
    <3> QED
      BY <2>0, <2>2, <3>1, <3>2, <3>3, <3>4
  <2>3. CASE i > Len(g) + Len(t)
    <3>1. i - Len(g) - Len(t) = i + 1 - Len(g) - Len(q)
      BY <1>1, <2>0
    <3>2. k[i] = w[i - Len(g) - Len(t)]
      BY <1>1, <2>0, <2>3 DEF Nth
    <3>3. h[i + 1] = w[i + 1 - Len(g) - Len(q)]
      BY <1>1, <2>0, <2>3 DEF Nth
    <3>4. ~ i < Len(g) + 1
      BY <1>1, <2>0, <2>3
    <3> QED
      BY <3>1, <3>2, <3>3, <3>4
  <2> QED
    BY <1>1, <2>0, <2>1, <2>2, <2>3
<1>3. h[Len(g) + 1] = q[1]
  <2>1. Len(g) + 1 \in 1 .. Len(h) /\ Len(g) + 1 - Len(g) = 1
    BY <1>1
  <2>2. Nth(g, q, w, Len(g) + 1) = q[1]
    BY <1>1, <2>1 DEF Nth
  <2> QED
    BY <2>1, <2>2 DEF Spells
<1> QED
  BY <1>1, <1>2, <1>3 DEF Skips

\* Another event on the wire is the last of what is heard.
LEMMA WireGrows ==
  ASSUME NEW g \in Seq(Posts), NEW q \in Seq(Posts), NEW w \in Seq(Posts), NEW e \in Posts
  PROVE  g \o q \o Append(w, e) = Append(g \o q \o w, e)
<1> DEFINE v == Append(w, e)
           h == g \o q \o w
           k == Append(h, e)
           m == g \o q \o v
<1>1. v \in Seq(Posts) /\ Grows(v, w, e)
  BY Appends
<1>2. Len(g) \in Nat /\ Len(q) \in Nat /\ Len(w) \in Nat
  BY Lengths
<1>3. h \in Seq(Posts) /\ Spells(h, g, q, w)
  BY Joined
<1> HIDE DEF h, v
<1>4. k \in Seq(Posts) /\ Grows(k, h, e)
  BY <1>3, Appends
<1>5. m \in Seq(Posts) /\ Spells(m, g, q, v)
  BY <1>1, Joined
<1> HIDE DEF k, m
<1>6. Spells(k, g, q, v)
  BY <1>1, <1>2, <1>3, <1>4, WireGrowsAt
<1>7. m = k
  BY <1>4, <1>5, <1>6, SpeltAlike
<1> QED
  BY <1>7 DEF h, k, m, v

\* From the wire into the queue.
LEMMA WireMovesTo ==
  ASSUME NEW g \in Seq(Posts), NEW q \in Seq(Posts), NEW w \in Seq(Posts), w # <<>>
  PROVE  /\ g \o Append(q, Head(w)) \o Tail(w) \in Seq(Posts)
         /\ Spells(g \o Append(q, Head(w)) \o Tail(w), g, q, w)
<1> DEFINE v == Tail(w)
           p == Append(q, Head(w))
           h == g \o q \o w
           m == g \o p \o v
<1>1. v \in Seq(Posts) /\ Shrinks(v, w) /\ Head(w) = w[1] /\ Head(w) \in Posts
  BY HeadAndTail
<1>2. p \in Seq(Posts) /\ Grows(p, q, w[1])
  BY <1>1, Appends
<1>3. Len(g) \in Nat /\ Len(q) \in Nat /\ Len(w) \in Nat
  BY Lengths
<1>4. h \in Seq(Posts) /\ Spells(h, g, q, w)
  BY Joined
<1> HIDE DEF h, v, p
<1>5. m \in Seq(Posts) /\ Spells(m, g, p, v)
  BY <1>1, <1>2, Joined
<1> HIDE DEF m
<1>6. Spells(h, g, p, v)
  BY <1>1, <1>2, <1>3, <1>4, WireMovesAt
<1>7. m = h
  BY <1>4, <1>5, <1>6, SpeltAlike
<1> QED
  BY <1>4, <1>5, <1>7 DEF m, v, p

LEMMA WireMoves ==
  ASSUME NEW g \in Seq(Posts), NEW q \in Seq(Posts), NEW w \in Seq(Posts), w # <<>>
  PROVE  g \o Append(q, Head(w)) \o Tail(w) = g \o q \o w
<1>1. g \o q \o w \in Seq(Posts) /\ Spells(g \o q \o w, g, q, w)
  BY Joined
<1>2. /\ g \o Append(q, Head(w)) \o Tail(w) \in Seq(Posts)
      /\ Spells(g \o Append(q, Head(w)) \o Tail(w), g, q, w)
  BY WireMovesTo
<1> QED
  BY <1>1, <1>2, SpeltAlike

\* From the queue to the client.
LEMMA QueueMoves ==
  ASSUME NEW g \in Seq(Posts), NEW q \in Seq(Posts), NEW w \in Seq(Posts), q # <<>>
  PROVE  Append(g, Head(q)) \o Tail(q) \o w = g \o q \o w
<1> DEFINE v == Tail(q)
           p == Append(g, Head(q))
           h == g \o q \o w
           m == p \o v \o w
<1>1. v \in Seq(Posts) /\ Shrinks(v, q) /\ Head(q) = q[1] /\ Head(q) \in Posts
  BY HeadAndTail
<1>2. p \in Seq(Posts) /\ Grows(p, g, q[1])
  BY <1>1, Appends
<1>3. Len(g) \in Nat /\ Len(q) \in Nat /\ Len(w) \in Nat
  BY Lengths
<1>4. h \in Seq(Posts) /\ Spells(h, g, q, w)
  BY Joined
<1> HIDE DEF h, v, p
<1>5. m \in Seq(Posts) /\ Spells(m, p, v, w)
  BY <1>1, <1>2, Joined
<1> HIDE DEF m
<1>6. Spells(h, p, v, w)
  BY <1>1, <1>2, <1>3, <1>4, QueueMovesAt
<1>7. m = h
  BY <1>4, <1>5, <1>6, SpeltAlike
<1> QED
  BY <1>7 DEF h, m, v, p

\* A full queue loses its oldest event, which is not the last one heard.
LEMMA QueueLoses ==
  ASSUME NEW g \in Seq(Posts), NEW q \in Seq(Posts), NEW w \in Seq(Posts), q # <<>>, w # <<>>
  PROVE  LET h == g \o q \o w
             k == g \o Append(Tail(q), Head(w)) \o Tail(w)
         IN  /\ k \in Seq(Posts) /\ Len(g) + 1 \in 1 .. Len(h) - 1
             /\ Skips(k, h, Len(g) + 1) /\ h[Len(g) + 1] = Head(q)
<1> DEFINE t == Tail(q)
           h == g \o q \o w
           k == g \o Append(t, Head(w)) \o Tail(w)
<1>1. t \in Seq(Posts) /\ Shrinks(t, q) /\ Head(q) = q[1] /\ Shrinks(Tail(w), w)
  BY HeadAndTail
<1>2. Len(g) \in Nat /\ Len(q) \in Nat /\ Len(w) \in Nat
  BY Lengths
<1>3. h \in Seq(Posts) /\ Spells(h, g, q, w)
  BY Joined
<1>4. k \in Seq(Posts) /\ Spells(k, g, t, w)
  BY <1>1, WireMovesTo
<1> HIDE DEF t, h, k
<1>5. Skips(k, h, Len(g) + 1) /\ h[Len(g) + 1] = q[1]
  BY <1>1, <1>2, <1>3, <1>4, QueueLosesAt
<1>6. Len(g) + 1 \in 1 .. Len(h) - 1
  BY <1>1, <1>2, <1>3 DEF Spells, Shrinks
<1> QED
  BY <1>1, <1>4, <1>5, <1>6 DEF h, k, t

----------------------------------------------------------------------------
(* A client and what was published                                         *)

HeardBy(c) == c.got \o c.queue \o c.wire

\* A client that listens has in hand, or on the way, what was published since it
\* subscribed, up to the end of its reader, but what was dropped; what came before
\* that, it found listed if it listed after it subscribed.
Fits(c, s) ==
    /\ c.since \in 0 .. Len(s)
    /\ c.dropped \subseteq ToSet(s)
    /\ c.listens_first => c.on /\ \A i \in 1 .. c.since : s[i] \in c.listed
    /\ ~ c.on => c.got = <<>> /\ c.queue = <<>>
    /\ ~ c.reads => c.wire = <<>>
    /\ c.reads => c.on /\ Follows(HeardBy(c), s, c.since, c.dropped)
    /\ c.on /\ ~ c.reads => \E p \in Seq(Posts) : /\ Begins(p, s) /\ c.since <= Len(p)
                                                 /\ Follows(HeardBy(c), p, c.since, c.dropped)

LEMMA HeardType ==
  ASSUME NEW c \in ClientType
  PROVE  HeardBy(c) \in Seq(Posts)
<1>1. c.got \in Seq(Posts) /\ c.queue \in Seq(Posts) /\ c.wire \in Seq(Posts)
  BY DEF ClientType
<1> QED
  BY <1>1, Joined DEF HeardBy

\* The same of a client's record.
InTurn(g, q, w) == g \o q \o w

LEMMA InTurnGrows ==
  ASSUME NEW g \in Seq(Posts), NEW q \in Seq(Posts), NEW w \in Seq(Posts), NEW e \in Posts
  PROVE  InTurn(g, q, Append(w, e)) = Append(InTurn(g, q, w), e)
BY WireGrows, Zenon DEF InTurn

LEMMA InTurnMoves ==
  ASSUME NEW g \in Seq(Posts), NEW q \in Seq(Posts), NEW w \in Seq(Posts), w # <<>>
  PROVE  InTurn(g, Append(q, Head(w)), Tail(w)) = InTurn(g, q, w)
BY WireMoves, Zenon DEF InTurn

LEMMA HeardGrows ==
  ASSUME NEW c, c.got \in Seq(Posts), c.queue \in Seq(Posts), c.wire \in Seq(Posts),
         NEW e \in Posts, NEW d, d.got = c.got, d.queue = c.queue, d.wire = Append(c.wire, e)
  PROVE  HeardBy(d) = Append(HeardBy(c), e)
<1>1. HeardBy(d) = InTurn(c.got, c.queue, Append(c.wire, e))
      /\ HeardBy(c) = InTurn(c.got, c.queue, c.wire)
  BY Zenon DEF HeardBy, InTurn
<1>2. InTurn(c.got, c.queue, Append(c.wire, e)) = Append(InTurn(c.got, c.queue, c.wire), e)
  BY InTurnGrows, Zenon
<1> QED
  BY <1>1, <1>2, Zenon

LEMMA HeardMoves ==
  ASSUME NEW c, c.got \in Seq(Posts), c.queue \in Seq(Posts), c.wire \in Seq(Posts),
         c.wire # <<>>, NEW d, d.got = c.got, d.queue = Append(c.queue, Head(c.wire)),
         d.wire = Tail(c.wire)
  PROVE  HeardBy(d) = HeardBy(c)
<1>1. HeardBy(d) = InTurn(c.got, Append(c.queue, Head(c.wire)), Tail(c.wire))
      /\ HeardBy(c) = InTurn(c.got, c.queue, c.wire)
  BY Zenon DEF HeardBy, InTurn
<1>2. InTurn(c.got, Append(c.queue, Head(c.wire)), Tail(c.wire)) = InTurn(c.got, c.queue, c.wire)
  BY InTurnMoves, Zenon
<1> QED
  BY <1>1, <1>2, Zenon

LEMMA FitsPublished ==
  ASSUME NEW c \in ClientType, NEW s \in Seq(Posts), NEW r \in Posts,
         r \notin ToSet(s), Fits(c, s)
  PROVE  /\ c.reads => [c EXCEPT !.wire = Append(@, r)] \in ClientType
                       /\ Fits([c EXCEPT !.wire = Append(@, r)], Append(s, r))
         /\ ~ c.reads => Fits(c, Append(s, r))
<1> DEFINE d == [c EXCEPT !.wire = Append(@, r)]
           t == Append(s, r)
<1>1. /\ c.got \in Seq(Posts) /\ c.queue \in Seq(Posts) /\ c.wire \in Seq(Posts)
  BY DEF ClientType
<1>2. /\ d.on = c.on /\ d.reads = c.reads /\ d.listens_first = c.listens_first
      /\ d.listed = c.listed /\ d.since = c.since /\ d.got = c.got /\ d.queue = c.queue
      /\ d.dropped = c.dropped /\ d.wire = Append(c.wire, r) /\ d \in ClientType
  <2>1. Append(c.wire, r) \in Seq(Posts)
    BY <1>1
  <2> QED
    BY <2>1 DEF ClientType
<1>3. /\ Len(t) = Len(s) + 1 /\ Len(s) \in Nat /\ \A i \in 1 .. Len(s) : t[i] = s[i]
      /\ ToSet(t) = ToSet(s) \union {r}
  BY Grown
<1> HIDE DEF d, t
<1>4. ASSUME NEW e, e.since = c.since, e.dropped = c.dropped, e.listed = c.listed,
             e.listens_first = c.listens_first, e.on = c.on
      PROVE  /\ e.since \in 0 .. Len(t) /\ e.dropped \subseteq ToSet(t)
             /\ e.listens_first => e.on /\ \A i \in 1 .. e.since : t[i] \in e.listed
  <2>1. c.since \in 0 .. Len(s) /\ c.since \in 0 .. Len(t)
    BY <1>3 DEF Fits
  <2>2. c.dropped \subseteq ToSet(t)
    BY <1>3 DEF Fits
  <2>3. c.listens_first => c.on /\ \A i \in 1 .. c.since : t[i] \in c.listed
    BY <1>3, <2>1 DEF Fits
  <2> QED
    BY <1>4, <2>1, <2>2, <2>3
<1>5. CASE ~ c.reads
  <2>1. ASSUME NEW p \in Seq(Posts), Begins(p, s)
        PROVE  Begins(p, t)
    BY <1>3, <2>1, Lengths DEF Begins
  <2>2. c.on => \E p \in Seq(Posts) : /\ Begins(p, t) /\ c.since <= Len(p)
                                      /\ Follows(HeardBy(c), p, c.since, c.dropped)
    BY <1>5, <2>1 DEF Fits
  <2>3. /\ ~ c.on => c.got = <<>> /\ c.queue = <<>>
        /\ c.wire = <<>>
    BY <1>5 DEF Fits
  <2>4. Fits(c, t)
    BY <1>4, <1>5, <2>2, <2>3 DEF Fits
  <2> QED
    BY <1>5, <2>4 DEF t
<1>6. CASE c.reads
  <2>1. HeardBy(d) = Append(HeardBy(c), r)
    BY <1>1, <1>2, HeardGrows
  <2>2. Follows(HeardBy(c), s, c.since, c.dropped) /\ c.since \in 0 .. Len(s) /\ r \notin c.dropped
    BY <1>6 DEF Fits
  <2>3. HeardBy(c) \in Seq(Posts)
    BY HeardType
  <2>4. Follows(Append(HeardBy(c), r), t, c.since, c.dropped)
    BY <2>2, <2>3, FollowsNext DEF t
  <2>5. Fits(d, t)
    <3>1. c.on
      BY <1>6 DEF Fits
    <3> QED
      BY <1>2, <1>4, <1>6, <2>1, <2>4, <3>1 DEF Fits
  <2> QED
    BY <1>2, <1>6, <2>5 DEF d, t
<1> QED
  BY <1>5, <1>6

\* What stays of Fits while the client neither subscribes nor lists.
LEMMA FitsMoved ==
  ASSUME NEW c \in ClientType, NEW d \in ClientType, NEW s \in Seq(Posts), Fits(c, s), c.on,
         d.on = c.on, d.reads = c.reads, c.reads, d.listens_first = c.listens_first,
         d.listed = c.listed, d.since = c.since,
         d.dropped \subseteq ToSet(s), Follows(HeardBy(d), s, d.since, d.dropped)
  PROVE  Fits(d, s)
  BY DEF Fits

LEMMA FitsRead ==
  ASSUME NEW c \in ClientType, NEW s \in Seq(Posts), IsInjective(s), Fits(c, s), c.wire # <<>>
  PROVE  LET d == [c EXCEPT !.wire = Tail(@), !.queue = Append(@, Head(c.wire))]
             e == [c EXCEPT !.wire = Tail(@), !.queue = Append(Tail(@), Head(c.wire)),
                            !.dropped = @ \union {Head(c.queue)}]
         IN  /\ d \in ClientType /\ Fits(d, s)
             /\ c.queue # <<>> => e \in ClientType /\ Fits(e, s)
<1> DEFINE d == [c EXCEPT !.wire = Tail(@), !.queue = Append(@, Head(c.wire))]
           e == [c EXCEPT !.wire = Tail(@), !.queue = Append(Tail(@), Head(c.wire)),
                          !.dropped = @ \union {Head(c.queue)}]
<1>1. c.got \in Seq(Posts) /\ c.queue \in Seq(Posts) /\ c.wire \in Seq(Posts)
  BY DEF ClientType
<1>2. Tail(c.wire) \in Seq(Posts) /\ Head(c.wire) \in Posts
  BY <1>1, HeadAndTail
<1>3. /\ c.on /\ c.reads /\ c.since \in 0 .. Len(s)
      /\ Follows(HeardBy(c), s, c.since, c.dropped)
  BY DEF Fits
<1>4. d \in ClientType /\ Fits(d, s)
  <2>1. Append(c.queue, Head(c.wire)) \in Seq(Posts)
    BY <1>1, <1>2
  <2>2. /\ d \in ClientType
        /\ d.on = c.on /\ d.reads = c.reads /\ d.listens_first = c.listens_first
        /\ d.listed = c.listed /\ d.since = c.since /\ d.got = c.got /\ d.dropped = c.dropped
        /\ d.wire = Tail(c.wire) /\ d.queue = Append(c.queue, Head(c.wire))
    BY <1>2, <2>1 DEF ClientType
  <2>3. HeardBy(d) = HeardBy(c)
    BY <1>1, <2>2, HeardMoves
  <2>4. d.dropped \subseteq ToSet(s)
    BY <2>2 DEF Fits
  <2> HIDE DEF d
  <2> QED
    BY <1>3, <2>2, <2>3, <2>4, FitsMoved
<1>5. ASSUME c.queue # <<>>
      PROVE  e \in ClientType /\ Fits(e, s)
  <2>1. Tail(c.queue) \in Seq(Posts) /\ Head(c.queue) \in Posts
    BY <1>1, <1>5, HeadAndTail
  <2>2. Append(Tail(c.queue), Head(c.wire)) \in Seq(Posts)
    BY <1>2, <2>1
  <2>3. /\ e \in ClientType
        /\ e.on = c.on /\ e.reads = c.reads /\ e.listens_first = c.listens_first
        /\ e.listed = c.listed /\ e.since = c.since /\ e.got = c.got /\ e.dropped = c.dropped \union {Head(c.queue)}
        /\ e.wire = Tail(c.wire) /\ e.queue = Append(Tail(c.queue), Head(c.wire))
    BY <1>2, <2>1, <2>2 DEF ClientType
  <2> DEFINE h == HeardBy(c)
             g == HeardBy(e)
             k == Len(c.got) + 1
  <2> HIDE DEF e
  <2>4. /\ g \in Seq(Posts) /\ k \in 1 .. Len(h) - 1 /\ Skips(g, h, k) /\ h[k] = Head(c.queue)
    <3> DEFINE m == c.got \o Append(Tail(c.queue), Head(c.wire)) \o Tail(c.wire)
               o == c.got \o c.queue \o c.wire
    <3>1. /\ m \in Seq(Posts) /\ Len(c.got) + 1 \in 1 .. Len(o) - 1
          /\ Skips(m, o, Len(c.got) + 1) /\ o[Len(c.got) + 1] = Head(c.queue)
      BY <1>1, <1>5, QueueLoses
    <3>2. g = m /\ h = o
      BY <2>3 DEF HeardBy
    <3> QED
      BY <3>1, <3>2
  <2>5. h \in Seq(Posts)
    BY HeardType
  <2> HIDE DEF h, g, k
  <2>6. Follows(g, s, c.since, c.dropped \union {h[k]})
    BY <1>3, <2>4, <2>5, FollowsLoses DEF h
  <2>7. h[k] \in ToSet(s)
    <3>1. h[k] \in ToSet(h)
      <4>1. k \in DOMAIN h
        BY <2>4, <2>5
      <4> QED
        BY <4>1 DEF ToSet
    <3>2. h[k] \in {s[i] : i \in c.since + 1 .. Len(s)}
      BY <1>3, <3>1 DEF Follows, h
    <3>3. PICK i \in c.since + 1 .. Len(s) : h[k] = s[i]
      BY <3>2
    <3>4. i \in DOMAIN s
      BY <1>3
    <3> QED
      BY <3>3, <3>4 DEF ToSet
  <2>8. e.dropped \subseteq ToSet(s)
    BY <2>3, <2>4, <2>7 DEF Fits
  <2>9. Follows(HeardBy(e), s, e.since, e.dropped)
    BY <2>3, <2>4, <2>6 DEF g
  <2> QED
    BY <1>3, <2>3, <2>8, <2>9, FitsMoved
<1> QED
  BY <1>4, <1>5

LEMMA FitsReceive ==
  ASSUME NEW c \in ClientType, NEW s \in Seq(Posts), Fits(c, s), c.queue # <<>>
  PROVE  LET d == [c EXCEPT !.got = Append(@, Head(c.queue)), !.queue = Tail(c.queue)]
         IN  d \in ClientType /\ Fits(d, s)
<1> DEFINE d == [c EXCEPT !.got = Append(@, Head(c.queue)), !.queue = Tail(c.queue)]
<1>1. c.got \in Seq(Posts) /\ c.queue \in Seq(Posts) /\ c.wire \in Seq(Posts)
  BY DEF ClientType
<1>2. Tail(c.queue) \in Seq(Posts) /\ Head(c.queue) \in Posts
  BY <1>1, HeadAndTail
<1>3. c.on
  BY DEF Fits
<1>4. Append(c.got, Head(c.queue)) \in Seq(Posts)
  BY <1>1, <1>2
<1>5. /\ d \in ClientType
      /\ d.on = c.on /\ d.reads = c.reads /\ d.listens_first = c.listens_first
      /\ d.listed = c.listed /\ d.since = c.since /\ d.got = Append(c.got, Head(c.queue)) /\ d.dropped = c.dropped
      /\ d.wire = c.wire /\ d.queue = Tail(c.queue)
  BY <1>2, <1>4 DEF ClientType
<1>6. HeardBy(d) = HeardBy(c)
  <2>1. Append(c.got, Head(c.queue)) \o Tail(c.queue) \o c.wire = c.got \o c.queue \o c.wire
    BY <1>1, QueueMoves
  <2> QED
    BY <1>5, <2>1 DEF HeardBy
<1>7. d.dropped \subseteq ToSet(s)
  BY <1>5 DEF Fits
<1> HIDE DEF d
<1>8. Fits(d, s)
  BY <1>3, <1>5, <1>6, <1>7 DEF Fits
<1> QED
  BY <1>5, <1>8 DEF d

\* The reader ends, and what is on the wire is lost with it.
LEMMA FitsEnds ==
  ASSUME NEW c \in ClientType, NEW s \in Seq(Posts), IsInjective(s), Fits(c, s), c.reads
  PROVE  LET d == [c EXCEPT !.reads = FALSE, !.wire = <<>>]
         IN  d \in ClientType /\ Fits(d, s) /\ d.queue = c.queue
<1> DEFINE d == [c EXCEPT !.reads = FALSE, !.wire = <<>>]
           h == HeardBy(c)
           a == HeardBy(d)
<1>1. c.got \in Seq(Posts) /\ c.queue \in Seq(Posts) /\ c.wire \in Seq(Posts)
  BY DEF ClientType
<1>2. /\ d \in ClientType
      /\ d.on = c.on /\ ~ d.reads /\ d.listens_first = c.listens_first
      /\ d.listed = c.listed /\ d.since = c.since /\ d.got = c.got /\ d.dropped = c.dropped
      /\ d.wire = <<>> /\ d.queue = c.queue
  <2>1. <<>> \in Seq(Posts) /\ FALSE \in BOOLEAN
    OBVIOUS
  <2> QED
    BY <2>1 DEF ClientType
<1>3. /\ c.on /\ c.since \in 0 .. Len(s) /\ Follows(h, s, c.since, c.dropped)
  BY DEF Fits
<1>4. /\ h = c.got \o c.queue \o c.wire /\ a = c.got \o c.queue \o <<>>
  BY <1>2 DEF HeardBy
<1> HIDE DEF d, h, a
<1>0. h \in Seq(Posts) /\ a \in Seq(Posts)
  BY <1>2, HeardType DEF h, a
<1>5. Spells(h, c.got, c.queue, c.wire) /\ Spells(a, c.got, c.queue, <<>>)
  <2>1. <<>> \in Seq(Posts)
    OBVIOUS
  <2> QED
    BY <1>1, <1>4, <2>1, Joined
<1>6. Begins(a, h)
  <2>1. <<>> \in Seq(Posts) /\ Len(<<>>) = 0
    OBVIOUS
  <2> QED
    BY <1>0, <1>1, <1>5, <2>1, SpellsBegin
<1>7. \E p \in Seq(Posts) : /\ Begins(p, s) /\ c.since <= Len(p)
                            /\ Follows(a, p, c.since, c.dropped)
  BY <1>0, <1>3, <1>6, FollowsBegins
<1>8. Fits(d, s)
  BY <1>2, <1>3, <1>7 DEF Fits, a
<1> QED
  BY <1>2, <1>8 DEF d

----------------------------------------------------------------------------
(* The inductive invariant                                                 *)

\* How far a post has come, and what is stored of it by then.
PostFits(r) ==
    /\ post[r] \in {"new", "publish"} => r \notin ToSet(published)
    /\ post[r] \notin {"new", "failed"} => r \in messages
    /\ post[r] \notin {"new", "publish", "failed"} => r \in ToSet(published)
    /\ post[r] \in {"audit", "audit_wait", "ok"} => r \in audited

PostsFit == \A r \in Posts : PostFits(r)
Stored == ToSet(published) \subseteq messages
ClientsFit == \A x \in Clients : Fits(client[x], published)

Sound == TypeOK /\ StartsAlone /\ PostsFit /\ Stored /\ ClientsFit

\* TypeOK without the event bus and the clients, in parts.
PostTypes ==
    /\ post \in [Posts -> PostPc]
    /\ messages \subseteq Posts
    /\ audited \subseteq Posts
    /\ published \in Seq(Posts) /\ IsInjective(published)

ClientTypes ==
    /\ client \in [Clients -> ClientType]
    /\ \A x \in Clients : Len(client[x].queue) <= Cap

LEMMA TypeParts == TypeOK <=> KafkaTypeOK /\ PostTypes /\ ClientTypes
  BY DEF TypeOK, PostTypes, ClientTypes

LEMMA SoundParts ==
  Sound <=> KafkaSound /\ PostTypes /\ ClientTypes /\ PostsFit /\ Stored /\ ClientsFit
  BY TypeParts DEF Sound, KafkaSound

LEMMA KafkaAlone ==
  ASSUME KafkaSound, UNCHANGED kafkaVars
  PROVE  KafkaSound'
<1>1. KafkaTypeOK'
  BY DEF KafkaSound, KafkaTypeOK, kafkaVars
<1>2. StartsAlone'
  BY DEF KafkaSound, StartsAlone, kafkaVars
<1> QED
  BY <1>1, <1>2 DEF KafkaSound

\* A call outside the event bus that raises counts, and no more.
LEMMA ErrorAlone ==
  ASSUME KafkaSound, Error, UNCHANGED <<producer, lock, caller, open>>
  PROVE  KafkaSound'
<1>1. KafkaTypeOK'
  BY KafkaAssumption DEF KafkaSound, KafkaTypeOK, Error
<1>2. StartsAlone'
  BY DEF KafkaSound, StartsAlone
<1> QED
  BY <1>1, <1>2 DEF KafkaSound

LEMMA ClientsAlone ==
  ASSUME ClientTypes, ClientsFit, UNCHANGED <<client, published>>
  PROVE  ClientTypes' /\ ClientsFit'
  BY DEF ClientTypes, ClientsFit

LEMMA PostsAlone ==
  ASSUME PostTypes, PostsFit, Stored, UNCHANGED <<post, messages, audited, published>>
  PROVE  PostTypes' /\ PostsFit' /\ Stored'
  BY DEF PostTypes, PostsFit, PostFits, Stored

\* A step of r that publishes nothing.
LEMMA PostMoves ==
  ASSUME PostTypes, PostsFit, Stored, NEW r \in Posts, NEW pc \in PostPc, Step(r, pc),
         messages \subseteq messages', messages' \subseteq Posts,
         audited \subseteq audited', audited' \subseteq Posts,
         published' = published,
         pc \in {"new", "publish"} => post[r] \in {"new", "publish"},
         pc \notin {"new", "failed"} => r \in messages',
         pc \notin {"new", "publish", "failed"} => r \in ToSet(published),
         pc \in {"audit", "audit_wait", "ok"} => r \in audited'
  PROVE  PostTypes' /\ PostsFit' /\ Stored'
<1>1. post' \in [Posts -> PostPc] /\ post'[r] = pc /\ \A q \in Posts \ {r} : post'[q] = post[q]
  BY DEF PostTypes, Step
<1>2. PostTypes'
  BY <1>1 DEF PostTypes
<1>3. ASSUME NEW q \in Posts
      PROVE  PostFits(q)'
  <2>1. PostFits(q)
    BY DEF PostsFit
  <2>2. CASE q = r
    BY <1>1, <2>1, <2>2 DEF PostFits
  <2>3. CASE q # r
    BY <1>1, <2>1, <2>3 DEF PostFits
  <2> QED
    BY <2>2, <2>3
<1>4. Stored'
  BY DEF Stored
<1> QED
  BY <1>2, <1>3, <1>4 DEF PostsFit

\* A step of one client.
LEMMA ClientMoves ==
  ASSUME ClientTypes, ClientsFit, NEW x \in Clients, NEW d \in ClientType,
         client' = [client EXCEPT ![x] = d], Len(d.queue) <= Cap,
         Fits(d, published), published' = published
  PROVE  ClientTypes' /\ ClientsFit'
<1>1. client' \in [Clients -> ClientType] /\ client'[x] = d
      /\ \A y \in Clients \ {x} : client'[y] = client[y]
  BY DEF ClientTypes
<1>2. ClientTypes'
  BY <1>1 DEF ClientTypes
<1>3. ClientsFit'
  BY <1>1 DEF ClientsFit
<1> QED
  BY <1>2, <1>3

\* Nobody is left out when an event is published.
LEMMA PublishedToAll ==
  ASSUME PostTypes, ClientTypes, PostsFit, Stored, ClientsFit, NEW r \in Posts, Publish(r)
  PROVE  PostTypes' /\ ClientTypes' /\ PostsFit' /\ Stored' /\ ClientsFit'
<1>1. post[r] = "publish" /\ r \notin ToSet(published) /\ r \in messages
  BY DEF Publish, PostsFit, PostFits
<1>2. /\ published \in Seq(Posts) /\ IsInjective(published)
      /\ published' = Append(published, r)
  BY DEF Publish, PostTypes
<1>3. /\ published' \in Seq(Posts) /\ IsInjective(published')
      /\ ToSet(published') = ToSet(published) \union {r}
  BY <1>1, <1>2, Grown, GrownInjective
<1>4. /\ post' \in [Posts -> PostPc] /\ post'[r] = "kafka"
      /\ \A q \in Posts \ {r} : post'[q] = post[q]
  BY DEF Publish, PostTypes, Step, PostPc
<1>5. PostTypes'
  BY <1>3, <1>4 DEF Publish, PostTypes
<1>6. ASSUME NEW q \in Posts
      PROVE  PostFits(q)'
  <2>1. PostFits(q) /\ messages' = messages /\ audited' = audited
    BY DEF PostsFit, Publish
  <2>2. CASE q = r
    BY <1>1, <1>3, <1>4, <2>1, <2>2 DEF PostFits
  <2>3. CASE q # r
    BY <1>3, <1>4, <2>1, <2>3 DEF PostFits
  <2> QED
    BY <2>2, <2>3
<1>7. Stored'
  BY <1>1, <1>3 DEF Stored, Publish
<1>8. ASSUME NEW x \in Clients
      PROVE  /\ client'[x] \in ClientType /\ Len(client'[x].queue) <= Cap
             /\ Fits(client'[x], published')
  <2>1. client[x] \in ClientType /\ Len(client[x].queue) <= Cap /\ Fits(client[x], published)
    BY DEF ClientTypes, ClientsFit
  <2>2. CASE client[x].reads
    <3>1. client'[x] = [client[x] EXCEPT !.wire = Append(@, r)]
      BY <2>2 DEF Publish
    <3>2. client'[x] \in ClientType /\ Fits(client'[x], published')
      BY <1>1, <1>2, <2>1, <2>2, <3>1, FitsPublished
    <3>3. client'[x].queue = client[x].queue
      BY <2>1, <3>1 DEF ClientType
    <3> QED
      BY <2>1, <3>2, <3>3
  <2>3. CASE ~ client[x].reads
    <3>1. client'[x] = client[x]
      BY <2>3 DEF Publish
    <3>2. Fits(client[x], published')
      BY <1>1, <1>2, <2>1, <2>3, FitsPublished
    <3> QED
      BY <2>1, <3>1, <3>2
  <2> QED
    BY <2>2, <2>3
<1>9. ClientTypes'
  <2>1. client' = [x \in Clients |-> client'[x]]
    BY DEF Publish
  <2> QED
    BY <1>8, <2>1 DEF ClientTypes
<1>10. ClientsFit'
  BY <1>8 DEF ClientsFit
<1> QED
  BY <1>5, <1>6, <1>7, <1>9, <1>10 DEF PostsFit

LEMMA AwayFits ==
  ASSUME NEW s \in Seq(Posts)
  PROVE  Away \in ClientType /\ Len(Away.queue) <= Cap /\ Fits(Away, s)
<1>1. Away \in ClientType
  BY DEF Away, ClientType
<1>2. Len(Away.queue) <= Cap
  BY ChatAssumption DEF Away
<1>3. 0 \in 0 .. Len(s)
  BY Lengths
<1> QED
  BY <1>1, <1>2, <1>3 DEF Away, Fits

LEMMA ListSound ==
  ASSUME PostTypes, ClientTypes, Stored, ClientsFit, NEW x \in Clients, List(x)
  PROVE  ClientTypes' /\ ClientsFit'
<1> DEFINE c == client[x]
           d == [c EXCEPT !.listed = messages, !.listens_first = c.on]
<1>1. c \in ClientType /\ Len(c.queue) <= Cap /\ Fits(c, published) /\ messages \subseteq Posts
  BY DEF ClientTypes, ClientsFit, PostTypes
<1>2. client' = [client EXCEPT ![x] = d] /\ published' = published
  BY DEF List, ClientTypes
<1>3. /\ d \in ClientType
      /\ d.on = c.on /\ d.reads = c.reads /\ d.listens_first = c.on /\ d.listed = messages /\ d.since = c.since
      /\ d.got = c.got /\ d.queue = c.queue /\ d.wire = c.wire /\ d.dropped = c.dropped
  BY <1>1 DEF ClientType
<1> HIDE DEF c, d
<1>4. \A i \in 1 .. d.since : published[i] \in d.listed
  <2>1. ASSUME NEW i \in 1 .. d.since
        PROVE  i \in DOMAIN published
    BY <1>1, <1>3 DEF Fits, PostTypes
  <2> QED
    BY <1>3, <2>1 DEF Stored, ToSet
<1>5. HeardBy(d) = HeardBy(c)
  BY <1>3 DEF HeardBy
<1>6. Fits(d, published)
  BY <1>1, <1>3, <1>4, <1>5 DEF Fits
<1> QED
  BY <1>1, <1>2, <1>3, <1>6, ClientMoves

LEMMA SubscribeSound ==
  ASSUME PostTypes, ClientTypes, ClientsFit, NEW x \in Clients, Subscribe(x)
  PROVE  ClientTypes' /\ ClientsFit'
<1> DEFINE c == client[x]
           n == Len(published)
           d == [c EXCEPT !.on = TRUE, !.reads = TRUE, !.since = n]
<1>1. c \in ClientType /\ Len(c.queue) <= Cap /\ Fits(c, published) /\ ~ c.on
  BY DEF ClientTypes, ClientsFit, Subscribe
<1>2. client' = [client EXCEPT ![x] = d] /\ published' = published /\ n \in Nat
  BY Lengths DEF Subscribe, ClientTypes, PostTypes
<1>3. /\ d \in ClientType
      /\ d.on /\ d.reads /\ d.listens_first = c.listens_first
      /\ d.listed = c.listed /\ d.since = n
      /\ d.got = c.got /\ d.queue = c.queue /\ d.wire = c.wire /\ d.dropped = c.dropped
  BY <1>1, <1>2 DEF ClientType
<1> HIDE DEF c, d
<1>4. d.got = <<>> /\ d.queue = <<>> /\ d.wire = <<>> /\ ~ d.listens_first
  BY <1>1, <1>3 DEF Fits
<1>5. HeardBy(d) = <<>>
  BY <1>4 DEF HeardBy
<1>6. Follows(<<>>, published, n, d.dropped)
  <2>1. n + 1 .. n = {}
    BY <1>2
  <2>2. ToSet(<<>>) = {}
    BY DEF ToSet
  <2> QED
    BY <1>2, <2>1, <2>2 DEF Follows
<1> HIDE DEF n
<1>7. n \in 0 .. Len(published)
  BY <1>2 DEF n
<1>8. d.dropped \subseteq ToSet(published)
  BY <1>1, <1>3 DEF Fits
<1>9. Fits(d, published)
  BY <1>3, <1>4, <1>5, <1>6, <1>7, <1>8 DEF Fits
<1> QED
  BY <1>1, <1>2, <1>3, <1>9, ClientMoves

LEMMA ReadSound ==
  ASSUME PostTypes, ClientTypes, ClientsFit, NEW x \in Clients, Read(x)
  PROVE  ClientTypes' /\ ClientsFit'
<1> DEFINE c == client[x]
           d == [c EXCEPT !.wire = Tail(@), !.queue = Append(@, Head(c.wire))]
           e == [c EXCEPT !.wire = Tail(@), !.queue = Append(Tail(@), Head(c.wire)),
                          !.dropped = @ \union {Head(c.queue)}]
<1>1. /\ c \in ClientType /\ Len(c.queue) <= Cap /\ Fits(c, published)
      /\ c.wire # <<>> /\ published' = published
  BY DEF ClientTypes, ClientsFit, Read
<1>2. published \in Seq(Posts) /\ IsInjective(published)
  BY DEF PostTypes
<1>3. c.queue \in Seq(Posts) /\ c.wire \in Seq(Posts) /\ Len(c.queue) \in Nat
  BY <1>1, Lengths DEF ClientType
<1>4. Head(c.wire) \in Posts
  BY <1>1, <1>3, HeadAndTail
<1>5. CASE Len(c.queue) < Cap
  <2>1. client' = [client EXCEPT ![x] = d]
    BY <1>5 DEF Read
  <2>2. d \in ClientType /\ Fits(d, published)
    BY <1>1, <1>2, FitsRead
  <2>3. d.queue = Append(c.queue, Head(c.wire))
    BY <1>1 DEF ClientType
  <2>4. Len(d.queue) <= Cap
    BY <1>3, <1>4, <1>5, <2>3, ChatAssumption
  <2> HIDE DEF d
  <2> QED
    BY <1>1, <2>1, <2>2, <2>4, ClientMoves
<1>6. CASE ~ Len(c.queue) < Cap
  <2>1. client' = [client EXCEPT ![x] = e]
    BY <1>6 DEF Read
  <2>2. c.queue # <<>>
    <3>1. Len(c.queue) # 0
      BY <1>3, <1>6, ChatAssumption, SMTT(30)
    <3> QED
      BY <3>1
  <2>3. e \in ClientType /\ Fits(e, published)
    BY <1>1, <1>2, <2>2, FitsRead
  <2>4. e.queue = Append(Tail(c.queue), Head(c.wire))
    BY <1>1 DEF ClientType
  <2>5. Len(e.queue) <= Cap
    <3>1. Tail(c.queue) \in Seq(Posts) /\ Len(Tail(c.queue)) = Len(c.queue) - 1
      BY <1>3, <2>2
    <3> QED
      BY <1>1, <1>3, <1>4, <2>4, <3>1, ChatAssumption
  <2> HIDE DEF e
  <2> QED
    BY <1>1, <2>1, <2>3, <2>5, ClientMoves
<1> QED
  BY <1>5, <1>6

LEMMA ReceiveSound ==
  ASSUME PostTypes, ClientTypes, ClientsFit, NEW x \in Clients, Receive(x)
  PROVE  ClientTypes' /\ ClientsFit'
<1> DEFINE c == client[x]
           d == [c EXCEPT !.got = Append(@, Head(c.queue)), !.queue = Tail(c.queue)]
<1>1. /\ c \in ClientType /\ Len(c.queue) <= Cap /\ Fits(c, published)
      /\ c.queue # <<>> /\ published' = published
  BY DEF ClientTypes, ClientsFit, Receive
<1>2. published \in Seq(Posts) /\ c.queue \in Seq(Posts) /\ Len(c.queue) \in Nat
  BY <1>1, Lengths DEF PostTypes, ClientType
<1>3. client' = [client EXCEPT ![x] = d]
  BY DEF Receive, ClientTypes
<1>4. d \in ClientType /\ Fits(d, published)
  BY <1>1, <1>2, FitsReceive
<1>5. d.queue = Tail(c.queue)
  BY <1>1 DEF ClientType
<1>6. Len(d.queue) <= Cap
  <2>1. Len(Tail(c.queue)) = Len(c.queue) - 1
    BY <1>1, <1>2
  <2> QED
    BY <1>1, <1>2, <1>5, <2>1, ChatAssumption
<1> HIDE DEF d
<1> QED
  BY <1>1, <1>3, <1>4, <1>6, ClientMoves

LEMMA EndsSound ==
  ASSUME PostTypes, ClientTypes, ClientsFit, NEW x \in Clients, ReaderEnds(x)
  PROVE  ClientTypes' /\ ClientsFit'
<1> DEFINE c == client[x]
           d == [c EXCEPT !.reads = FALSE, !.wire = <<>>]
<1>1. /\ c \in ClientType /\ Len(c.queue) <= Cap /\ Fits(c, published)
      /\ c.reads /\ published' = published
  BY DEF ClientTypes, ClientsFit, ReaderEnds
<1>2. published \in Seq(Posts) /\ IsInjective(published)
  BY DEF PostTypes
<1>3. client' = [client EXCEPT ![x] = d]
  BY DEF ReaderEnds, ClientTypes
<1>4. d \in ClientType /\ Fits(d, published) /\ d.queue = c.queue
  BY <1>1, <1>2, FitsEnds
<1> HIDE DEF d
<1> QED
  BY <1>1, <1>3, <1>4, ClientMoves

LEMMA ClientSound ==
  ASSUME Sound, NEW x \in Clients,
         \/ List(x) \/ Subscribe(x) \/ Read(x) \/ Receive(x) \/ Unsubscribe(x)
         \/ ReaderEnds(x)
  PROVE  Sound'
<1>1. KafkaSound /\ PostTypes /\ ClientTypes /\ PostsFit /\ Stored /\ ClientsFit
  BY SoundParts
<1>2. /\ UNCHANGED <<post, messages, audited, published>>
      /\ \/ UNCHANGED kafkaVars
         \/ Error /\ UNCHANGED <<producer, lock, caller, open>>
  BY DEF List, Subscribe, Read, Receive, Unsubscribe, ReaderEnds
<1>3. KafkaSound' /\ PostTypes' /\ PostsFit' /\ Stored'
  BY <1>1, <1>2, KafkaAlone, ErrorAlone, PostsAlone
<1>4. ClientTypes' /\ ClientsFit'
  <2>1. CASE List(x)
    BY <1>1, <2>1, ListSound
  <2>2. CASE Subscribe(x)
    BY <1>1, <2>2, SubscribeSound
  <2>3. CASE Read(x)
    BY <1>1, <2>3, ReadSound
  <2>4. CASE Receive(x)
    BY <1>1, <2>4, ReceiveSound
  <2>6. CASE ReaderEnds(x)
    BY <1>1, <2>6, EndsSound
  <2>5. CASE Unsubscribe(x)
    <3>1. published \in Seq(Posts)
      BY <1>1 DEF PostTypes
    <3>2. Away \in ClientType /\ Len(Away.queue) <= Cap /\ Fits(Away, published)
      BY <3>1, AwayFits
    <3>3. client' = [client EXCEPT ![x] = Away] /\ published' = published
      BY <2>5 DEF Unsubscribe
    <3> HIDE DEF Away
    <3> QED
      BY <1>1, <3>2, <3>3, ClientMoves
  <2> QED
    BY <2>1, <2>2, <2>3, <2>4, <2>5, <2>6
<1>5. (Sound <=> KafkaSound /\ PostTypes /\ ClientTypes /\ PostsFit /\ Stored /\ ClientsFit)'
  BY SoundParts, PTL
<1> QED
  BY <1>3, <1>4, <1>5

\* Each step of a post but its publication: the event bus, and the rest of the post.
LEMMA PostSound ==
  ASSUME Sound, NEW r \in Posts,
         \/ Commit(r) \/ PostStep(r) \/ Raise(r)
         \/ PublishStep(r) /\ UNCHANGED chatVars
  PROVE  Sound'
<1> USE ChatAssumption
<1>1. KafkaSound /\ PostTypes /\ ClientTypes /\ PostsFit /\ Stored /\ ClientsFit /\ PostFits(r)
  BY SoundParts DEF PostsFit
<1>2. messages \subseteq Posts /\ audited \subseteq Posts
  BY <1>1 DEF PostTypes
<1>3. /\ KafkaSound' /\ PostTypes' /\ ClientTypes' /\ PostsFit' /\ Stored' /\ ClientsFit'
  <2>1. CASE Commit(r)
    <3>1. KafkaSound' /\ ClientTypes' /\ ClientsFit'
      BY <1>1, <2>1, KafkaAlone, ClientsAlone DEF Commit
    <3>2. PostTypes' /\ PostsFit' /\ Stored'
      BY <1>1, <1>2, <2>1, PostMoves DEF Commit, PostPc
    <3> QED
      BY <3>1, <3>2
  <2>2. CASE Publish(r)
    <3>1. KafkaSound'
      BY <1>1, <2>2, KafkaAlone DEF Publish
    <3> QED
      BY <1>1, <2>2, <3>1, PublishedToAll
  <2>3. CASE KafkaEvent(r)
    <3>1. KafkaSound'
      BY <1>1, <2>3, CallSound DEF KafkaEvent
    <3>2. ClientTypes' /\ ClientsFit'
      BY <1>1, <2>3, ClientsAlone DEF KafkaEvent
    <3>3. r \in messages /\ r \in ToSet(published)
      BY <1>1, <2>3 DEF KafkaEvent, PostFits
    <3>4. PostTypes' /\ PostsFit' /\ Stored'
      BY <1>1, <1>2, <2>3, <3>3, PostMoves DEF KafkaEvent, PostPc
    <3> QED
      BY <3>1, <3>2, <3>4
  <2>4. CASE Audit(r)
    <3>1. KafkaSound' /\ ClientTypes' /\ ClientsFit'
      BY <1>1, <2>4, KafkaAlone, ClientsAlone DEF Audit
    <3>2. r \in messages /\ r \in ToSet(published)
      BY <1>1, <2>4 DEF Audit, PostFits
    <3>3. PostTypes' /\ PostsFit' /\ Stored'
      BY <1>1, <1>2, <2>4, <3>2, PostMoves DEF Audit, PostPc
    <3> QED
      BY <3>1, <3>3
  <2>5. CASE AuditEvent(r)
    <3>1. KafkaSound'
      BY <1>1, <2>5, CallSound DEF AuditEvent
    <3>2. ClientTypes' /\ ClientsFit'
      BY <1>1, <2>5, ClientsAlone DEF AuditEvent
    <3>3. r \in messages /\ r \in ToSet(published) /\ r \in audited
      BY <1>1, <2>5 DEF AuditEvent, PostFits
    <3>4. PostTypes' /\ PostsFit' /\ Stored'
      BY <1>1, <1>2, <2>5, <3>3, PostMoves DEF AuditEvent, PostPc
    <3> QED
      BY <3>1, <3>2, <3>4
  <2>6. CASE Answer(r)
    <3>1. KafkaSound' /\ ClientTypes' /\ ClientsFit'
      BY <1>1, <2>6, KafkaAlone, ClientsAlone DEF Answer
    <3>2. r \in messages /\ r \in ToSet(published) /\ r \in audited
      BY <1>1, <2>6 DEF Answer, PostFits
    <3>3. PostTypes' /\ PostsFit' /\ Stored'
      BY <1>1, <1>2, <2>6, <3>2, PostMoves DEF Answer, PostPc
    <3> QED
      BY <3>1, <3>3
  <2>7. CASE BusRaised(r)
    <3>1. KafkaTypeOK'
      BY <1>1, <2>7, Returned DEF BusRaised, KafkaSound, KafkaTypeOK
    <3>2. StartsAlone'
      BY <1>1, <2>7, Returned, OthersStart DEF BusRaised, KafkaSound, Resting
    <3>3. ClientTypes' /\ ClientsFit'
      BY <1>1, <2>7, ClientsAlone DEF BusRaised
    <3>4. PostTypes' /\ PostsFit' /\ Stored'
      BY <1>1, <1>2, <2>7, PostMoves DEF BusRaised, PostPc
    <3> QED
      BY <3>1, <3>2, <3>3, <3>4 DEF KafkaSound
  <2>8. CASE Raise(r)
    <3>1. KafkaSound' /\ ClientTypes' /\ ClientsFit'
      BY <1>1, <2>8, ErrorAlone, ClientsAlone DEF Raise
    <3>2. PostTypes' /\ PostsFit' /\ Stored'
      BY <1>1, <1>2, <2>8, PostMoves DEF Raise, PostPc
    <3> QED
      BY <3>1, <3>2
  <2>9. CASE PublishStep(r) /\ UNCHANGED chatVars
    <3>1. KafkaSound'
      BY <1>1, <2>9, PublishSound
    <3>2. ClientTypes' /\ ClientsFit' /\ PostTypes' /\ PostsFit' /\ Stored'
      BY <1>1, <2>9, ClientsAlone, PostsAlone DEF chatVars
    <3> QED
      BY <3>1, <3>2
  <2> QED
    BY <2>1, <2>2, <2>3, <2>4, <2>5, <2>6, <2>7, <2>8, <2>9 DEF PostStep
<1>4. (Sound <=> KafkaSound /\ PostTypes /\ ClientTypes /\ PostsFit /\ Stored /\ ClientsFit)'
  BY SoundParts, PTL
<1> QED
  BY <1>3, <1>4

LEMMA InitSound == Init => Sound
<1> SUFFICES ASSUME Init PROVE Sound
  OBVIOUS
<1>1. KafkaTypeOK
  BY KafkaAssumption DEF Init, KafkaInit, KafkaTypeOK, CallerType, Resting
<1>2. StartsAlone
  BY DEF Init, KafkaInit, StartsAlone, Resting
<1>3. PostTypes
  BY ChatAssumption DEF Init, PostTypes, PostPc, IsInjective
<1>4. ToSet(published) = {}
  BY DEF Init, ToSet
<1>5. PostsFit /\ Stored
  BY <1>4 DEF Init, PostsFit, PostFits, Stored
<1>6. published \in Seq(Posts)
  BY <1>3 DEF PostTypes
<1>7. Away \in ClientType /\ Len(Away.queue) <= Cap /\ Fits(Away, published)
  BY <1>6, AwayFits
<1> HIDE DEF Away
<1>8. ClientTypes /\ ClientsFit
  BY <1>7 DEF Init, ClientTypes, ClientsFit
<1> QED
  BY <1>1, <1>2, <1>3, <1>5, <1>8, SoundParts DEF KafkaSound

LEMMA NextSound == Sound /\ [Next]_vars => Sound'
<1> SUFFICES ASSUME Sound, [Next]_vars PROVE Sound'
  OBVIOUS
<1>1. CASE Next
  BY <1>1, PostSound, ClientSound DEF Next
<1>2. CASE UNCHANGED vars
  <2>1. KafkaSound /\ PostTypes /\ ClientTypes /\ PostsFit /\ Stored /\ ClientsFit
    BY SoundParts
  <2>2. KafkaSound' /\ PostTypes' /\ ClientTypes' /\ PostsFit' /\ Stored' /\ ClientsFit'
    BY <1>2, <2>1, KafkaAlone, ClientsAlone, PostsAlone DEF vars, chatVars
  <2>3. (Sound <=> KafkaSound /\ PostTypes /\ ClientTypes /\ PostsFit /\ Stored /\ ClientsFit)'
    BY SoundParts, PTL
  <2> QED
    BY <2>2, <2>3
<1> QED
  BY <1>1, <1>2

LEMMA AlwaysSound == Spec => []Sound
  BY InitSound, NextSound, PTL DEF Spec

----------------------------------------------------------------------------
(* The theorems                                                            *)

\* No step of a post, of the event bus or of a client leaves the types: the queue
\* of a subscriber never exceeds its bound, and no message is published twice.
THEOREM TypeCorrect == Spec => []TypeOK
<1>1. Sound => TypeOK
  BY DEF Sound
<1> QED
  BY <1>1, AlwaysSound, PTL

\* What Follows says of a client with a subscription, of what was published up to
\* its reader's end.
LEMMA FollowsIsHeard ==
  ASSUME Sound, NEW x \in Clients, client[x].on
  PROVE  \E p \in Seq(Posts) :
           /\ Begins(p, published) /\ client[x].since \in 0 .. Len(p)
           /\ client[x].reads => p = published
           /\ Follows(Heard(x), p, client[x].since, client[x].dropped)
<1> DEFINE c == client[x]
<1>1. published \in Seq(Posts) /\ Fits(c, published)
  BY DEF Sound, TypeOK, ClientsFit
<1>2. c.since \in 0 .. Len(published) /\ Len(published) \in Nat
  BY <1>1, Lengths DEF Fits
<1>3. Heard(x) = HeardBy(c)
  BY DEF Heard, HeardBy
<1>4. CASE c.reads
  <2>1. Follows(Heard(x), published, c.since, c.dropped)
    BY <1>1, <1>3, <1>4 DEF Fits
  <2> QED
    BY <1>1, <1>2, <2>1 DEF Begins
<1>5. CASE ~ c.reads
  <2>1. PICK p \in Seq(Posts) : /\ Begins(p, published) /\ c.since <= Len(p)
                                /\ Follows(HeardBy(c), p, c.since, c.dropped)
    BY <1>1, <1>5 DEF Fits
  <2>2. c.since \in 0 .. Len(p)
    BY <1>2, <2>1, Lengths
  <2> QED
    BY <1>3, <1>5, <2>1, <2>2
<1> QED
  BY <1>4, <1>5

\* A client that listens before it lists, over Redis, misses nothing but what its
\* full queue lost and what came after its reader's end, whatever the order in which
\* posts commit, publish and fail; and what it gets is in the order of publication
\* and ends with the latest.
THEOREM NothingIsMissed == Spec => []NothingMissed
<1>1. Sound => NothingMissed
  <2> SUFFICES ASSUME Sound, NEW x \in Clients, client[x].on
               PROVE  LET c == client[x]
                          s == published
                      IN  \E n \in c.since .. Len(s) :
                            /\ c.reads => n = Len(s)
                            /\ ToSet(Heard(x)) = {s[i] : i \in c.since + 1 .. n} \ c.dropped
                            /\ \A i, j \in DOMAIN Heard(x) :
                                 i < j => Before(Heard(x)[i], Heard(x)[j])
                            /\ c.since < n => Last(Heard(x)) = s[n]
                            /\ c.listens_first =>
                                 \A i \in 1 .. n :
                                     s[i] \in c.listed \union ToSet(Heard(x)) \union c.dropped
    BY DEF NothingMissed
  <2> DEFINE c == client[x]
             h == Heard(x)
  <2>0. PICK p \in Seq(Posts) :
           /\ Begins(p, published) /\ client[x].since \in 0 .. Len(p)
           /\ client[x].reads => p = published
           /\ Follows(Heard(x), p, client[x].since, client[x].dropped)
    BY FollowsIsHeard
  <2> DEFINE n == Len(p)
  <2>1. /\ p \in Seq(Posts) /\ Begins(p, published) /\ c.since \in 0 .. n
        /\ c.reads => p = published
        /\ Follows(h, p, c.since, c.dropped)
    BY <2>0
  <2>2. published \in Seq(Posts) /\ Fits(c, published)
    BY DEF Sound, TypeOK, ClientsFit
  <2>3. c.listens_first => \A i \in 1 .. c.since : published[i] \in c.listed
    BY <2>2 DEF Fits
  <2> HIDE DEF c, h
  <2>4. /\ Len(published) \in Nat /\ n \in 0 .. Len(published)
        /\ DOMAIN p = 1 .. n /\ DOMAIN published = 1 .. Len(published)
        /\ \A i \in 1 .. n : p[i] = published[i]
    BY <2>1, <2>2, Lengths DEF Begins
  <2>5. c.reads => n = Len(published)
    BY <2>1
  <2> HIDE DEF n
  <2>6. {p[i] : i \in c.since + 1 .. n} = {published[i] : i \in c.since + 1 .. n}
    <3>1. \A i \in c.since + 1 .. n : i \in 1 .. n
      BY <2>1, <2>4 DEF n
    <3> QED
      BY <2>4, <3>1
  <2>7. ToSet(h) = {published[i] : i \in c.since + 1 .. n} \ c.dropped
    BY <2>1, <2>6 DEF Follows, n
  <2>8. ASSUME NEW i \in DOMAIN h, NEW j \in DOMAIN h, i < j
        PROVE  Before(h[i], h[j])
    <3>1. PICK k \in DOMAIN p, m \in DOMAIN p : k < m /\ p[k] = h[i] /\ p[m] = h[j]
      BY <2>1, <2>8 DEF Follows
    <3>2. k \in DOMAIN published /\ m \in DOMAIN published
      BY <2>4
    <3> QED
      BY <2>4, <3>1, <3>2 DEF Before
  <2>9. c.since < n => Last(h) = published[n]
    <3>1. c.since < n => h[Len(h)] = p[n] /\ n \in 1 .. n
      BY <2>1, <2>4 DEF Follows, n
    <3> QED
      BY <2>4, <3>1 DEF Last
  <2>10. ASSUME c.listens_first, NEW i \in 1 .. n
         PROVE  published[i] \in c.listed \union ToSet(h) \union c.dropped
    <3>1. i \in 1 .. c.since \/ i \in c.since + 1 .. n
      BY <2>1, <2>4 DEF n
    <3> QED
      BY <2>3, <2>7, <2>10, <3>1
  <2>11. n \in c.since .. Len(published)
    BY <2>1, <2>4 DEF n
  <2> QED
    BY <2>5, <2>7, <2>8, <2>9, <2>10, <2>11 DEF c, h
<1> QED
  BY <1>1, AlwaysSound, PTL

\* An answer 'ok' of post_message is never ahead of its effects: the message is
\* stored, was published and is audited, whatever became of the event bus.  The
\* safety half of PostsAreAnswered.
THEOREM OkMeansDone == Spec => [](\A r \in Posts : post[r] = "ok" => Done(r))
<1>1. Sound => \A r \in Posts : post[r] = "ok" => Done(r)
  BY DEF Sound, PostsFit, PostFits, Done
<1> QED
  BY <1>1, AlwaysSound, PTL

\* However many callers share the producer and however often the broker fails
\* them, a producer that holds connections is forgotten only because stopping it
\* raised, or because a caller that was stopping another one was late.
THEOREM LeftOpen == Spec => LeftOpenOnlyByLateStop
<1>1. Sound /\ [Next]_vars => [LeavesOpen]_kafkaVars
  <2> SUFFICES ASSUME Sound, [Next]_vars, kafkaVars' # kafkaVars PROVE LeavesOpen
    OBVIOUS
  <2>1. KafkaSound
    BY SoundParts, Zenon
  <2>2. producer' = producer \/ \E r \in Posts : PublishStep(r)
    BY DEF Next, PostStep, Commit, Publish, KafkaEvent, Audit, AuditEvent, Answer, BusRaised,
           Raise, Call, List, Subscribe, Read, Receive, Unsubscribe, ReaderEnds, vars, kafkaVars
  <2>3. CASE producer' = producer
    BY <2>3 DEF LeavesOpen
  <2>4. CASE \E r \in Posts : PublishStep(r)
    BY <2>1, <2>4, ChatAssumption, PublishLeaves
  <2> QED
    BY <2>2, <2>3, <2>4
<1>2. Spec => [][LeavesOpen]_kafkaVars
  BY <1>1, AlwaysSound, PTL DEF Spec
<1> QED
  BY <1>2 DEF LeftOpenOnlyByLateStop, LeavesOpen
=============================================================================
