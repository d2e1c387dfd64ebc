------------------------- MODULE OnDemandDV_proofs -------------------------
(***************************************************************************)
(* Theorems about OnDemandDV, for any devices, links and timings.          *)
(***************************************************************************)
EXTENDS OnDemandDV, FiniteSetTheorems, WellFoundedInduction, TLAPS

\* What waits has sent a request for each count of the timer, and the first; what is not
\* recorded yet is the first.
CountOK ==
    /\ srh.waitReply => tries <= srh.retryCnt + 1
    /\ exploring > 0 => tries = 1 /\ ~srh.waitReply

\* Each relay has told what its link to the one before costs.
TellsCosts(p) ==
    \A j \in 1 .. Len(p.path) - 1 : p.metrics[j] = Cost[<<p.path[j + 1], p.path[j]>>]

Good(p) == IsMessage(p) /\ IsSimple(p) /\ TellsCosts(p)

IInv ==
    /\ TypeOK /\ PathsAreSimple /\ RetriesAreBounded /\ CountOK
    /\ \A p \in air : TellsCosts(p)

\* The ticks, at most, since Src has sent the request p.
ticksSince(p) == Len(p.path) - 1 + (IF p.late THEN 1 ELSE 0)

\* Who has had the request p, or a newer one, has had it since then.
IsRemembered(p) ==
    p.kind = "RREQ" =>
        /\ 1 <= p.id /\ p.id <= bcastId
        /\ ~visited(p, Dst)
        /\ \A n \in Nodes : p.id <= history[n].id => history[n].ago <= ticksSince(p)

Remembered ==
    /\ \A n \in Nodes : history[n].id <= bcastId
    /\ \A p \in air : IsRemembered(p)

-----------------------------------------------------------------------------
\* Messages.

\* A message that its originator sends to a neighbour is well-formed.
LEMMA FirstMessage ==
    ASSUME NEW kind \in {"RREQ", "RREP"}, NEW id \in 0 .. MaxRequests, NEW ttl \in Nat,
           NEW n \in Nodes, n = (IF kind = "RREQ" THEN Src ELSE Dst), NEW m \in nbrs(n)
    PROVE  Good(message(kind, id, ttl, <<n>>, <<>>, m))
<1> DEFINE p == message(kind, id, ttl, <<n>>, <<>>, m)
<1>1. IsMessage(p)
  BY DEF message, IsMessage, Message, nbrs
<1>2. IsSimple(p)
  BY DEF message, IsSimple, sender, nbrs
<1>3. TellsCosts(p)
  BY DEF message, TellsCosts
<1> QED BY <1>1, <1>2, <1>3 DEF Good

\* What a device relays, that the message has not been at, is well-formed.
LEMMA RelayedMessage ==
    ASSUME NEW p, Good(p), ~visited(p, p.to), NEW m \in nbrs(p.to)
    PROVE  Good(relayed(p, p.to, m))
<1> DEFINE k == Len(p.path)
           q == relayed(p, p.to, m)
<1>1. /\ p.path \in Seq(Nodes) /\ k \in Nat \ {0} /\ p.to \in Nodes /\ p.metrics \in Seq(Nat)
      /\ Len(p.metrics) = k - 1
  BY DEF Good, IsMessage, Message
<1>2. <<p.path[k], p.to>> \in Links /\ <<p.to, p.path[k]>> \in Links /\ <<p.to, m>> \in Links
  BY OnDemandAssumption DEF Good, IsSimple, sender, nbrs
<1>3. Cost[<<p.to, sender(p)>>] \in Nat
  BY <1>2, OnDemandAssumption DEF sender
<1>4. m \in Nodes
  BY DEF nbrs
<1>5. /\ q.path = Append(p.path, p.to) /\ q.to = m /\ q.kind = p.kind
      /\ q.metrics = Append(p.metrics, Cost[<<p.to, sender(p)>>])
  BY DEF relayed, message
<1>6. /\ q.path \in Seq(Nodes) /\ Len(q.path) = k + 1
      /\ q.metrics \in Seq(Nat) /\ Len(q.metrics) = k
  BY <1>1, <1>3, <1>5
<1>7. q \in Message
  BY <1>1, <1>4, <1>5, <1>6 DEF relayed, message, Good, IsMessage, Message
<1>8. IsMessage(q)
  BY <1>1, <1>6, <1>7 DEF IsMessage
<1>9. /\ q.path[k + 1] = p.to
      /\ \A i \in 1 .. k : q.path[i] = p.path[i] /\ p.path[i] # p.to
  BY <1>1, <1>5 DEF visited
<1>10. q.path[1] = IF q.kind = "RREQ" THEN Src ELSE Dst
  BY <1>1, <1>5, <1>9 DEF Good, IsSimple
<1>11. \A i, j \in 1 .. Len(q.path) : i # j => q.path[i] # q.path[j]
  <2> TAKE i, j \in 1 .. Len(q.path)
  <2>1. (i \in 1 .. k \/ i = k + 1) /\ (j \in 1 .. k \/ j = k + 1)
    BY <1>1, <1>6
  <2>2. \A x, y \in 1 .. k : x # y => p.path[x] # p.path[y]
    BY DEF Good, IsSimple
  <2> QED BY <1>9, <2>1, <2>2
<1>12. \A i \in 1 .. Len(q.path) - 1 : <<q.path[i], q.path[i + 1]>> \in Links
  <2> TAKE i \in 1 .. Len(q.path) - 1
  <2>1. i = k \/ (i \in 1 .. k - 1 /\ i + 1 \in 1 .. k)
    BY <1>1, <1>6
  <2>2. CASE i = k
    <3>1. q.path[i] = p.path[k] /\ q.path[i + 1] = p.to
      BY <2>2, <1>1, <1>9
    <3> QED BY <3>1, <1>2
  <2>3. CASE i \in 1 .. k - 1 /\ i + 1 \in 1 .. k
    <3>1. q.path[i] = p.path[i] /\ q.path[i + 1] = p.path[i + 1]
      BY <2>3, <1>1, <1>9
    <3>2. <<p.path[i], p.path[i + 1]>> \in Links
      BY <2>3 DEF Good, IsSimple
    <3> QED BY <3>1, <3>2
  <2> QED BY <2>1, <2>2, <2>3
<1>13. <<q.path[Len(q.path)], q.to>> \in Links
  BY <1>2, <1>5, <1>6, <1>9
<1>14. ASSUME NEW j \in 1 .. Len(q.path) - 1
       PROVE  q.metrics[j] = Cost[<<q.path[j + 1], q.path[j]>>]
  <2>1. CASE j = k
    <3>1. q.metrics[k] = Cost[<<p.to, sender(p)>>]
      BY <1>1, <1>3, <1>5
    <3>2. q.path[k + 1] = p.to /\ q.path[k] = sender(p)
      BY <1>1, <1>9 DEF sender
    <3> QED BY <2>1, <3>1, <3>2
  <2>2. CASE j \in 1 .. k - 1
    <3>1. q.metrics[j] = p.metrics[j]
      BY <2>2, <1>1, <1>3, <1>5
    <3>2. j \in 1 .. k /\ j + 1 \in 1 .. k
      BY <2>2, <1>1
    <3>3. q.path[j] = p.path[j] /\ q.path[j + 1] = p.path[j + 1]
      BY <3>2, <1>9
    <3> QED BY <2>2, <3>1, <3>3 DEF Good, TellsCosts
  <2> QED BY <2>1, <2>2, <1>1, <1>6
<1> HIDE DEF q
<1>15. IsSimple(q)
  BY <1>10, <1>11, <1>12, <1>13 DEF IsSimple, sender
<1>16. TellsCosts(q)
  BY <1>14 DEF TellsCosts
<1> QED BY <1>8, <1>15, <1>16 DEF Good, q

\* Growing late changes nothing of that.
LEMMA LateMessage ==
    ASSUME NEW p, Good(p)
    PROVE  Good([p EXCEPT !.late = TRUE])
<1> DEFINE q == [p EXCEPT !.late = TRUE]
<1>1. /\ q \in Message /\ q.path = p.path /\ q.kind = p.kind /\ q.to = p.to
      /\ q.metrics = p.metrics
  BY DEF Good, IsMessage, Message
<1> HIDE DEF q
<1>2. IsMessage(q) /\ IsSimple(q) /\ TellsCosts(q)
  BY <1>1 DEF Good, IsMessage, IsSimple, TellsCosts, sender
<1> QED BY <1>2 DEF Good, q

\* Whatever gets lost of what is sent, the air has only well-formed messages.
LEMMA GoodAir ==
    ASSUME NEW sent, NEW others, sends(sent, others),
           \A p \in sent : Good(p), \A p \in others : Good(p)
    PROVE  \A p \in air' : Good(p)
BY DEF sends

\* Both are Good on air.
LEMMA AllGood ==
    ASSUME IInv
    PROVE  /\ \A p \in air : Good(p)
           /\ \A p \in stillInTheAir : Good(p)
<1>1. \A p \in air : Good(p)
  BY DEF IInv, TypeOK, PathsAreSimple, Good
<1>2. \A p \in stillInTheAir : Good(p)
  BY <1>1, LateMessage DEF stillInTheAir
<1> QED BY <1>1, <1>2

LEMMA RequestIsGood ==
    ASSUME NEW id \in 0 .. MaxRequests, NEW ttl \in Nat
    PROVE  \A p \in request(id, ttl) : Good(p)
<1>1. Src \in Nodes
  BY OnDemandAssumption
<1> QED BY <1>1, FirstMessage DEF request

-----------------------------------------------------------------------------
\* Sums.

\* A set of naturals with 0, and with n + 1 for each n, has them all.
LEMMA Induction ==
    ASSUME NEW S, 0 \in S, \A n \in Nat : n \in S => n + 1 \in S
    PROVE  Nat \subseteq S
<1> SUFFICES ASSUME Nat \ S # {} PROVE FALSE
  OBVIOUS
<1>1. PICK x \in Nat \ S : \A y \in Nat \ S : x <= y
  <2>1. PICK x \in Nat \ S : \A y \in Nat \ S : ~(<<y, x>> \in OpToRel(<, Nat))
    BY WFMin, NatLessThanWellFounded
  <2>2. \A y \in Nat \ S : ~(y < x)
    BY <2>1 DEF OpToRel
  <2> QED BY <2>2
<1>2. x # 0 /\ x - 1 \in Nat
  BY <1>1
<1>3. x - 1 \in S
  BY <1>1, <1>2
<1> QED BY <1>1, <1>2, <1>3

\* f are the sums of the first n numbers, for n up to k.
AreSums(f, numbers, k) ==
    /\ f \in [0 .. k -> Nat] /\ f[0] = 0
    /\ \A i \in 1 .. k : f[i] = f[i - 1] + numbers[i]

LEMMA SumsExist ==
    ASSUME NEW numbers \in Seq(Nat)
    PROVE  \E f : AreSums(f, numbers, Len(numbers))
<1> DEFINE N == Len(numbers)
           S == {k \in Nat : k <= N => \E f : AreSums(f, numbers, k)}
<1>1. 0 \in S
  <2>1. AreSums([i \in 0 .. 0 |-> 0], numbers, 0)
    BY DEF AreSums
  <2> QED BY <2>1
<1>2. ASSUME NEW k \in Nat, k \in S, k + 1 <= N
      PROVE  \E f : AreSums(f, numbers, k + 1)
  <2>1. PICK f : AreSums(f, numbers, k)
    BY <1>2
  <2>2. f[k] + numbers[k + 1] \in Nat
    BY <1>2, <2>1 DEF AreSums
  <2> DEFINE g == [i \in 0 .. k + 1 |-> IF i = k + 1 THEN f[k] + numbers[k + 1] ELSE f[i]]
  <2>3. g \in [0 .. k + 1 -> Nat] /\ g[0] = 0
    BY <2>1, <2>2 DEF AreSums
  <2>4. ASSUME NEW i \in 1 .. k + 1 PROVE g[i] = g[i - 1] + numbers[i]
    <3>1. g[i - 1] = f[i - 1]
      OBVIOUS
    <3>2. CASE i = k + 1
      BY <3>1, <3>2
    <3>3. CASE i \in 1 .. k
      BY <3>1, <3>3, <2>1 DEF AreSums
    <3> QED BY <3>2, <3>3
  <2> HIDE DEF g
  <2> QED BY <2>3, <2>4 DEF AreSums
<1>3. ASSUME NEW k \in Nat, k \in S PROVE k + 1 \in S
  BY <1>2, <1>3
<1> HIDE DEF S
<1>4. N \in S
  BY <1>1, <1>3, Induction
<1> QED BY <1>4 DEF S

\* total is the last of them.
LEMMA TotalIsTheSum ==
    ASSUME NEW numbers \in Seq(Nat)
    PROVE  \E f : AreSums(f, numbers, Len(numbers)) /\ total(numbers) = f[Len(numbers)]
<1> DEFINE N == Len(numbers)
           F(g) == [i \in 0 .. N |-> IF i = 0 THEN 0 ELSE g[i - 1] + numbers[i]]
           sum == CHOOSE g : g = F(g)
<1>1. PICK f : AreSums(f, numbers, N)
  BY SumsExist
<1>2. f = F(f)
  BY <1>1 DEF AreSums
<1>3. sum = F(sum)
  BY <1>2
<1>4. total(numbers) = sum[N]
  BY DEF total
<1> HIDE DEF sum
<1>5. sum[0] = 0 /\ \A i \in 1 .. N : sum[i] = sum[i - 1] + numbers[i]
  BY <1>3
<1> DEFINE S == {k \in Nat : k <= N => sum[k] \in Nat}
<1>6. 0 \in S
  BY <1>5
<1>7. ASSUME NEW k \in Nat, k \in S PROVE k + 1 \in S
  <2> SUFFICES ASSUME k + 1 <= N PROVE sum[k + 1] \in Nat
    OBVIOUS
  <2>1. sum[k] \in Nat /\ numbers[k + 1] \in Nat
    BY <1>7
  <2>2. sum[k + 1] = sum[k] + numbers[k + 1]
    BY <1>5
  <2> QED BY <2>1, <2>2
<1>8. \A k \in 0 .. N : sum[k] \in Nat
  <2> HIDE DEF S
  <2>1. Nat \subseteq S
    BY <1>6, <1>7, Induction
  <2> USE DEF S
  <2> QED BY <2>1
<1>9. sum \in [0 .. N -> Nat]
  BY <1>3, <1>8
<1> QED BY <1>4, <1>5, <1>9 DEF AreSums

\* What a message tells of all devices on its path is what the way to the first costs,
\* and more: the link to the sender counts once for each of them.
LEMMA CostIsTold ==
    ASSUME NEW p, Good(p), NEW i \in 1 .. Len(p.path)
    PROVE  told(p) >= costBack(p, i)
<1> DEFINE k == Len(p.path)
           m == p.metrics
           last == Cost[<<p.to, sender(p)>>]
           costs == [j \in 1 .. i |-> Cost[hopBack(p, j)]]
<1>1. k \in Nat \ {0} /\ m \in Seq(Nat) /\ Len(m) = k - 1 /\ i \in Nat \ {0} /\ i <= k
  BY DEF Good, IsMessage, Message
<1>2. last \in Nat
  BY OnDemandAssumption DEF Good, IsSimple
<1>3. costs[1] = last
  BY <1>1 DEF hopBack
<1>4. \A j \in 2 .. i : costs[j] = m[k + 1 - j]
  <2> TAKE j \in 2 .. i
  <2>1. k + 1 - j \in 1 .. k - 1 /\ k + 2 - j = (k + 1 - j) + 1
    BY <1>1
  <2>2. m[k + 1 - j] = Cost[<<p.path[(k + 1 - j) + 1], p.path[k + 1 - j]>>]
    BY <2>1 DEF Good, TellsCosts
  <2>3. costs[j] = Cost[<<p.path[k + 2 - j], p.path[k + 1 - j]>>]
    BY <1>1 DEF hopBack
  <2> QED BY <2>1, <2>2, <2>3
<1> HIDE DEF last
<1>5. costs \in Seq(Nat) /\ Len(costs) = i
  <2>1. ASSUME NEW j \in 1 .. i PROVE costs[j] \in Nat
    <3>1. CASE j = 1
      BY <3>1, <1>2, <1>3
    <3>2. CASE j \in 2 .. i
      <4>1. k + 1 - j \in 1 .. k - 1
        BY <3>2, <1>1
      <4>2. m[k + 1 - j] \in Nat
        BY <4>1, <1>1
      <4> QED BY <3>2, <4>2, <1>4
    <3> QED BY <3>1, <3>2
  <2>2. costs \in [1 .. i -> Nat]
    BY <2>1
  <2> HIDE DEF costs
  <2> QED BY <2>2, <1>1
<1> HIDE DEF m, costs
<1>6. PICK f : AreSums(f, m, k - 1) /\ total(m) = f[k - 1]
  BY <1>1, TotalIsTheSum
<1>7. PICK g : AreSums(g, costs, i) /\ total(costs) = g[i]
  BY <1>5, TotalIsTheSum
<1>8. /\ f \in [0 .. k - 1 -> Nat] /\ \A j \in 1 .. k - 1 : f[j] = f[j - 1] + m[j]
      /\ g \in [0 .. i -> Nat] /\ \A j \in 1 .. i : g[j] = g[j - 1] + costs[j]
      /\ g[0] = 0
  BY <1>6, <1>7 DEF AreSums
<1>9. \A j \in 1 .. i : g[j] + f[k - j] = last + f[k - 1]
  <2> DEFINE S == {n \in Nat : n + 1 <= i => g[n + 1] + f[k - (n + 1)] = last + f[k - 1]}
  <2>1. 0 \in S
    <3>1. g[1] = g[0] + costs[1]
      BY <1>1, <1>8
    <3> QED BY <3>1, <1>1, <1>2, <1>3, <1>8
  <2>2. ASSUME NEW n \in Nat, n \in S PROVE n + 1 \in S
    <3> SUFFICES ASSUME n + 2 <= i
                 PROVE  g[n + 2] + f[k - (n + 2)] = last + f[k - 1]
      OBVIOUS
    <3> DEFINE a == k - (n + 1)
    <3>1. a \in 1 .. k - 1 /\ a - 1 = k - (n + 2) /\ a = k + 1 - (n + 2)
      BY <1>1
    <3>2. g[n + 1] + f[a] = last + f[k - 1]
      BY <2>2
    <3>3. f[a] = f[a - 1] + m[a]
      BY <3>1, <1>8
    <3>4. costs[n + 2] = m[a]
      BY <3>1, <1>4
    <3>5. g[n + 2] = g[n + 1] + m[a]
      BY <3>4, <1>8
    <3>6. g[n + 1] \in Nat /\ f[a - 1] \in Nat /\ m[a] \in Nat
      <4>1. n + 1 \in 0 .. i /\ a - 1 \in 0 .. k - 1 /\ a \in 1 .. Len(m)
        BY <3>1, <1>1
      <4> HIDE DEF a
      <4>2. g[n + 1] \in Nat /\ f[a - 1] \in Nat
        BY <4>1, <1>8
      <4>3. m[a] \in Nat
        BY <4>1, <1>1
      <4> QED BY <4>2, <4>3
    <3> HIDE DEF a
    <3>7. g[n + 2] + f[a - 1] = last + f[k - 1]
      BY <3>2, <3>3, <3>5, <3>6
    <3> QED BY <3>1, <3>7
  <2> HIDE DEF S
  <2>3. Nat \subseteq S
    BY <2>1, <2>2, Induction
  <2> USE DEF S
  <2> TAKE j \in 1 .. i
  <2>4. j - 1 \in Nat /\ (j - 1) + 1 = j
    BY <1>1
  <2>5. j - 1 \in S
    BY <2>3, <2>4
  <2> QED BY <2>4, <2>5
<1>10. g[i] <= last + f[k - 1]
  <2>1. k - i \in 0 .. k - 1 /\ i \in 1 .. i /\ i \in 0 .. i /\ k - 1 \in 0 .. k - 1
    BY <1>1
  <2>2. f[k - i] \in Nat /\ f[k - 1] \in Nat /\ g[i] \in Nat
    BY <2>1, <1>8
  <2>3. g[i] + f[k - i] = last + f[k - 1]
    BY <2>1, <1>9
  <2> QED BY <2>2, <2>3, <1>2
<1>11. k * last >= last
  <2>1. \A x, y \in Nat : x * y \in Nat
    OBVIOUS
  <2>2. (k - 1) * last \in Nat
    BY <2>1, <1>1, <1>2
  <2>3. k * last = (k - 1) * last + last
    BY <1>1, <1>2
  <2> QED BY <2>2, <2>3, <1>2
<1>12. told(p) = k * last + f[k - 1]
  BY <1>6 DEF told, last, m
<1>13. costBack(p, i) = g[i]
  BY <1>7 DEF costBack, costs
<1>14. k * last \in Nat /\ f[k - 1] \in Nat /\ g[i] \in Nat
  <2>1. k - 1 \in 0 .. k - 1 /\ i \in 0 .. i
    BY <1>1
  <2>2. f[k - 1] \in Nat /\ g[i] \in Nat
    BY <2>1, <1>8
  <2>3. \A x, y \in Nat : x * y \in Nat
    OBVIOUS
  <2> QED BY <2>2, <2>3, <1>1, <1>2
<1> QED BY <1>2, <1>10, <1>11, <1>12, <1>13, <1>14

-----------------------------------------------------------------------------
\* The counters.

CountersOK ==
    /\ bcastId \in 0 .. MaxRequests
    /\ exploring \in Nat /\ tries \in Nat
    /\ srh \in SendRequestHistory

HistoriesOK == history \in [Nodes -> [id : 0 .. MaxRequests, ago : 0 .. HistoryTicks]]

LEMMA IInvParts ==
    IInv =>  /\ CountersOK /\ HistoriesOK /\ RetriesAreBounded /\ CountOK
             /\ \A p \in air : Good(p)
BY DEF IInv, TypeOK, PathsAreSimple, Good, CountersOK, HistoriesOK

LEMMA IInvNext ==
    ASSUME CountersOK', HistoriesOK', RetriesAreBounded', CountOK', \A p \in air' : Good(p)
    PROVE  IInv'
BY DEF IInv, TypeOK, PathsAreSimple, Good, CountersOK, HistoriesOK

\* What the timer, the API threads and replies do to a SendRequestHistory.

LEMMA SrhCounted ==
    ASSUME srh \in SendRequestHistory, NEW t \in Int, NEW c \in Nat,
           counted = [srh EXCEPT !.ago = t, !.retryCnt = c]
    PROVE  counted \in SendRequestHistory /\ counted.waitReply = srh.waitReply
           /\ counted.retryCnt = c
<1>1. DOMAIN srh = {"waitReply", "retryCnt", "ago", "ttl", "ttlForReply", "ttlSuccess"}
  BY DEF SendRequestHistory
<1> DEFINE g == [srh EXCEPT !.ago = t]
<1>2. g \in SendRequestHistory /\ g.waitReply = srh.waitReply
  BY DEF SendRequestHistory
<1>3. counted = [g EXCEPT !.retryCnt = c]
  BY <1>1
<1> HIDE DEF g
<1> QED BY <1>2, <1>3 DEF SendRequestHistory

LEMMA SrhSent ==
    ASSUME NEW h \in SendRequestHistory, NEW t \in Int, NEW l \in Nat
    PROVE  /\ [h EXCEPT !.ago = t, !.ttl = l] \in SendRequestHistory
           /\ [h EXCEPT !.ago = t, !.ttl = l].retryCnt = h.retryCnt
           /\ [h EXCEPT !.ago = t, !.ttl = l, !.waitReply = TRUE] \in SendRequestHistory
<1>1. [h EXCEPT !.ago = t, !.ttl = l] \in SendRequestHistory
  BY DEF SendRequestHistory
<1>2. [h EXCEPT !.ago = t, !.ttl = l].retryCnt = h.retryCnt
  BY DEF SendRequestHistory
<1>3. [h EXCEPT !.ago = t, !.ttl = l, !.waitReply = TRUE] \in SendRequestHistory
  BY DEF SendRequestHistory
<1> QED BY <1>1, <1>2, <1>3

LEMMA SrhAnswered ==
    ASSUME NEW h \in SendRequestHistory, NEW l \in Nat, NEW e \in Int
    PROVE  /\ [h EXCEPT !.waitReply = FALSE, !.retryCnt = 0, !.ttlForReply = l,
                        !.ttlSuccess = e] \in SendRequestHistory
BY DEF SendRequestHistory

\* The timer keeps the counters in order, and what it sends is well-formed.
LEMMA TimerKeepsCounters ==
    ASSUME IInv, exploring = 0, exploring' = 0, NotWaiting \/ NotDue \/ Retry \/ GiveUp
    PROVE  CountersOK' /\ RetriesAreBounded' /\ CountOK'
<1>1. /\ CountersOK /\ RetriesAreBounded /\ CountOK
      /\ MaxRetry \in Nat /\ MaxRequests \in Nat /\ MinTicks \in Nat
  BY IInvParts, OnDemandAssumption
<1>2. counted \in SendRequestHistory /\ counted.waitReply = srh.waitReply
      /\ counted.retryCnt = srh.retryCnt + 1
  <2>1. srh \in SendRequestHistory /\ srh.ago + 1 \in Int /\ srh.retryCnt + 1 \in Nat
    BY <1>1 DEF CountersOK, SendRequestHistory
  <2>2. counted = [srh EXCEPT !.ago = srh.ago + 1, !.retryCnt = srh.retryCnt + 1]
    BY DEF counted
  <2> QED BY <2>1, <2>2, SrhCounted
<1>3. CASE NotWaiting
  BY <1>1, <1>3 DEF NotWaiting, CountersOK, RetriesAreBounded, CountOK, SendRequestHistory
<1>4. CASE NotDue
  <2>1. /\ srh' \in SendRequestHistory /\ srh'.retryCnt = srh.retryCnt + 1 /\ srh.waitReply
        /\ bcastId' = bcastId /\ tries' = tries
    BY <1>2, <1>4 DEF NotDue
  <2>2. srh.retryCnt \in Nat
    BY <1>1 DEF CountersOK, SendRequestHistory
  <2>3. CountersOK'
    BY <1>1, <2>1 DEF CountersOK
  <2>4. RetriesAreBounded' /\ CountOK'
    BY <1>1, <2>1, <2>2 DEF RetriesAreBounded, CountOK, CountersOK
  <2> QED BY <2>3, <2>4
<1>5. CASE Retry
  <2>1. wider \in Nat
    BY <1>1 DEF wider, CountersOK, SendRequestHistory
  <2>2. /\ srh.retryCnt + 1 < MaxRetry /\ srh.waitReply
        /\ srh' \in SendRequestHistory
        /\ srh'.retryCnt = srh.retryCnt + 1 /\ tries' = tries + 1
    <3>1. srh' = [counted EXCEPT !.ago = 0, !.ttl = wider] /\ srh.waitReply
          /\ counted.retryCnt < MaxRetry /\ tries' = tries + 1
      BY <1>5 DEF Retry
    <3>2. [counted EXCEPT !.ago = 0, !.ttl = wider] \in SendRequestHistory
      BY <1>2, <2>1, 0 \in Int, SrhSent
    <3>3. [counted EXCEPT !.ago = 0, !.ttl = wider].retryCnt = counted.retryCnt
      BY <1>2, <2>1, 0 \in Int, SrhSent
    <3> QED BY <1>2, <3>1, <3>2, <3>3
  <2>3. bcastId' \in 0 .. MaxRequests
    BY <1>1, <1>5 DEF Retry, CountersOK
  <2> QED BY <1>1, <2>2, <2>3 DEF CountersOK, RetriesAreBounded, CountOK, SendRequestHistory
<1>6. CASE GiveUp
  <2>1. PICK pause \in {2, 5} :
          srh' = [srh EXCEPT !.waitReply = FALSE, !.retryCnt = 0, !.ttl = 0,
                             !.ago = -(pause * MinTicks)]
    BY <1>6 DEF GiveUp
  <2>2. -(pause * MinTicks) \in Int
    BY <1>1
  <2> QED BY <1>1, <1>6, <2>1, <2>2
      DEF GiveUp, CountersOK, RetriesAreBounded, CountOK, SendRequestHistory
<1> QED BY <1>3, <1>4, <1>5, <1>6

-----------------------------------------------------------------------------
\* The invariant.

LEMMA InitIInv == Init => IInv
BY OnDemandAssumption
   DEF Init, IInv, TypeOK, PathsAreSimple, RetriesAreBounded, CountOK, SendRequestHistory

LEMMA RouteExploreIInv == IInv /\ RouteExplore => IInv'
<1> SUFFICES ASSUME IInv, RouteExplore PROVE IInv'
  OBVIOUS
<1>1. /\ CountersOK /\ HistoriesOK /\ CountOK
      /\ MaxRetry \in Nat \ {0} /\ MaxRequests \in Nat /\ InitTtl \in Nat
  BY IInvParts, OnDemandAssumption
<1>2. PICK ttl \in firstTtl : exploring' = ttl /\ sends(request(bcastId', ttl), air)
  BY DEF RouteExplore
<1>3. ttl \in Nat
  BY <1>1, <1>2 DEF firstTtl, CountersOK, SendRequestHistory
<1>4. bcastId' \in 0 .. MaxRequests
  BY <1>1 DEF RouteExplore, CountersOK
<1>5. CountersOK' /\ HistoriesOK' /\ RetriesAreBounded' /\ CountOK'
  BY <1>1, <1>2, <1>3, <1>4
     DEF RouteExplore, CountersOK, HistoriesOK, RetriesAreBounded, CountOK
<1>6. \A p \in air' : Good(p)
  BY <1>2, <1>3, <1>4, RequestIsGood, AllGood, GoodAir
<1> QED BY <1>5, <1>6, IInvNext

LEMMA RecordRequestIInv == IInv /\ RecordRequest => IInv'
<1> SUFFICES ASSUME IInv, RecordRequest PROVE IInv'
  OBVIOUS
<1>1. CountersOK /\ HistoriesOK /\ RetriesAreBounded /\ CountOK /\ \A p \in air : Good(p)
  BY IInvParts
<1>2. CountersOK'
  <2>1. srh \in SendRequestHistory /\ exploring \in Nat
    BY <1>1 DEF CountersOK
  <2>2. [srh EXCEPT !.ago = 0, !.ttl = exploring, !.waitReply = TRUE] \in SendRequestHistory
    BY <2>1, 0 \in Int, SrhSent
  <2> QED BY <1>1, <2>2 DEF RecordRequest, CountersOK
<1>3. HistoriesOK' /\ RetriesAreBounded' /\ \A p \in air' : Good(p)
  BY <1>1 DEF RecordRequest, HistoriesOK, RetriesAreBounded
<1>4. CountOK'
  BY <1>1 DEF RecordRequest, CountersOK, CountOK, SendRequestHistory
<1> QED BY <1>2, <1>3, <1>4, IInvNext

LEMMA TimeoutIInv == IInv /\ Timeout => IInv'
<1> SUFFICES ASSUME IInv, Timeout PROVE IInv'
  OBVIOUS
<1>1. CountersOK' /\ RetriesAreBounded' /\ CountOK'
  BY TimerKeepsCounters DEF Timeout
<1>2. HistoriesOK'
  BY IInvParts, OnDemandAssumption DEF Timeout, HistoriesOK
<1>3. \A p \in air' : Good(p)
  <2> DEFINE sent == IF bcastId' > bcastId THEN request(bcastId', srh'.ttl) ELSE {}
  <2>1. srh'.ttl \in Nat /\ bcastId' \in 0 .. MaxRequests
    BY <1>1 DEF CountersOK, SendRequestHistory
  <2>2. \A p \in sent : Good(p)
    BY <2>1, RequestIsGood
  <2>3. sends(sent, stillInTheAir)
    BY DEF Timeout
  <2> HIDE DEF sent
  <2> QED BY <2>2, <2>3, AllGood, GoodAir
<1> QED BY <1>1, <1>2, <1>3, IInvNext

\* A device records the number of the request it has accepted.
LEMMA Recording ==
    ASSUME HistoriesOK, NEW p, Good(p), record(p)
    PROVE  HistoriesOK'
<1>1. p.id \in 0 .. MaxRequests /\ p.to \in Nodes
  BY DEF Good, IsMessage, Message
<1> QED BY <1>1, OnDemandAssumption DEF record, HistoriesOK

LEMMA ReceiveRequestIInv ==
    ASSUME IInv, NEW p \in air, ReceiveRequest(p)
    PROVE  IInv'
<1>1. /\ CountersOK /\ HistoriesOK /\ RetriesAreBounded /\ CountOK
      /\ \A q \in air : Good(q)
  BY IInvParts
<1>2. CountersOK' /\ RetriesAreBounded' /\ CountOK'
  BY <1>1 DEF ReceiveRequest, CountersOK, RetriesAreBounded, CountOK
<1>3. HistoriesOK' /\ \A q \in air' : Good(q)
  <2>1. CASE DropRequest(p)
    BY <1>1, <2>1 DEF DropRequest, HistoriesOK
  <2>2. CASE SwallowRequest(p)
    BY <1>1, <2>2, Recording DEF SwallowRequest
  <2>3. CASE ReplyToRequest(p)
    <3>1. PICK m \in nbrs(Dst) :
            sends({message("RREP", 0, 1, <<Dst>>, <<>>, m)}, air \ {p})
      BY <2>3 DEF ReplyToRequest
    <3>2. Good(message("RREP", 0, 1, <<Dst>>, <<>>, m))
      BY FirstMessage, OnDemandAssumption
    <3>3. \A q \in air' : Good(q)
      BY <1>1, <3>1, <3>2, GoodAir
    <3> QED BY <1>1, <2>3, <3>3, Recording DEF ReplyToRequest
  <2>4. CASE ForwardRequest(p)
    <3>1. \/ sends({relayed(p, p.to, m) : m \in nbrs(p.to)}, air \ {p})
          \/ air' = air \ {p}
      BY <2>4 DEF ForwardRequest
    <3>2. ~visited(p, p.to)
      BY <2>4 DEF ForwardRequest
    <3>3. \A q \in {relayed(p, p.to, m) : m \in nbrs(p.to)} : Good(q)
      BY <1>1, <3>2, RelayedMessage
    <3>4. \A q \in air' : Good(q)
      BY <1>1, <3>1, <3>3, GoodAir
    <3> QED BY <1>1, <2>4, <3>4, Recording DEF ForwardRequest
  <2> QED BY <2>1, <2>2, <2>3, <2>4 DEF ReceiveRequest
<1> QED BY <1>2, <1>3, IInvNext

LEMMA ReceiveReplyIInv ==
    ASSUME IInv, NEW p \in air, ReceiveReply(p)
    PROVE  IInv'
<1>1. /\ CountersOK /\ HistoriesOK /\ RetriesAreBounded /\ CountOK
      /\ \A q \in air : Good(q)
  BY IInvParts
<1>2. HistoriesOK' /\ RetriesAreBounded'
  BY <1>1 DEF ReceiveReply, HistoriesOK, RetriesAreBounded
<1>3. CountersOK' /\ CountOK' /\ \A q \in air' : Good(q)
  <2>1. CASE DropReply(p)
    BY <1>1, <2>1 DEF ReceiveReply, DropReply, CountersOK, CountOK, SendRequestHistory
  <2>2. CASE TakeReply(p)
    <3>1. Len(p.path) \in Nat /\ p.ttl \in Nat
      BY <1>1 DEF Good, IsMessage, Message
    <3>2. CountersOK'
      <4>1. srh \in SendRequestHistory /\ srh.ttl - p.ttl \in Int
        BY <1>1, <3>1 DEF CountersOK, SendRequestHistory
      <4>2. srh' \in SendRequestHistory
        BY <2>2, <3>1, <4>1, SrhAnswered DEF TakeReply
      <4> QED BY <1>1, <4>2 DEF ReceiveReply, CountersOK
    <3>3. CountOK'
      BY <1>1, <2>2 DEF ReceiveReply, TakeReply, CountersOK, CountOK, SendRequestHistory
    <3> QED BY <1>1, <2>2, <3>2, <3>3 DEF TakeReply
  <2>3. CASE ForwardReply(p)
    <3>1. PICK m \in nbrs(p.to) : sends({relayed(p, p.to, m)}, air \ {p})
      BY <2>3 DEF ForwardReply
    <3>2. Good(relayed(p, p.to, m))
      BY <1>1, <2>3, RelayedMessage DEF ForwardReply
    <3>3. \A q \in air' : Good(q)
      BY <1>1, <3>1, <3>2, GoodAir
    <3>4. CountersOK' /\ CountOK'
      BY <1>1, <2>3 DEF ReceiveReply, ForwardReply, CountersOK, CountOK, SendRequestHistory
    <3> QED BY <3>3, <3>4
  <2> QED BY <2>1, <2>2, <2>3 DEF ReceiveReply
<1> QED BY <1>2, <1>3, IInvNext

LEMMA NextIInv == IInv /\ [Next]_vars => IInv'
<1>1. IInv /\ UNCHANGED vars => IInv'
  BY DEF vars, IInv, TypeOK, PathsAreSimple, RetriesAreBounded, CountOK
<1> QED
  BY <1>1, RouteExploreIInv, RecordRequestIInv, TimeoutIInv, ReceiveRequestIInv,
     ReceiveReplyIInv DEF Next

-----------------------------------------------------------------------------
\* Requests are remembered.

LEMMA TicksType ==
    ASSUME NEW p, IsMessage(p)
    PROVE  ticksSince(p) \in Nat /\ ticksSince(p) <= Len(p.path)
<1> DEFINE one == IF p.late THEN 1 ELSE 0
<1>1. Len(p.path) \in Nat \ {0}
  BY DEF IsMessage, Message
<1>2. one = 0 \/ one = 1
  OBVIOUS
<1>3. ticksSince(p) = Len(p.path) - 1 + one
  BY DEF ticksSince
<1> HIDE DEF one
<1> QED BY <1>1, <1>2, <1>3

\* A request is still remembered when Src counts on.
LEMMA CountingRemembers ==
    ASSUME IInv, NEW p, IsRemembered(p), history' = history, bcastId' \in Nat,
           bcastId' >= bcastId, IsMessage(p)
    PROVE  IsRemembered(p)'
<1>1. p.id \in Nat /\ bcastId \in Nat
  BY OnDemandAssumption DEF IsMessage, Message, IInv, TypeOK
<1>2. p.kind = "RREQ" => 1 <= p.id /\ p.id <= bcastId'
  BY <1>1 DEF IsRemembered
<1>3. p.kind = "RREQ" =>
        /\ ~visited(p, Dst)
        /\ \A n \in Nodes : p.id <= history'[n].id => history'[n].ago <= ticksSince(p)
  BY DEF IsRemembered
<1> QED BY <1>2, <1>3 DEF IsRemembered, visited, ticksSince

\* A new request has a number that nobody knows.
LEMMA NewIsRemembered ==
    ASSUME IInv, Remembered, bcastId' = bcastId + 1, NEW ttl, NEW p \in request(bcastId', ttl),
           \A n \in Nodes : history'[n].id = history[n].id
    PROVE  IsRemembered(p)'
<1>1. p.id = bcastId + 1 /\ p.path = <<Src>> /\ bcastId \in Nat
  BY OnDemandAssumption DEF request, message, IInv, TypeOK
<1>2. ~visited(p, Dst)
  BY <1>1, OnDemandAssumption DEF visited
<1>3. \A n \in Nodes : history'[n].id \in Nat /\ history'[n].id <= bcastId
  BY DEF IInv, TypeOK, Remembered
<1>4. \A n \in Nodes : ~(p.id <= history'[n].id)
  BY <1>1, <1>3
<1> QED BY <1>1, <1>2, <1>4 DEF IsRemembered, visited

LEMMA RouteExploreRemembers == IInv /\ Remembered /\ RouteExplore => Remembered'
<1> SUFFICES ASSUME IInv, Remembered, RouteExplore PROVE Remembered'
  OBVIOUS
<1>1. /\ bcastId \in Nat /\ bcastId' = bcastId + 1 /\ history' = history
      /\ \A n \in Nodes : history[n].id \in Nat /\ history[n].id <= bcastId
  BY OnDemandAssumption DEF IInv, TypeOK, RouteExplore, Remembered
<1>2. PICK ttl : sends(request(bcastId', ttl), air)
  BY DEF RouteExplore
<1>3. ASSUME NEW p \in air' PROVE IsRemembered(p)'
  <2>1. CASE p \in air
    <3>1. IsRemembered(p) /\ IsMessage(p)
      BY <2>1 DEF Remembered, IInv, TypeOK
    <3> QED BY <3>1, <1>1, CountingRemembers
  <2>2. CASE p \in request(bcastId', ttl)
    BY <2>2, <1>1, NewIsRemembered
  <2> QED BY <2>1, <2>2, <1>2, <1>3 DEF sends
<1> QED BY <1>1, <1>3 DEF Remembered

LEMMA TimeoutRemembers == IInv /\ Remembered /\ Timeout => Remembered'
<1> SUFFICES ASSUME IInv, Remembered, Timeout PROVE Remembered'
  OBVIOUS
<1>1. /\ bcastId \in Nat /\ bcastId' \in {bcastId, bcastId + 1}
      /\ \A n \in Nodes : history[n].id \in Nat /\ history[n].ago \in Nat
  BY OnDemandAssumption
     DEF IInv, TypeOK, Timeout, NotWaiting, NotDue, Retry, GiveUp
<1>2. \A n \in Nodes :
        /\ history'[n].id = history[n].id
        /\ history'[n].ago \in {history[n].ago, history[n].ago + 1}
  BY DEF Timeout, IInv, TypeOK
<1>3. ASSUME NEW p \in air' PROVE IsRemembered(p)'
  <2>1. CASE p \in stillInTheAir
    <3>1. PICK q \in air : ~q.late /\ p = [q EXCEPT !.late = TRUE]
      BY <2>1 DEF stillInTheAir
    <3>2. IsRemembered(q) /\ IsMessage(q)
      BY DEF Remembered, IInv, TypeOK
    <3>3. /\ p.kind = q.kind /\ p.id = q.id /\ p.path = q.path /\ p.late
          /\ q.id \in Nat /\ Len(q.path) \in Nat
      BY <3>1, <3>2 DEF IsMessage, Message
    <3>4. ticksSince(p) = ticksSince(q) + 1 /\ ticksSince(q) \in Int
      BY <3>1, <3>3 DEF ticksSince
    <3>5. ASSUME p.kind = "RREQ" PROVE 1 <= p.id /\ p.id <= bcastId' /\ ~visited(p, Dst)
      BY <3>2, <3>3, <3>5, <1>1 DEF IsRemembered, visited
    <3>6. ASSUME p.kind = "RREQ", NEW n \in Nodes, p.id <= history'[n].id
          PROVE  history'[n].ago <= ticksSince(p)
      <4>1. history[n].ago <= ticksSince(q)
        BY <3>2, <3>3, <3>6, <1>2 DEF IsRemembered
      <4> QED BY <4>1, <3>4, <1>1, <1>2
    <3> QED BY <3>5, <3>6 DEF IsRemembered, visited, ticksSince
  <2>2. CASE bcastId' > bcastId /\ p \in request(bcastId', srh'.ttl)
    BY <2>2, <1>1, <1>2, NewIsRemembered
  <2> QED BY <2>1, <2>2, <1>3 DEF Timeout, sends
<1>4. \A n \in Nodes : history'[n].id <= bcastId'
  BY <1>1, <1>2 DEF Remembered
<1> QED BY <1>3, <1>4 DEF Remembered

\* Recording a request, at its receiver, keeps those on air remembered, and a copy that the
\* receiver relays as well.
LEMMA RecordingRemembers ==
    ASSUME IInv, Remembered, NEW p \in air, p.kind = "RREQ", record(p), bcastId' = bcastId
    PROVE  /\ \A n \in Nodes : history'[n].id <= bcastId'
           /\ \A q \in air : IsRemembered(q)'
           /\ p.to # Dst => \A m : IsRemembered(relayed(p, p.to, m))'
<1>1. /\ IsMessage(p) /\ p.to \in Nodes /\ p.id \in Nat /\ p.id <= bcastId
      /\ p.path \in Seq(Nodes) /\ Len(p.path) \in Nat \ {0} /\ p.late \in BOOLEAN
      /\ IsRemembered(p)
  BY DEF Remembered, IsRemembered, IInv, TypeOK, IsMessage, Message
<1>2. \A n \in Nodes :
        history'[n] = IF n = p.to THEN [id |-> p.id, ago |-> 0] ELSE history[n]
  BY DEF record, IInv, TypeOK
<1>3. \A n \in Nodes : history'[n].id <= bcastId'
  BY <1>1, <1>2 DEF Remembered
<1>4. ASSUME NEW q \in air PROVE IsRemembered(q)'
  <2>1. IsRemembered(q) /\ IsMessage(q)
    BY DEF Remembered, IInv, TypeOK
  <2>2. 0 <= ticksSince(q)
    BY <2>1, TicksType
  <2>3. ASSUME q.kind = "RREQ", NEW n \in Nodes, q.id <= history'[n].id
        PROVE  history'[n].ago <= ticksSince(q)
    BY <2>1, <2>2, <2>3, <1>2 DEF IsRemembered
  <2> QED BY <2>1, <2>3 DEF IsRemembered, visited, ticksSince
<1>5. ASSUME p.to # Dst, NEW m PROVE IsRemembered(relayed(p, p.to, m))'
  <2> DEFINE q == relayed(p, p.to, m)
  <2>1. q.kind = "RREQ" /\ q.id = p.id /\ q.path = Append(p.path, p.to) /\ ~q.late
    BY DEF relayed, message
  <2> HIDE DEF q
  <2>2. 1 <= q.id /\ q.id <= bcastId'
    BY <2>1, <1>1 DEF IsRemembered
  <2>3. ~visited(q, Dst)
    BY <2>1, <1>1, <1>5 DEF IsRemembered, visited
  <2>4. ticksSince(q) = Len(p.path) /\ ticksSince(p) <= Len(p.path)
    BY <2>1, <1>1, TicksType DEF ticksSince
  <2>5. ASSUME NEW n \in Nodes, q.id <= history'[n].id
        PROVE  history'[n].ago <= ticksSince(q)
    <3>1. CASE n = p.to
      BY <3>1, <2>4, <1>1, <1>2
    <3>2. CASE n # p.to
      <4>1. history[n].ago <= ticksSince(p)
        BY <3>2, <2>1, <2>5, <1>1, <1>2 DEF IsRemembered
      <4>2. history[n].ago \in Int /\ ticksSince(p) \in Int
        BY <1>1, TicksType, OnDemandAssumption DEF IInv, TypeOK
      <4> QED BY <3>2, <4>1, <4>2, <2>4, <1>1, <1>2
    <3> QED BY <3>1, <3>2
  <2>6. IsRemembered(q)'
    BY <2>2, <2>3, <2>5 DEF IsRemembered, visited, ticksSince
  <2> QED BY <2>6 DEF q
<1> QED BY <1>3, <1>4, <1>5

LEMMA ReceiveRequestRemembers ==
    ASSUME IInv, Remembered, NEW p \in air, ReceiveRequest(p)
    PROVE  Remembered'
<1>1. p.kind = "RREQ" /\ bcastId' = bcastId /\ bcastId \in Nat
  BY OnDemandAssumption DEF ReceiveRequest, IInv, TypeOK
<1>2. CASE DropRequest(p)
  <2>1. history' = history /\ air' \subseteq air
    BY <1>2 DEF DropRequest
  <2>2. \A q \in air : IsRemembered(q)'
    BY <2>1, <1>1, CountingRemembers DEF Remembered, IInv, TypeOK
  <2> QED BY <2>1, <2>2, <1>1 DEF Remembered
<1>3. CASE SwallowRequest(p)
  <2>1. record(p) /\ air' \subseteq air
    BY <1>3 DEF SwallowRequest
  <2> QED BY <2>1, <1>1, RecordingRemembers DEF Remembered
<1>4. CASE ReplyToRequest(p)
  <2>1. PICK m : sends({message("RREP", 0, 1, <<Dst>>, <<>>, m)}, air \ {p}) /\ record(p)
    BY <1>4 DEF ReplyToRequest
  <2>2. IsRemembered(message("RREP", 0, 1, <<Dst>>, <<>>, m))'
    BY DEF message, IsRemembered
  <2>3. \A q \in air' : q \in air \/ q = message("RREP", 0, 1, <<Dst>>, <<>>, m)
    BY <2>1 DEF sends
  <2> QED BY <2>1, <2>2, <2>3, <1>1, RecordingRemembers DEF Remembered
<1>5. CASE ForwardRequest(p)
  <2>1. record(p) /\ p.to # Dst
    BY <1>5 DEF ForwardRequest
  <2>2. \A q \in air' : q \in air \/ \E m : q = relayed(p, p.to, m)
    BY <1>5 DEF ForwardRequest, sends
  <2> QED BY <2>1, <2>2, <1>1, RecordingRemembers DEF Remembered
<1> QED BY <1>2, <1>3, <1>4, <1>5 DEF ReceiveRequest

LEMMA ReceiveReplyRemembers ==
    ASSUME IInv, Remembered, NEW p \in air, ReceiveReply(p)
    PROVE  Remembered'
<1>1. /\ p.kind = "RREP" /\ bcastId' = bcastId /\ history' = history /\ bcastId \in Nat
  BY OnDemandAssumption DEF ReceiveReply, IInv, TypeOK
<1>2. \A q \in air : IsRemembered(q)'
  BY <1>1, CountingRemembers DEF Remembered, IInv, TypeOK
<1>3. \A q \in air' : q \in air \/ \E m : q = relayed(p, p.to, m)
  BY DEF ReceiveReply, DropReply, TakeReply, ForwardReply, sends
<1>4. \A m : IsRemembered(relayed(p, p.to, m))'
  BY <1>1 DEF relayed, message, IsRemembered
<1> QED BY <1>1, <1>2, <1>3, <1>4 DEF Remembered

LEMMA NextRemembers == IInv /\ Remembered /\ [Next]_vars => Remembered'
<1>1. IInv /\ Remembered /\ (UNCHANGED vars \/ RecordRequest) => Remembered'
  BY DEF vars, RecordRequest, Remembered, IsRemembered, visited, ticksSince
<1> QED
  BY <1>1, RouteExploreRemembers, TimeoutRemembers, ReceiveRequestRemembers,
     ReceiveReplyRemembers DEF Next

LEMMA InitRemembers == Init => Remembered
BY DEF Init, Remembered

\* A request has been at each device but Dst once at most.
LEMMA RequestsAreShort ==
    ASSUME IsFiniteSet(Nodes), NEW p, Good(p), ~visited(p, Dst)
    PROVE  Len(p.path) < Cardinality(Nodes)
<1> DEFINE k == Len(p.path)
           others == Nodes \ {Dst}
<1>1. k \in Nat /\ p.path \in [1 .. k -> Nodes]
  BY DEF Good, IsMessage, Message
<1>2. p.path \in [1 .. k -> others]
  BY <1>1 DEF visited
<1>3. IsFiniteSet(others) /\ Cardinality(others) = Cardinality(Nodes) - 1
      /\ Cardinality(others) \in Nat /\ Cardinality(Nodes) \in Nat
  BY FS_RemoveElement, FS_CardinalityType, OnDemandAssumption
<1>4. IsFiniteSet(1 .. k) /\ Cardinality(1 .. k) = k
  <2> HIDE DEF k
  <2>1. 1 \in Int /\ k \in Int
    BY <1>1
  <2>2. IsFiniteSet(1 .. k) /\ Cardinality(1 .. k) = IF 1 > k THEN 0 ELSE k - 1 + 1
    BY <2>1, FS_Interval
  <2> QED BY <2>2, <1>1
<1>5. ~(Cardinality(others) < Cardinality(1 .. k))
  <2> SUFFICES ASSUME Cardinality(others) < Cardinality(1 .. k) PROVE FALSE
    OBVIOUS
  <2>1. \E i, j \in 1 .. k : i # j /\ p.path[i] = p.path[j]
    <3> HIDE DEF k, others
    <3> QED BY <1>2, <1>3, <1>4, FS_PigeonHole
  <2> QED BY <2>1 DEF Good, IsSimple
<1> QED BY <1>1, <1>3, <1>4, <1>5

-----------------------------------------------------------------------------

\* The invariant holds for ever (OnDemandDV: all handlers, the timer and API threads).
THEOREM InvariantHolds == Spec => []IInv
BY InitIInv, NextIInv, PTL DEF Spec

\* The histories, counters and messages of OnDemandDV have their types: for each relay a
\* message tells a metric.
THEOREM TypeCorrect == Spec => []TypeOK
<1>1. IInv => TypeOK
  BY DEF IInv
<1> QED BY <1>1, InvariantHolds, PTL

\* The path in a request or a reply is free of circles, in a network of any shape
\* (readRelayNodes).
THEOREM RelaysFormNoCircle == Spec => []PathsAreSimple
<1>1. IInv => PathsAreSimple
  BY DEF IInv
<1> QED BY <1>1, InvariantHolds, PTL

\* No message makes a route look better than the way it came, whatever its length and the
\* metrics of the links (updateRelayNodesRoutes).
THEOREM RoutesAreNotUnderstated == Spec => []NeverUnderstated
<1>1. IInv => NeverUnderstated
  BY AllGood, CostIsTold DEF NeverUnderstated
<1> QED BY <1>1, InvariantHolds, PTL

\* The requests on air are remembered for as long as they circulate.
THEOREM RequestsAreRemembered == Spec => []Remembered
BY InitRemembers, NextRemembers, InvariantHolds, PTL DEF Spec

\* In a network of no more devices than a history lasts ticks, a device passes on or answers
\* only newer requests (receiveRequest): BCAST_TBL_EXPIRE_MS are some 50 rounds of the timer.
THEOREM RequestsAreNotRepeated ==
    IsFiniteSet(Nodes) /\ Cardinality(Nodes) <= HistoryTicks => (Spec => OnlyNewerRequests)
<1>0. SUFFICES ASSUME IsFiniteSet(Nodes), Cardinality(Nodes) <= HistoryTicks
               PROVE  Spec => OnlyNewerRequests
  OBVIOUS
<1>1. ASSUME IInv, Remembered, [Next]_vars
      PROVE  [\A n \in Nodes : history'[n] # history[n] =>
                \/ history'[n].id > history[n].id
                \/ history'[n].id = history[n].id /\ history'[n].ago > history[n].ago]_vars
  <2> DEFINE Newer == \A n \in Nodes : history'[n] # history[n] =>
                        \/ history'[n].id > history[n].id
                        \/ /\ history'[n].id = history[n].id
                           /\ history'[n].ago > history[n].ago
  <2> SUFFICES ASSUME Next PROVE Newer
    BY <1>1
  <2>1. CASE history' = history
    BY <2>1
  <2>2. CASE Timeout
    <3> TAKE n \in Nodes
    <3>1. history[n].ago \in Nat /\ history[n] = [id |-> history[n].id, ago |-> history[n].ago]
      BY <1>1, OnDemandAssumption DEF IInv, TypeOK
    <3>2. history'[n] = [history[n] EXCEPT !.ago = IF @ < HistoryTicks THEN @ + 1 ELSE @]
      BY <2>2 DEF Timeout
    <3>3. history[n].ago < HistoryTicks \/ history'[n] = history[n]
      BY <3>1, <3>2
    <3> QED BY <3>1, <3>2, <3>3
  <2>3. ASSUME NEW p \in air, ReceiveRequest(p), accepts(p), record(p) PROVE Newer
    <3>1. Good(p) /\ IsRemembered(p) /\ p.kind = "RREQ"
      BY <1>1, <2>3, IInvParts DEF Remembered, ReceiveRequest
    <3>2. /\ p.to \in Nodes /\ p.id \in Nat /\ Len(p.path) \in Nat
          /\ history[p.to].id \in Nat /\ history[p.to].ago \in Nat
          /\ Cardinality(Nodes) \in Nat /\ HistoryTicks \in Nat
      BY <1>0, <1>1, <3>1, OnDemandAssumption, FS_CardinalityType
         DEF Good, IsMessage, Message, IInv, TypeOK
    <3>3. Len(p.path) < Cardinality(Nodes)
      BY <1>0, <3>1, RequestsAreShort DEF IsRemembered
    <3>4. ASSUME p.id <= history[p.to].id PROVE FALSE
      <4>1. history[p.to].ago <= ticksSince(p) /\ ticksSince(p) <= Len(p.path)
        BY <3>1, <3>2, <3>4, TicksType DEF IsRemembered, Good
      <4>2. ticksSince(p) \in Int
        BY <3>1, TicksType DEF Good
      <4>3. ~(history[p.to].ago < HistoryTicks)
        BY <2>3, <3>4 DEF accepts, seen
      <4> QED BY <1>0, <3>2, <3>3, <4>1, <4>2, <4>3
    <3>5. \A n \in Nodes :
            history'[n] = IF n = p.to THEN [id |-> p.id, ago |-> 0] ELSE history[n]
      BY <1>1, <2>3 DEF record, IInv, TypeOK
    <3> QED BY <3>2, <3>4, <3>5
  <2>4. \/ history' = history \/ Timeout
        \/ \E p \in air : ReceiveRequest(p) /\ accepts(p) /\ record(p)
    BY <1>1 DEF Next, RouteExplore, RecordRequest, ReceiveRequest, DropRequest,
                SwallowRequest, ReplyToRequest, ForwardRequest, ReceiveReply
  <2> QED BY <2>1, <2>2, <2>3, <2>4
<1> QED BY <1>1, InvariantHolds, RequestsAreRemembered, PTL DEF Spec, OnlyNewerRequests

\* An exploration ends after SEND_RREQ_MAX_RETRY_CNT requests, for any ttl and timing
\* (timeout).
THEOREM ExplorationsAreBounded == Spec => []RetriesAreBounded
<1>1. IInv => RetriesAreBounded
  BY DEF IInv
<1> QED BY <1>1, InvariantHolds, PTL
=============================================================================
