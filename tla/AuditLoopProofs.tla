--------------------------- MODULE AuditLoopProofs ---------------------------
EXTENDS AuditLoop, FiniteSetTheorems, WellFoundedInduction, TLAPS

-----------------------------------------------------------------------------
(* Least numbers, and what they give in place of induction. *)

LEMMA LeastOf ==
  ASSUME NEW S \in SUBSET Nat, S # {}
  PROVE  \E n \in S : \A m \in S : n <= m
<1> DEFINE R == {p \in Nat \X Nat : p[1] < p[2]}
<1>1. R = OpToRel(<, Nat)
  BY DEF OpToRel
<1>2. IsWellFoundedOn(R, Nat)
  BY <1>1, NatLessThanWellFounded
<1>3. \E x \in S : \A y \in S : ~ (<<y, x>> \in R)
  BY <1>2, WFMin
<1>4. \A x, y \in Nat : y < x => <<y, x>> \in R
  OBVIOUS
<1> HIDE DEF R
<1>5. PICK n \in S : \A y \in S : ~ (<<y, n>> \in R)
  BY <1>3
<1>6. ASSUME NEW m \in S PROVE n <= m
  <2>1. n \in Nat /\ m \in Nat
    OBVIOUS
  <2>2. ~ (m < n)
    BY <1>4, <1>5, <2>1
  <2> QED
    BY <2>1, <2>2
<1> QED
  BY <1>6

(* A set of the numbers up to N that holds 0 and the successors of its own. *)
LEMMA UpToAll ==
  ASSUME NEW N \in Nat, NEW S, 0 \in S,
         \A n \in 0..N : n > 0 /\ n - 1 \in S => n \in S
  PROVE  0..N \subseteq S /\ N \in S
<1> DEFINE T == (0..N) \ S
<1> SUFFICES ASSUME T # {} PROVE FALSE
  OBVIOUS
<1>1. T \in SUBSET Nat
  OBVIOUS
<1> HIDE DEF T
<1>2. PICK n \in T : \A m \in T : n <= m
  BY <1>1, LeastOf
<1>3. n \in 0..N /\ n > 0 /\ n - 1 \in 0..N /\ n - 1 \notin T
  <2>1. n \in 0..N /\ n # 0
    BY <1>2 DEF T
  <2> QED
    BY <1>2, <2>1
<1> QED
  BY <1>2, <1>3 DEF T

-----------------------------------------------------------------------------
(* Tally. *)

IsTally(f, g, N) == f = [n \in 0..N |-> IF n = 0 THEN 0 ELSE f[n - 1] + g[n]]

LEMMA TallyExists ==
  ASSUME NEW N \in Nat, NEW g
  PROVE  \E f : IsTally(f, g, N)
<1> DEFINE S == {n \in Nat : \E f : IsTally(f, g, n)}
<1>1. 0 \in S
  <2>1. IsTally([n \in 0..0 |-> 0], g, 0)
    BY DEF IsTally
  <2> QED
    BY <2>1
<1>2. ASSUME NEW n \in 0..N, n > 0, n - 1 \in S PROVE n \in S
  <2>1. PICK f : IsTally(f, g, n - 1)
    BY <1>2
  <2> DEFINE h == [i \in 0..n |-> IF i = n THEN f[n - 1] + g[n] ELSE f[i]]
  <2>2. \A i \in 0..(n - 1) : f[i] = IF i = 0 THEN 0 ELSE f[i - 1] + g[i]
    BY <2>1 DEF IsTally
  <2>3. \A i \in 0..n : h[i] = IF i = 0 THEN 0 ELSE h[i - 1] + g[i]
    BY <1>2, <2>2
  <2>4. IsTally(h, g, n)
    BY <2>3 DEF IsTally
  <2> QED
    BY <1>2, <2>4
<1> HIDE DEF S
<1>3. N \in S
  BY <1>1, <1>2, UpToAll
<1> QED
  BY <1>3 DEF S

LEMMA TallyIs ==
  ASSUME NEW N \in Nat, NEW g
  PROVE  \E f : IsTally(f, g, N) /\ Tally(g, N) = f[N]
<1>1. Tally(g, N) = (CHOOSE f : IsTally(f, g, N))[N]
  BY DEF Tally, IsTally
<1> QED
  BY <1>1, TallyExists

(* The recurrence that Tally solves. *)
LEMMA TallyFun ==
  ASSUME NEW N \in Nat, NEW g \in [1..N -> Int]
  PROVE  \E f \in [0..N -> Int] : /\ f[0] = 0 /\ f[N] = Tally(g, N)
                                  /\ \A n \in 1..N : f[n] = f[n - 1] + g[n]
<1>1. PICK f : IsTally(f, g, N) /\ Tally(g, N) = f[N]
  BY TallyIs
<1>2. f[0] = 0 /\ \A n \in 1..N : f[n] = f[n - 1] + g[n]
  BY <1>1 DEF IsTally
<1> DEFINE S == {n \in Nat : n \in 0..N /\ f[n] \in Int}
<1>3. 0 \in S
  BY <1>2
<1>4. ASSUME NEW n \in 0..N, n > 0, n - 1 \in S PROVE n \in S
  BY <1>2, <1>4
<1> HIDE DEF S
<1>5. 0..N \subseteq S
  BY <1>3, <1>4, UpToAll
<1>6. f \in [0..N -> Int]
  BY <1>1, <1>5 DEF S, IsTally
<1> QED
  BY <1>1, <1>2, <1>6

LEMMA TallyInt ==
  ASSUME NEW N \in Nat, NEW g \in [1..N -> Int]
  PROVE  Tally(g, N) \in Int
BY TallyFun

LEMMA TallyMonotone ==
  ASSUME NEW N \in Nat, NEW g \in [1..N -> Int], NEW h \in [1..N -> Int],
         \A n \in 1..N : g[n] <= h[n]
  PROVE  Tally(g, N) <= Tally(h, N)
<1>1. PICK f \in [0..N -> Int] : /\ f[0] = 0 /\ f[N] = Tally(g, N)
                                /\ \A n \in 1..N : f[n] = f[n - 1] + g[n]
  BY TallyFun
<1>2. PICK e \in [0..N -> Int] : /\ e[0] = 0 /\ e[N] = Tally(h, N)
                                /\ \A n \in 1..N : e[n] = e[n - 1] + h[n]
  BY TallyFun
<1> DEFINE S == {n \in Nat : n \in 0..N /\ f[n] <= e[n]}
<1>3. 0 \in S
  BY <1>1, <1>2
<1>4. ASSUME NEW n \in 0..N, n > 0, n - 1 \in S PROVE n \in S
  BY <1>1, <1>2, <1>4
<1> HIDE DEF S
<1>5. N \in S
  BY <1>3, <1>4, UpToAll
<1> QED
  BY <1>1, <1>2, <1>5 DEF S

LEMMA TallySum ==
  ASSUME NEW N \in Nat, NEW g \in [1..N -> Int], NEW h \in [1..N -> Int], NEW k \in [1..N -> Int],
         \A n \in 1..N : k[n] = g[n] + h[n]
  PROVE  Tally(k, N) = Tally(g, N) + Tally(h, N)
<1>1. PICK f \in [0..N -> Int] : /\ f[0] = 0 /\ f[N] = Tally(g, N)
                                /\ \A n \in 1..N : f[n] = f[n - 1] + g[n]
  BY TallyFun
<1>2. PICK e \in [0..N -> Int] : /\ e[0] = 0 /\ e[N] = Tally(h, N)
                                /\ \A n \in 1..N : e[n] = e[n - 1] + h[n]
  BY TallyFun
<1>3. PICK d \in [0..N -> Int] : /\ d[0] = 0 /\ d[N] = Tally(k, N)
                                /\ \A n \in 1..N : d[n] = d[n - 1] + k[n]
  BY TallyFun
<1> DEFINE S == {n \in Nat : n \in 0..N /\ d[n] = f[n] + e[n]}
<1>4. 0 \in S
  BY <1>1, <1>2, <1>3
<1>5. ASSUME NEW n \in 0..N, n > 0, n - 1 \in S PROVE n \in S
  BY <1>1, <1>2, <1>3, <1>5
<1> HIDE DEF S
<1>6. N \in S
  BY <1>4, <1>5, UpToAll
<1> QED
  BY <1>1, <1>2, <1>3, <1>6 DEF S

(* So many more of one value. *)
LEMMA TallyMore ==
  ASSUME NEW N \in Nat, NEW M \in Nat, N <= M, NEW c \in Int,
         NEW g \in [1..N -> Int], NEW h \in [1..M -> Int],
         \A n \in 1..N : h[n] = g[n],
         \A n \in (N + 1)..M : h[n] = c
  PROVE  Tally(h, M) = Tally(g, N) + (M - N) * c
<1>1. PICK f \in [0..N -> Int] : /\ f[0] = 0 /\ f[N] = Tally(g, N)
                                /\ \A n \in 1..N : f[n] = f[n - 1] + g[n]
  BY TallyFun
<1>2. PICK e \in [0..M -> Int] : /\ e[0] = 0 /\ e[M] = Tally(h, M)
                                /\ \A n \in 1..M : e[n] = e[n - 1] + h[n]
  BY TallyFun
<1>3. e[N] = f[N]
  <2> DEFINE S == {n \in Nat : n \in 0..N /\ e[n] = f[n]}
  <2>1. 0 \in S
    BY <1>1, <1>2
  <2>2. ASSUME NEW n \in 0..N, n > 0, n - 1 \in S PROVE n \in S
    BY <1>1, <1>2, <2>2
  <2> HIDE DEF S
  <2>3. N \in S
    BY <2>1, <2>2, UpToAll
  <2> QED
    BY <2>3 DEF S
<1> DEFINE S == {n \in Nat : N + n <= M /\ e[N + n] = f[N] + n * c}
<1>4. 0 \in S
  BY <1>3
<1>5. ASSUME NEW n \in 0..(M - N), n > 0, n - 1 \in S PROVE n \in S
  <2>0. n \in Nat /\ n <= M - N /\ n > 0 /\ e[N + (n - 1)] = f[N] + (n - 1) * c
    BY <1>5
  <2> HIDE DEF S
  <2>1. N + n \in 1..M /\ (N + n) - 1 = N + (n - 1)
    BY <2>0
  <2>2. e[N + n] = e[N + (n - 1)] + c
    <3> DEFINE m == N + n
    <3>1. m \in (N + 1)..M
      BY <2>0, <2>1
    <3> HIDE DEF m
    <3>2. h[m] = c /\ e[m] = e[m - 1] + h[m]
      BY <1>2, <3>1
    <3> QED
      BY <2>1, <3>2 DEF m
  <2>3. e[N + (n - 1)] = f[N] + (n - 1) * c
    BY <2>0
  <2>4. (n - 1) * c + c = n * c
    OBVIOUS
  <2>5. f[N] \in Int /\ (n - 1) * c \in Int /\ n * c \in Int
    BY <1>1
  <2>6. e[N + n] = f[N] + n * c
    BY <2>2, <2>3, <2>4, <2>5
  <2> QED
    BY <2>0, <2>1, <2>6 DEF S
<1>6. M - N \in Nat
  OBVIOUS
<1> HIDE DEF S
<1>7. M - N \in S
  BY <1>4, <1>5, <1>6, UpToAll
<1>8. N + (M - N) = M
  OBVIOUS
<1> QED
  BY <1>1, <1>2, <1>7, <1>8 DEF S

-----------------------------------------------------------------------------
(* A group of parallel passes is made of passes. *)

Grow(s, n) ==
  LET p == Queue[n] IN
    IF queue[p].done \/ \E q \in ToSet(s) : {<<p, q>>, <<q, p>>} \cap Meets # {}
    THEN s ELSE Append(s, p)

IsGroup(f, N) == f = [n \in 0..N |-> IF n = 0 THEN <<>> ELSE Grow(f[n - 1], n)]

LEMMA GroupExists ==
  ASSUME NEW N \in Nat
  PROVE  \E f : IsGroup(f, N)
<1> DEFINE S == {n \in Nat : \E f : IsGroup(f, n)}
<1>1. 0 \in S
  <2>1. IsGroup([n \in 0..0 |-> <<>>], 0)
    BY DEF IsGroup
  <2> QED
    BY <2>1
<1>2. ASSUME NEW n \in 0..N, n > 0, n - 1 \in S PROVE n \in S
  <2>1. PICK f : IsGroup(f, n - 1)
    BY <1>2
  <2> DEFINE h == [i \in 0..n |-> IF i = n THEN Grow(f[n - 1], n) ELSE f[i]]
  <2>2. \A i \in 0..(n - 1) : f[i] = IF i = 0 THEN <<>> ELSE Grow(f[i - 1], i)
    BY <2>1 DEF IsGroup
  <2>3. \A i \in 0..n : h[i] = IF i = 0 THEN <<>> ELSE Grow(h[i - 1], i)
    BY <1>2, <2>2
  <2>4. IsGroup(h, n)
    BY <2>3 DEF IsGroup
  <2> QED
    BY <1>2, <2>4
<1> HIDE DEF S
<1>3. N \in S
  BY <1>1, <1>2, UpToAll
<1> QED
  BY <1>3 DEF S

LEMMA GroupType == _parallel_group \in Seq(Passes)
<1> DEFINE N == Len(Queue)
<1>1. N \in Nat
  BY QueueAssumption
<1>2. _group = CHOOSE f : IsGroup(f, N)
  BY DEF _group, IsGroup, Grow
<1>3. IsGroup(_group, N)
  BY <1>1, <1>2, GroupExists
<1>4. \A n \in 0..N : _group[n] = IF n = 0 THEN <<>> ELSE Grow(_group[n - 1], n)
  BY <1>3 DEF IsGroup
<1> DEFINE S == {n \in Nat : n \in 0..N /\ _group[n] \in Seq(Passes)}
<1> HIDE DEF N
<1>5. 0 \in S
  <2>1. 0 \in 0..N /\ <<>> \in Seq(Passes)
    BY <1>1
  <2>2. _group[0] = <<>>
    BY <1>4, <2>1
  <2> QED
    BY <2>1, <2>2
<1>6. ASSUME NEW n \in 0..N, n > 0, n - 1 \in S PROVE n \in S
  <2>1. _group[n - 1] \in Seq(Passes) /\ _group[n] = Grow(_group[n - 1], n)
    BY <1>4, <1>6
  <2>2. Queue[n] \in Passes
    BY <1>6, QueueAssumption DEF N
  <2>3. \A t \in Seq(Passes) : Grow(t, n) \in Seq(Passes)
    BY <2>2 DEF Grow
  <2> QED
    BY <1>6, <2>1, <2>3
<1> HIDE DEF S
<1>7. N \in S
  BY <1>1, <1>5, <1>6, UpToAll
<1> QED
  BY <1>7 DEF S, N, _parallel_group

-----------------------------------------------------------------------------
(* The types. *)

Sess == [pass : Passes \cup {Nobody}, parallel : BOOLEAN, isRetry : BOOLEAN,
         turn : Nat, loop : Nat, kind : {"run-other", "run-auditor"},
         key : Nat \X Nat, moved : Moves, spent : Nat,
         seen : {"open", "provider", "agent", "none"}]

TypeOK ==
  /\ queue \in [Passes -> [done : BOOLEAN, slice : Nat]]
  /\ other \in BOOLEAN /\ source \in {0, 1} /\ base \in {0, 1}
  /\ stream \in Seq(Sess)
  /\ pc \in {"over", "top", "session", "parallel", "after", "retry"}
  /\ {attempt, turn, clock, stall, loops} \subseteq Nat
  /\ prev \in {"none", "run-other", "run-auditor"}

LEMMA Constants ==
  /\ After \in Nat \ {0} /\ Reservation \in Nat \ {0} /\ Ceiling \in Nat
  /\ RetryLimit \in Nat /\ ProgressLimit \in Nat /\ Timeout \in Nat \ {0} /\ Workers \in Nat \ {0}
BY LimitAssumption

LEMMA TwoMax ==
  ASSUME NEW a \in Int, NEW b \in Int
  PROVE  Max({a, b}) \in Int /\ Max({a, b}) = IF a >= b THEN a ELSE b
BY DEF Max

LEMMA TwoMin ==
  ASSUME NEW a \in Int, NEW b \in Int
  PROVE  Min({a, b}) \in Int /\ Min({a, b}) = IF a <= b THEN a ELSE b
BY DEF Min

LEMMA ChargeIs ==
  ASSUME NEW s \in Sess
  PROVE  /\ Charge(s) \in Nat
         /\ s.seen = "provider" => Charge(s) = s.spent
         /\ s.seen = "agent" => Charge(s) >= Reservation /\ Charge(s) >= s.spent
                                /\ (Charge(s) = Reservation \/ Charge(s) = s.spent)
         /\ s.seen \in {"open", "none"} => Charge(s) = Reservation
<1>1. s.spent \in Nat /\ s.seen \in {"open", "provider", "agent", "none"}
  BY DEF Sess
<1>2. Max({Reservation, s.spent}) = IF Reservation >= s.spent THEN Reservation ELSE s.spent
  BY <1>1, Constants, TwoMax
<1> QED
  BY <1>1, <1>2, Constants DEF Charge

LEMMA ChargedInt ==
  ASSUME TypeOK
  PROVE  Charged \in Int
<1>1. Len(stream) \in Nat /\ DOMAIN stream = 1..Len(stream)
  BY DEF TypeOK
<1>2. \A n \in DOMAIN stream : stream[n] \in Sess
  BY DEF TypeOK
<1>3. [n \in DOMAIN stream |-> Charge(stream[n])] \in [1..Len(stream) -> Int]
  BY <1>1, <1>2, ChargeIs
<1> QED
  BY <1>1, <1>3, TallyInt DEF Charged

(* Dividing and multiplying again does not gain. *)
LEMMA Division ==
  ASSUME NEW a \in Int, NEW r \in Nat \ {0}, NEW n \in Nat, n <= a \div r
  PROVE  n * r <= a
<1>1. (a \div r) \in Int /\ (a \div r) * r <= a
  OBVIOUS
<1>2. PICK q \in Int : q = a \div r /\ q * r <= a
  BY <1>1
<1>3. PICK d \in Nat : q = n + d
  BY <1>2
<1>4. q * r = n * r + d * r
  BY <1>3
<1>5. d * r >= 0 /\ n * r \in Int /\ d * r \in Int
  OBVIOUS
<1> QED
  BY <1>2, <1>4, <1>5

(* budget.admit: what is admitted fits under the ceiling. *)
LEMMA Admitted ==
  ASSUME TypeOK, NEW n \in Nat \ {0}
  PROVE  /\ admit(n) \in 0..n
         /\ admit(n) >= 1 => Charged + admit(n) * Reservation <= Ceiling
         /\ admit(1) >= 1 => admit(n) >= 1
<1> DEFINE x == (Ceiling - Charged) \div Reservation
<1>1. Charged \in Int /\ Ceiling - Charged \in Int /\ x \in Int
  BY ChargedInt, Constants
<1>2. /\ admit(n) = Max({0, Min({n, x})})
      /\ admit(1) = Max({0, Min({1, x})})
  BY DEF admit
<1>3. \A m \in Nat : (m <= x) => m * Reservation <= Ceiling - Charged
  BY <1>1, Constants, Division
<1> HIDE DEF x
<1>4. Min({n, x}) = (IF n <= x THEN n ELSE x) /\ Min({1, x}) = (IF 1 <= x THEN 1 ELSE x)
      /\ Min({n, x}) \in Int /\ Min({1, x}) \in Int
  BY <1>1, TwoMin
<1>5. /\ admit(n) = IF 0 >= Min({n, x}) THEN 0 ELSE Min({n, x})
      /\ admit(1) = IF 0 >= Min({1, x}) THEN 0 ELSE Min({1, x})
  BY <1>2, <1>4, TwoMax
<1>6. admit(n) \in 0..n /\ (admit(n) >= 1 => admit(n) <= x) /\ (admit(1) >= 1 => admit(n) >= 1)
  BY <1>1, <1>4, <1>5
<1>7. ASSUME admit(n) >= 1 PROVE Charged + admit(n) * Reservation <= Ceiling
  <2>1. admit(n) \in Nat /\ admit(n) * Reservation <= Ceiling - Charged
    BY <1>3, <1>6, <1>7
  <2> DEFINE k == admit(n) * Reservation
  <2>2. k \in Int
    BY <2>1, Constants
  <2> HIDE DEF k
  <2>3. k <= Ceiling - Charged
    BY <2>1 DEF k
  <2>4. Charged + k <= Ceiling
    BY <1>1, <2>2, <2>3, Constants
  <2> QED
    BY <2>4 DEF k
<1> QED
  BY <1>6, <1>7

LEMMA Joined ==
  ASSUME NEW S, NEW s \in Seq(S), NEW k \in Nat, NEW f \in [1..k -> S]
  PROVE  /\ s \o f \in Seq(S) /\ Len(s \o f) = Len(s) + k
         /\ \A n \in 1..Len(s) : (s \o f)[n] = s[n]
         /\ \A n \in (Len(s) + 1)..(Len(s) + k) :
              n - Len(s) \in 1..k /\ (s \o f)[n] = f[n - Len(s)]
<1>1. f \in Seq(S) /\ Len(f) = k
  OBVIOUS
<1>2. s \o f \in Seq(S) /\ Len(s \o f) = Len(s) + k
  BY <1>1
<1>3. \A n \in 1..Len(s) : (s \o f)[n] = s[n]
  BY <1>1
<1>4. \A n \in (Len(s) + 1)..(Len(s) + k) : n - Len(s) \in 1..k
  OBVIOUS
<1>5. \A n \in (Len(s) + 1)..(Len(s) + k) : (s \o f)[n] = f[n - Len(s)]
  BY <1>1, <1>4
<1> QED
  BY <1>2, <1>3, <1>4, <1>5

-----------------------------------------------------------------------------
(* What a step does to the stream. *)

Tail1 == stream[Len(stream)]

Placed ==
  /\ \A n \in DOMAIN stream :
       /\ stream[n].loop <= loops
       /\ stream[n].loop = loops => stream[n].turn <= turn
       /\ stream[n].loop = loops /\ pc = "top" => stream[n].turn < turn
       /\ stream[n].seen = "open" => stream[n].moved = "none" /\ stream[n].spent = 0
  /\ pc \in {"session", "retry", "parallel", "after"} =>
       stream # <<>> /\ Tail1.turn = turn /\ Tail1.loop = loops
  /\ pc = "session" => Tail1.seen = "open"
  /\ pc \in {"session", "retry"} => ~Tail1.parallel
  /\ pc = "parallel" => \A n \in DOMAIN stream :
       stream[n].loop = loops /\ stream[n].turn = turn => stream[n].parallel

IsFresh(s) == /\ s \in Sess /\ s.turn = turn /\ s.loop = loops
              /\ s.moved = "none" /\ s.spent = 0 /\ s.seen = "open"
              /\ s.pass # Nobody => s.key = Key(s.pass)

(* So many sessions are dispatched, and admitted. *)
Adds(k) == /\ k \in Nat \ {0}
           /\ stream' \in Seq(Sess) /\ Len(stream') = Len(stream) + k
           /\ \A n \in 1..Len(stream) : stream'[n] = stream[n]
           /\ \A n \in (Len(stream) + 1)..(Len(stream) + k) : IsFresh(stream'[n])
           /\ Charged + k * Reservation <= Ceiling

(* One of the sessions that were dispatched last ends. *)
Closes(n, m) ==
  /\ n \in DOMAIN stream /\ n \in LastBatch
  /\ stream[n].seen = "open" /\ stream[n].turn = turn /\ stream[n].loop = loops
  /\ stream' \in Seq(Sess) /\ Len(stream') = Len(stream)
  /\ \A i \in DOMAIN stream : i # n => stream'[i] = stream[i]
  /\ stream'[n].pass = stream[n].pass /\ stream'[n].parallel = stream[n].parallel
  /\ stream'[n].isRetry = stream[n].isRetry /\ stream'[n].turn = stream[n].turn
  /\ stream'[n].loop = stream[n].loop /\ stream'[n].kind = stream[n].kind
  /\ stream'[n].key = stream[n].key /\ stream'[n].moved = m
  /\ stream'[n].seen \in {"provider", "agent", "none"}

LEMMA Streams ==
  ASSUME TypeOK
  PROVE  /\ Len(stream) \in Nat /\ DOMAIN stream = 1..Len(stream)
         /\ \A n \in DOMAIN stream : stream[n] \in Sess
         /\ stream # <<>> => Len(stream) \in DOMAIN stream
         /\ queue \in [Passes -> [done : BOOLEAN, slice : Nat]]
         /\ source \in Nat /\ turn \in Nat /\ loops \in Nat /\ attempt \in Nat
         /\ clock \in Nat /\ stall \in Nat
BY DEF TypeOK

LEMMA FreshOpen ==
  ASSUME TypeOK, NEW p \in Passes \cup {Nobody}, NEW par \in BOOLEAN, NEW ret \in BOOLEAN
  PROVE  /\ IsFresh(Open(p, par, ret))
         /\ Open(p, par, ret).pass = p /\ Open(p, par, ret).parallel = par
<1>1. p # Nobody => Key(p) \in Nat \X Nat
  BY Streams DEF Key
<1>2. (IF p = Nobody THEN <<0, 0>> ELSE Key(p)) \in Nat \X Nat
  BY <1>1
<1> DEFINE k == IF p = Nobody THEN <<0, 0>> ELSE Key(p)
           d == IF p = Nobody THEN "run-other" ELSE "run-auditor"
<1>3. Open(p, par, ret) =
        [pass |-> p, parallel |-> par, isRetry |-> ret, turn |-> turn,
         loop |-> loops, kind |-> d, key |-> k, moved |-> "none", spent |-> 0, seen |-> "open"]
  BY DEF Open
<1>4. k \in Nat \X Nat /\ d \in {"run-other", "run-auditor"} /\ (p # Nobody => k = Key(p))
  BY <1>2
<1> HIDE DEF k, d
<1>5. turn \in Nat /\ loops \in Nat /\ "none" \in Moves
  BY Streams DEF Moves
<1> QED
  BY <1>3, <1>4, <1>5 DEF IsFresh, Sess

(* The decision takes a pass that may be taken. *)
LEMMA ChosenIs ==
  ASSUME Decision \in {"run-other", "run-auditor"}
  PROVE  Chosen \in Takeable \/ Chosen = Nobody
<1>1. CASE other
  BY <1>1 DEF Chosen
<1>2. CASE ~other
  <2>1. Takeable # {}
    BY <1>2 DEF Decision
  <2> DEFINE I == {n \in DOMAIN Queue : Queue[n] \in Takeable}
  <2>2. I # {}
    BY <2>1 DEF Takeable, Unchecked, Passes, ToSet
  <2>3. I \in SUBSET Nat
    BY QueueAssumption
  <2> HIDE DEF I
  <2>4. Min(I) \in I
    BY <2>2, <2>3, LeastOf DEF Min
  <2>5. Chosen = Queue[Min(I)]
    BY <1>2 DEF Chosen, I
  <2> QED
    BY <2>4, <2>5 DEF I
<1> QED
  BY <1>1, <1>2

LEMMA DispatchAdds ==
  ASSUME TypeOK, Dispatch
  PROVE  \/ /\ pc' = "parallel"
            /\ \E k : Adds(k) /\ \A n \in (Len(stream) + 1)..(Len(stream) + k) : stream'[n].parallel
         \/ /\ pc' = "session" /\ Adds(1)
            /\ stream'[Len(stream) + 1] = Open(Chosen, FALSE, FALSE)
<1>1. admit(1) >= 1 /\ Decision \in {"run-other", "run-auditor"}
  <2>1. ~(admit(1) < 1) /\ Decision \in {"run-other", "run-auditor"}
    BY DEF Dispatch, Gated
  <2>2. admit(1) \in 0..1
    BY Admitted
  <2> QED
    BY <2>1, <2>2
<1>2. Len(stream) \in Nat /\ DOMAIN stream = 1..Len(stream) /\ stream \in Seq(Sess)
  BY Streams DEF TypeOK
<1>3. \/ /\ Len(_parallel_group) > 1 /\ pc' = "parallel"
         /\ stream' = stream \o [n \in 1..admit(Len(_parallel_group)) |->
              Open(SubSeq(_parallel_group, 1, admit(Len(_parallel_group)))[n], TRUE, FALSE)]
      \/ stream' = Append(stream, Open(Chosen, FALSE, FALSE)) /\ pc' = "session"
  BY DEF Dispatch
<1>4. CASE /\ Len(_parallel_group) > 1 /\ pc' = "parallel"
           /\ stream' = stream \o [n \in 1..admit(Len(_parallel_group)) |->
                Open(SubSeq(_parallel_group, 1, admit(Len(_parallel_group)))[n], TRUE, FALSE)]
  <2> DEFINE g == _parallel_group
             k == admit(Len(g))
             new == [n \in 1..k |-> Open(SubSeq(g, 1, k)[n], TRUE, FALSE)]
  <2>1. g \in Seq(Passes) /\ Len(g) \in Nat \ {0}
    BY <1>4, GroupType
  <2>2. k \in 1..Len(g) /\ Charged + k * Reservation <= Ceiling
    BY <1>1, <2>1, Admitted
  <2>3. stream' = stream \o new
    BY <1>4
  <2> HIDE DEF g, k
  <2>4. \A n \in 1..k : SubSeq(g, 1, k)[n] \in Passes \cup {Nobody}
    BY <2>1, <2>2
  <2>5. \A n \in 1..k : IsFresh(new[n]) /\ new[n].parallel = TRUE
    BY <2>4, FreshOpen
  <2>6. k \in Nat \ {0} /\ new \in [1..k -> Sess]
    <3>1. k \in Nat \ {0}
      BY <2>1, <2>2
    <3>2. new = [n \in 1..k |-> new[n]] /\ \A n \in 1..k : new[n] \in Sess
      BY <2>5 DEF IsFresh
    <3> HIDE DEF new
    <3> QED
      BY <3>1, <3>2
  <2> HIDE DEF new
  <2>7. /\ stream' \in Seq(Sess) /\ Len(stream') = Len(stream) + k
        /\ \A n \in 1..Len(stream) : stream'[n] = stream[n]
        /\ \A n \in (Len(stream) + 1)..(Len(stream) + k) :
             n - Len(stream) \in 1..k /\ stream'[n] = new[n - Len(stream)]
    <3>1. stream \in Seq(Sess) /\ k \in Nat /\ new \in [1..k -> Sess]
      BY <1>2, <2>6
    <3> DEFINE both == stream \o new
    <3>2. /\ both \in Seq(Sess) /\ Len(both) = Len(stream) + k
          /\ \A n \in 1..Len(stream) : both[n] = stream[n]
          /\ \A n \in (Len(stream) + 1)..(Len(stream) + k) :
               n - Len(stream) \in 1..k /\ both[n] = new[n - Len(stream)]
      BY <3>1, Joined
    <3> QED
      BY <2>3, <3>2
  <2>8. \A n \in (Len(stream) + 1)..(Len(stream) + k) : IsFresh(stream'[n]) /\ stream'[n].parallel
    BY <2>5, <2>7
  <2>9. Adds(k)
    BY <2>2, <2>7, <2>8 DEF Adds
  <2> QED
    BY <1>4, <2>8, <2>9
<1>5. CASE stream' = Append(stream, Open(Chosen, FALSE, FALSE)) /\ pc' = "session"
  <2>1. Chosen \in Passes \cup {Nobody}
    BY <1>1, ChosenIs DEF Takeable, Unchecked
  <2> DEFINE e == Open(Chosen, FALSE, FALSE)
  <2>2. IsFresh(e) /\ e \in Sess
    BY <2>1, FreshOpen DEF IsFresh
  <2>3. stream' = Append(stream, e)
    BY <1>5
  <2> HIDE DEF e
  <2>4. /\ stream' \in Seq(Sess) /\ Len(stream') = Len(stream) + 1
        /\ \A n \in 1..Len(stream) : stream'[n] = stream[n]
        /\ stream'[Len(stream) + 1] = e
    BY <1>2, <2>2, <2>3
  <2>5. Charged + 1 * Reservation <= Ceiling
    <3>1. admit(1) = 1
      BY <1>1, Admitted
    <3> QED
      BY <1>1, <3>1, Admitted
  <2>6. Adds(1)
    BY <1>2, <2>2, <2>4, <2>5 DEF Adds
  <2> QED
    BY <1>5, <2>4, <2>6 DEF e
<1> QED
  BY <1>3, <1>4, <1>5

LEMMA RetryAdds ==
  ASSUME TypeOK, Placed, Retry
  PROVE  \/ stream' = stream /\ attempt' = attempt /\ pc' = "over"
         \/ /\ pc' = "session" /\ attempt' = attempt + 1 /\ Adds(1)
            /\ stream'[Len(stream) + 1] = Open(Tail1.pass, FALSE, TRUE)
<1>1. CASE stream' = stream /\ attempt' = attempt /\ pc' = "over"
  BY <1>1
<1>2. CASE /\ admit(1) = 1 /\ pc' = "session" /\ attempt' = attempt + 1
           /\ stream' = Append(stream, Open(Tail1.pass, FALSE, TRUE))
  <2>1. Len(stream) \in Nat /\ DOMAIN stream = 1..Len(stream) /\ stream \in Seq(Sess)
    BY Streams DEF TypeOK
  <2>2. Tail1 \in Sess
    BY Streams DEF Placed, Retry, Tail1
  <2>3. Tail1.pass \in Passes \cup {Nobody}
    BY <2>2 DEF Sess
  <2> DEFINE e == Open(Tail1.pass, FALSE, TRUE)
  <2>4. IsFresh(e) /\ e \in Sess
    BY <2>3, FreshOpen DEF IsFresh
  <2>5. stream' = Append(stream, e)
    BY <1>2
  <2> HIDE DEF e
  <2>6. /\ stream' \in Seq(Sess) /\ Len(stream') = Len(stream) + 1
        /\ \A n \in 1..Len(stream) : stream'[n] = stream[n]
        /\ stream'[Len(stream) + 1] = e
    BY <2>1, <2>4, <2>5
  <2>7. Charged + 1 * Reservation <= Ceiling
    BY <1>2, Admitted
  <2>8. Adds(1)
    BY <2>1, <2>4, <2>6, <2>7 DEF Adds
  <2> QED
    BY <1>2, <2>6, <2>8 DEF e
<1> QED
  BY <1>1, <1>2 DEF Retry, Tail1, Over

LEMMA EndsIs ==
  ASSUME TypeOK, NEW n \in DOMAIN stream, NEW m \in Moves, Ends(n, m)
  PROVE  /\ stream' \in Seq(Sess) /\ Len(stream') = Len(stream)
         /\ \A i \in DOMAIN stream : i # n => stream'[i] = stream[i]
         /\ stream'[n].pass = stream[n].pass /\ stream'[n].parallel = stream[n].parallel
         /\ stream'[n].isRetry = stream[n].isRetry /\ stream'[n].turn = stream[n].turn
         /\ stream'[n].loop = stream[n].loop /\ stream'[n].kind = stream[n].kind
         /\ stream'[n].key = stream[n].key /\ stream'[n].moved = m
         /\ stream'[n].seen \in {"provider", "agent", "none"}
<1>1. PICK cost \in Costs :
        stream' = [stream EXCEPT ![n].moved = m, ![n].spent = cost[1], ![n].seen = cost[2]]
  BY DEF Ends
<1>2. cost[1] \in Nat /\ cost[2] \in {"provider", "agent", "none"}
  BY LimitAssumption
<1>3. stream \in Seq(Sess) /\ stream[n] \in Sess
  BY Streams DEF TypeOK
<1> DEFINE e == [stream[n] EXCEPT !.moved = m, !.spent = cost[1], !.seen = cost[2]]
<1>4. stream' = [stream EXCEPT ![n] = e]
  BY <1>1, <1>3
<1>5. e \in Sess
  BY <1>2, <1>3 DEF Sess
<1>6. /\ e.pass = stream[n].pass /\ e.parallel = stream[n].parallel
      /\ e.isRetry = stream[n].isRetry /\ e.turn = stream[n].turn
      /\ e.loop = stream[n].loop /\ e.kind = stream[n].kind /\ e.key = stream[n].key
      /\ e.moved = m /\ e.seen \in {"provider", "agent", "none"}
  BY <1>2, <1>3 DEF Sess
<1> HIDE DEF e
<1>7. /\ stream' \in Seq(Sess) /\ Len(stream') = Len(stream) /\ stream'[n] = e
      /\ \A i \in DOMAIN stream : i # n => stream'[i] = stream[i]
  BY <1>3, <1>4, <1>5
<1> QED
  BY <1>6, <1>7

LEMMA SessionCloses ==
  ASSUME TypeOK, Placed, SessionEnds
  PROVE  \E m \in Moves :
           /\ Closes(Len(stream), m) /\ Moved(Tail1.pass, m)
           /\ pc' \in {"after", "retry", "over"} /\ (pc' = "retry" => attempt < RetryLimit)
<1>1. PICK m \in Moves :
        /\ Ends(Len(stream), m) /\ Moved(Tail1.pass, m)
        /\ pc' \in {"after", "retry", "over"} /\ (pc' = "retry" => attempt < RetryLimit)
  BY DEF SessionEnds, Tail1
<1>2. /\ stream # <<>> /\ Tail1.turn = turn /\ Tail1.loop = loops /\ Tail1.seen = "open"
  BY DEF Placed, SessionEnds
<1> DEFINE n == Len(stream)
<1>3. n \in DOMAIN stream /\ stream[n] = Tail1
  BY <1>2, Streams DEF Tail1
<1>4. n \in LastBatch
  BY <1>3 DEF LastBatch
<1> HIDE DEF n
<1>5. Ends(n, m)
  BY <1>1 DEF n
<1>6. Closes(n, m)
  BY <1>2, <1>3, <1>4, <1>5, EndsIs DEF Closes
<1> QED
  BY <1>1, <1>6 DEF n

LEMMA PassCloses ==
  ASSUME TypeOK, Placed, PassEnds
  PROVE  \E n \in DOMAIN stream, m \in Moves :
           /\ Closes(n, m) /\ Moved(stream[n].pass, m) /\ stream[n].parallel
<1> DEFINE n == Min(OpenNow)
<1>1. PICK m \in Moves : Ends(n, m) /\ Moved(stream[n].pass, m)
  BY DEF PassEnds
<1>2. n \in OpenNow
  <2>1. OpenNow # {} /\ OpenNow \in SUBSET Nat
    BY Streams DEF PassEnds, OpenNow
  <2> QED
    BY <2>1, LeastOf DEF Min
<1> HIDE DEF n
<1>3. /\ n \in DOMAIN stream /\ stream[n].seen = "open" /\ stream[n].turn = turn
      /\ stream[n].loop = loops
  BY <1>2 DEF OpenNow
<1>4. stream[n].parallel /\ Tail1.turn = turn /\ Tail1.loop = loops
  BY <1>3 DEF Placed, PassEnds
<1>5. n \in LastBatch
  BY <1>3, <1>4 DEF LastBatch, Tail1
<1>6. Closes(n, m)
  BY <1>1, <1>3, <1>5, EndsIs DEF Closes
<1> QED
  BY <1>1, <1>3, <1>4, <1>6

LEMMA MovedIs ==
  ASSUME TypeOK, NEW p \in Passes \cup {Nobody}, NEW m \in Moves, Moved(p, m)
  PROVE  /\ queue' \in [Passes -> [done : BOOLEAN, slice : Nat]] /\ other' \in BOOLEAN
         /\ \A q \in Passes : \/ queue'[q] = queue[q]
                              \/ queue'[q].slice = queue[q].slice + 1
<1>1. other' \in BOOLEAN
  BY DEF Moved, TypeOK
<1>2. CASE queue' = queue
  BY <1>1, <1>2, Streams
<1>3. CASE p # Nobody /\ queue' = [queue EXCEPT ![p] = [done |-> @.done \/ m = "done", slice |-> @.slice + 1]]
  <2>1. p \in Passes /\ queue[p].done \in BOOLEAN /\ queue[p].slice \in Nat
    BY <1>3, Streams
  <2> DEFINE e == [done |-> queue[p].done \/ m = "done", slice |-> queue[p].slice + 1]
  <2>2. queue' = [queue EXCEPT ![p] = e]
    BY <1>3
  <2>3. (queue[p].done \/ m = "done") \in BOOLEAN /\ queue[p].slice + 1 \in Nat
    BY <2>1
  <2>4. e \in [done : BOOLEAN, slice : Nat] /\ e.slice = queue[p].slice + 1
    BY <2>3
  <2> HIDE DEF e
  <2>5. /\ queue' \in [Passes -> [done : BOOLEAN, slice : Nat]]
        /\ queue'[p] = e /\ \A q \in Passes : q # p => queue'[q] = queue[q]
    BY <2>1, <2>2, <2>4, Streams
  <2> QED
    BY <1>1, <2>4, <2>5
<1> QED
  BY <1>2, <1>3 DEF Moved

(* Every step leaves the stream, adds to it, or closes a session of its end. *)
LEMMA StreamSteps ==
  ASSUME TypeOK, Placed, [Next]_vars
  PROVE  \/ stream' = stream
         \/ \E k : Adds(k)
         \/ \E n, m : Closes(n, m)
<1>1. CASE Dispatch
  BY <1>1, DispatchAdds
<1>2. CASE Retry
  BY <1>2, RetryAdds
<1>3. CASE SessionEnds
  BY <1>3, SessionCloses
<1>4. CASE PassEnds
  BY <1>4, PassCloses
<1>5. CASE Start \/ Triage \/ Repair \/ Stop \/ Gate \/ GroupEnds \/ SessionLost \/ Iterate
  BY <1>5 DEF Start, Triage, Repair, Stop, Gate, GroupEnds, SessionLost, Iterate
<1>6. CASE UNCHANGED vars
  BY <1>6 DEF vars
<1> QED
  BY <1>1, <1>2, <1>3, <1>4, <1>5, <1>6 DEF Next

LEMMA BatchesNat ==
  ASSUME TypeOK
  PROVE  Batches * Timeout \in Nat
<1> DEFINE S == {n \in DOMAIN stream : stream[n].turn = turn /\ stream[n].loop = loops}
           c == Cardinality(S)
           q == (c + Workers - 1) \div Workers
<1>1. IsFiniteSet(S)
  <2>1. IsFiniteSet(1..Len(stream)) /\ S \subseteq 1..Len(stream)
    BY Streams, FS_Interval
  <2> QED
    BY <2>1, FS_Subset
<1>2. c \in Nat
  BY <1>1, FS_CardinalityType
<1>3. Batches = q
  BY DEF Batches
<1> HIDE DEF c
<1>4. q \in Nat
  BY <1>2, Constants
<1> HIDE DEF q
<1>5. q * Timeout \in Nat
  BY <1>4, Constants
<1> QED
  BY <1>3, <1>5

LEMMA TypeStep ==
  ASSUME TypeOK, Placed, [Next]_vars
  PROVE  TypeOK'
<1>0. stream' \in Seq(Sess)
  BY StreamSteps DEF Adds, Closes, TypeOK
<1>1. CASE Start
  BY <1>0, <1>1 DEF Start, TypeOK
<1>2. CASE Triage
  <2>1. queue' \in [Passes -> [done : BOOLEAN, slice : Nat]]
    BY <1>2, Streams DEF Triage
  <2> QED
    BY <1>0, <1>2, <2>1 DEF Triage, TypeOK, loopVars
<1>3. CASE Repair
  BY <1>0, <1>3 DEF Repair, TypeOK, loopVars
<1>4. CASE Stop \/ Gate
  BY <1>0, <1>4 DEF Stop, Gate, TypeOK, loopVars, Over
<1>5. CASE Dispatch
  <2>1. pc' \in {"parallel", "session"}
    BY <1>5, DispatchAdds
  <2>2. attempt' = 0 /\ UNCHANGED <<queue, other, source, turn, clock, stall, prev, base, loops>>
    BY <1>5 DEF Dispatch, loopVars
  <2> QED
    BY <1>0, <2>1, <2>2 DEF TypeOK
<1>6. CASE PassEnds
  <2>1. PICK n \in DOMAIN stream, m \in Moves : Moved(stream[n].pass, m)
    BY <1>6, PassCloses
  <2>2. stream[n].pass \in Passes \cup {Nobody}
    BY Streams DEF Sess
  <2>3. queue' \in [Passes -> [done : BOOLEAN, slice : Nat]] /\ other' \in BOOLEAN
    BY <2>1, <2>2, MovedIs
  <2>4. UNCHANGED <<source, pc, attempt, turn, clock, stall, prev, base, loops>>
    BY <1>6 DEF PassEnds, loopVars
  <2> QED
    BY <1>0, <2>3, <2>4 DEF TypeOK
<1>7. CASE GroupEnds
  <2>1. clock' \in Nat
    BY <1>7, BatchesNat, Streams DEF GroupEnds
  <2> QED
    BY <1>0, <1>7, <2>1 DEF GroupEnds, TypeOK
<1>8. CASE SessionEnds
  <2>1. PICK m \in Moves : Moved(Tail1.pass, m) /\ pc' \in {"after", "retry", "over"}
    BY <1>8, SessionCloses
  <2>2. Tail1.pass \in Passes \cup {Nobody}
    BY <1>8, Streams DEF Sess, Tail1, Placed, SessionEnds
  <2>3. queue' \in [Passes -> [done : BOOLEAN, slice : Nat]] /\ other' \in BOOLEAN
    BY <2>1, <2>2, MovedIs
  <2>4. clock' \in Nat
    BY <1>8, Constants, Streams DEF SessionEnds
  <2>5. UNCHANGED <<source, attempt, turn, stall, prev, base, loops>>
    BY <1>8 DEF SessionEnds
  <2> QED
    BY <1>0, <2>1, <2>3, <2>4, <2>5 DEF TypeOK
<1>9. CASE SessionLost
  <2>1. clock' \in Nat
    BY <1>9, Constants, Streams DEF SessionLost
  <2> QED
    BY <1>0, <1>9, <2>1 DEF SessionLost, TypeOK, Over
<1>10. CASE Retry
  <2>1. pc' \in {"over", "session"} /\ attempt' \in Nat
    <3>1. pc' \in {"over", "session"} /\ (attempt' = attempt \/ attempt' = attempt + 1)
      BY <1>10, RetryAdds
    <3> QED
      BY <3>1, Streams
  <2>2. UNCHANGED <<queue, other, source, turn, clock, stall, prev, base, loops>>
    BY <1>10 DEF Retry, loopVars
  <2> QED
    BY <1>0, <2>1, <2>2 DEF TypeOK
<1>11. CASE Iterate
  <2>1. PICK n \in DOMAIN stream : prev' = stream[n].kind
    <3>1. InTurn(loops, turn) # {} /\ InTurn(loops, turn) \in SUBSET Nat
      BY <1>11, Streams DEF Iterate, Placed, Tail1, InTurn
    <3>2. Min(InTurn(loops, turn)) \in InTurn(loops, turn)
      BY <3>1, LeastOf DEF Min
    <3> QED
      BY <1>11, <3>2 DEF Iterate, KindOf, InTurn
  <2>2. prev' \in {"run-other", "run-auditor"}
    BY <2>1, Streams DEF Sess
  <2>3. stall' \in Nat
    BY <1>11, Streams DEF Iterate, Stalled
  <2>4. pc' \in {"over", "top"} /\ turn' = turn + 1
    BY <1>11 DEF Iterate
  <2>5. UNCHANGED <<queue, other, source, attempt, clock, base, loops>>
    BY <1>11 DEF Iterate
  <2> QED
    BY <1>0, <2>2, <2>3, <2>4, <2>5, Streams DEF TypeOK
<1>12. CASE UNCHANGED vars
  BY <1>12 DEF vars, loopVars, TypeOK
<1> QED
  BY <1>1, <1>2, <1>3, <1>4, <1>5, <1>6, <1>7, <1>8, <1>9, <1>10, <1>11, <1>12 DEF Next

LEMMA PlacedStep ==
  ASSUME TypeOK, TypeOK', Placed, [Next]_vars
  PROVE  Placed'
<1>0. DOMAIN stream = 1..Len(stream) /\ DOMAIN stream' = 1..Len(stream') /\ Len(stream) \in Nat
      /\ turn \in Nat /\ loops \in Nat
  BY DEF TypeOK
<1>1. CASE Start
  <2>1. stream' = stream /\ pc' = "top" /\ loops' = loops + 1
    BY <1>1 DEF Start
  <2>2. \A n \in DOMAIN stream : stream[n].loop \in Nat
    BY Streams DEF Sess
  <2>3. \A n \in DOMAIN stream :
          /\ stream[n].loop <= loops
          /\ stream[n].seen = "open" => stream[n].moved = "none" /\ stream[n].spent = 0
    BY DEF Placed
  <2>4. \A n \in DOMAIN stream : stream[n].loop <= loops + 1 /\ stream[n].loop # loops + 1
    BY <1>0, <2>2, <2>3
  <2> QED
    BY <2>1, <2>3, <2>4 DEF Placed
<1>2. CASE Triage \/ Repair \/ Stop \/ Gate
  <2>1. /\ stream' = stream /\ turn' = turn /\ loops' = loops /\ (pc' = pc \/ pc' = "over")
    BY <1>2 DEF Triage, Repair, Stop, Gate, loopVars, Over
  <2> QED
    BY <2>1 DEF Placed, Tail1
<1>3. CASE Dispatch
  <2>1. PICK k : /\ Adds(k) /\ pc' \in {"parallel", "session"}
                 /\ pc' = "session" => k = 1 /\ stream'[Len(stream) + 1].parallel = FALSE
                 /\ pc' = "parallel" => \A n \in (Len(stream) + 1)..(Len(stream) + k) : stream'[n].parallel
    <3>1. Open(Chosen, FALSE, FALSE).parallel = FALSE
      BY DEF Open
    <3> QED
      BY <1>3, <3>1, DispatchAdds
  <2>2. turn' = turn /\ loops' = loops /\ pc = "top"
    BY <1>3 DEF Dispatch, loopVars
  <2>3. \A n \in DOMAIN stream : stream'[n] = stream[n]
    BY <1>0, <2>1 DEF Adds
  <2>4. /\ k \in Nat \ {0} /\ Len(stream') = Len(stream) + k
        /\ \A n \in DOMAIN stream' \ DOMAIN stream :
             IsFresh(stream'[n]) /\ (pc' = "parallel" => stream'[n].parallel)
    BY <1>0, <2>1 DEF Adds
  <2>5. /\ Len(stream') \in DOMAIN stream' \ DOMAIN stream /\ stream' # <<>>
        /\ pc' = "session" => Len(stream') = Len(stream) + 1
    BY <1>0, <2>1, <2>4
  <2>6. \A n \in DOMAIN stream :
           /\ stream'[n].loop <= loops /\ (stream'[n].loop = loops => stream'[n].turn < turn)
           /\ stream'[n].seen = "open" => stream'[n].moved = "none" /\ stream'[n].spent = 0
    BY <2>2, <2>3 DEF Placed
  <2>7. \A n \in DOMAIN stream' \ DOMAIN stream :
           /\ stream'[n].loop = loops /\ stream'[n].turn = turn
           /\ stream'[n].moved = "none" /\ stream'[n].spent = 0 /\ stream'[n].seen = "open"
    BY <2>4 DEF IsFresh
  <2>8. \A n \in DOMAIN stream' : stream'[n].turn \in Nat
    <3>1. stream' \in Seq(Sess)
      BY DEF TypeOK
    <3>2. \A n \in DOMAIN stream' : stream'[n] \in Sess
      BY <3>1
    <3> QED
      BY <3>2 DEF Sess
  <2>9. \A n \in DOMAIN stream' :
           /\ stream'[n].loop <= loops
           /\ stream'[n].loop = loops => stream'[n].turn <= turn
           /\ stream'[n].seen = "open" => stream'[n].moved = "none" /\ stream'[n].spent = 0
    BY <1>0, <2>6, <2>7, <2>8
  <2>10. pc' = "parallel" => \A n \in DOMAIN stream' :
           stream'[n].loop = loops /\ stream'[n].turn = turn => stream'[n].parallel
    BY <1>0, <2>4, <2>6
  <2> QED
    BY <2>1, <2>2, <2>5, <2>7, <2>9, <2>10 DEF Placed, Tail1
<1>4. CASE PassEnds \/ SessionEnds
  <2>1. PICK n \in DOMAIN stream, m \in Moves : Closes(n, m)
    BY <1>4, PassCloses, SessionCloses DEF Closes
  <2>2. /\ turn' = turn /\ loops' = loops
        /\ \/ pc = "parallel" /\ pc' = "parallel"
           \/ pc = "session" /\ pc' \in {"after", "retry", "over"}
    BY <1>4, SessionCloses DEF PassEnds, SessionEnds, loopVars
  <2>3. /\ DOMAIN stream' = DOMAIN stream /\ Len(stream') = Len(stream)
        /\ \A i \in DOMAIN stream :
             /\ stream'[i].loop = stream[i].loop /\ stream'[i].turn = stream[i].turn
             /\ stream'[i].parallel = stream[i].parallel
             /\ stream'[i].seen = "open" => stream'[i] = stream[i]
    BY <1>0, <2>1 DEF Closes
  <2>4. stream # <<>> /\ stream' # <<>> /\ Len(stream) \in DOMAIN stream
    BY <1>0, <2>1, <2>3
  <2>5. Tail1.turn = turn /\ Tail1.loop = loops /\ (pc = "session" => ~Tail1.parallel)
    BY <2>2 DEF Placed
  <2>6. Tail1'.turn = turn /\ Tail1'.loop = loops /\ (pc = "session" => ~Tail1'.parallel)
    BY <2>3, <2>4, <2>5 DEF Tail1
  <2>7. \A i \in DOMAIN stream' :
           /\ stream'[i].loop <= loops
           /\ stream'[i].loop = loops => stream'[i].turn <= turn
           /\ stream'[i].seen = "open" => stream'[i].moved = "none" /\ stream'[i].spent = 0
    BY <2>3 DEF Placed
  <2>8. pc' = "parallel" => \A i \in DOMAIN stream' :
           stream'[i].loop = loops /\ stream'[i].turn = turn => stream'[i].parallel
    BY <2>2, <2>3 DEF Placed
  <2> QED
    BY <2>2, <2>4, <2>6, <2>7, <2>8 DEF Placed
<1>5. CASE GroupEnds \/ SessionLost
  <2>1. /\ stream' = stream /\ turn' = turn /\ loops' = loops
        /\ pc' = "over" \/ (pc = "parallel" /\ pc' = "after")
    BY <1>5 DEF GroupEnds, SessionLost, Over
  <2> QED
    BY <2>1 DEF Placed, Tail1
<1>6. CASE Retry
  <2>1. CASE stream' = stream /\ pc' = "over"
    BY <1>6, <2>1 DEF Retry, Placed, loopVars
  <2>2. CASE /\ pc' = "session" /\ Adds(1)
             /\ stream'[Len(stream) + 1] = Open(Tail1.pass, FALSE, TRUE)
    <3>1. turn' = turn /\ loops' = loops
      BY <1>6 DEF Retry, loopVars
    <3>2. \A n \in DOMAIN stream : stream'[n] = stream[n]
      BY <1>0, <2>2 DEF Adds
    <3>3. /\ Len(stream') = Len(stream) + 1 /\ IsFresh(stream'[Len(stream')])
          /\ stream'[Len(stream')].parallel = FALSE
      BY <1>0, <2>2 DEF Adds, Open
    <3>4. /\ DOMAIN stream' = DOMAIN stream \cup {Len(stream')} /\ stream' # <<>>
      BY <1>0, <3>3
    <3>5. \A i \in DOMAIN stream' :
           /\ stream'[i].loop <= loops
           /\ stream'[i].loop = loops => stream'[i].turn <= turn
           /\ stream'[i].seen = "open" => stream'[i].moved = "none" /\ stream'[i].spent = 0
      <4>1. \A i \in DOMAIN stream :
           /\ stream'[i].loop <= loops
           /\ stream'[i].loop = loops => stream'[i].turn <= turn
           /\ stream'[i].seen = "open" => stream'[i].moved = "none" /\ stream'[i].spent = 0
        BY <3>2 DEF Placed
      <4> QED
        BY <1>0, <3>3, <3>4, <4>1 DEF IsFresh
    <3> QED
      BY <2>2, <3>1, <3>3, <3>4, <3>5 DEF Placed, Tail1, IsFresh
  <2> QED
    BY <1>6, <2>1, <2>2, RetryAdds
<1>7. CASE Iterate
  <2>1. stream' = stream /\ turn' = turn + 1 /\ loops' = loops /\ pc' \in {"top", "over"}
    BY <1>7 DEF Iterate
  <2>2. \A n \in DOMAIN stream : stream[n].turn \in Nat
    BY Streams DEF Sess
  <2> QED
    BY <1>0, <2>1, <2>2 DEF Placed
<1>8. CASE UNCHANGED vars
  BY <1>8 DEF vars, loopVars, Placed, Tail1
<1> QED
  BY <1>1, <1>2, <1>3, <1>4, <1>5, <1>6, <1>7, <1>8 DEF Next

-----------------------------------------------------------------------------
(* The ceiling.  What is charged may grow when a session ends that was charged *)
(* its reservation while it ran; what is counted of a session in flight, or of *)
(* the last batch, is therefore never more than its reservation.               *)
Lesser(a, b) == IF a <= b THEN a ELSE b

Balance == [n \in DOMAIN stream |-> IF n \in LastBatch
                                    THEN Lesser(Charge(stream[n]), Reservation)
                                    ELSE Charge(stream[n])]

Covered == stream # <<>> => Tally(Balance, Len(stream)) <= Ceiling

BalanceBounds ==
  /\ Balance \in [1..Len(stream) -> Int]
  /\ \A n \in 1..Len(stream) :
       /\ Charge(stream[n]) \in Nat /\ Balance[n] <= Charge(stream[n])
       /\ n \notin LastBatch => Balance[n] = Charge(stream[n])
       /\ n \in LastBatch => /\ Balance[n] <= Reservation
                             /\ Charge(stream[n]) <= Reservation => Balance[n] = Charge(stream[n])
                             /\ Charge(stream[n]) >= Reservation => Balance[n] = Reservation

LEMMA BalanceIs == TypeOK => BalanceBounds
<1> SUFFICES ASSUME TypeOK PROVE BalanceBounds
  OBVIOUS
<1>1. DOMAIN stream = 1..Len(stream) /\ \A n \in DOMAIN stream : stream[n] \in Sess
  BY Streams
<1>2. \A n \in 1..Len(stream) : Charge(stream[n]) \in Nat
  BY <1>1, ChargeIs
<1>3. Reservation \in Nat
  BY Constants
<1>4. \A n \in 1..Len(stream) :
        Balance[n] = IF n \in LastBatch THEN Lesser(Charge(stream[n]), Reservation)
                     ELSE Charge(stream[n])
  BY <1>1 DEF Balance
<1>5. \A n \in 1..Len(stream) :
              /\ Charge(stream[n]) \in Nat /\ Balance[n] \in Int /\ Balance[n] <= Charge(stream[n])
              /\ n \notin LastBatch => Balance[n] = Charge(stream[n])
              /\ n \in LastBatch => /\ Balance[n] <= Reservation
                                    /\ Charge(stream[n]) <= Reservation => Balance[n] = Charge(stream[n])
                                    /\ Charge(stream[n]) >= Reservation => Balance[n] = Reservation
  BY <1>2, <1>3, <1>4 DEF Lesser
<1>6. Balance = [n \in 1..Len(stream) |-> Balance[n]]
  BY <1>1 DEF Balance
<1> QED
  BY <1>5, <1>6 DEF BalanceBounds

LEMMA AddsCovers ==
  ASSUME TypeOK, TypeOK', NEW k, Adds(k)
  PROVE  Covered'
<1> DEFINE N == Len(stream)
           M == Len(stream')
           g == [n \in DOMAIN stream |-> Charge(stream[n])]
           h == [n \in 1..M |-> IF n <= N THEN Charge(stream[n]) ELSE Reservation]
           b == Balance'
<1>1. N \in Nat /\ k \in Nat \ {0} /\ M = N + k /\ Charged + k * Reservation <= Ceiling
  BY Streams DEF Adds
<1>2. \A n \in 1..N : stream[n] \in Sess /\ Charge(stream[n]) \in Nat /\ stream'[n] = stream[n]
  BY Streams, ChargeIs DEF Adds
<1>3. g \in [1..N -> Int] /\ Charged = Tally(g, N)
  BY <1>2, Streams DEF Charged
<1>4. h \in [1..M -> Int]
  BY <1>1, <1>2, Constants
<1>5. (\A n \in 1..N : h[n] = g[n]) /\ \A n \in (N + 1)..M : h[n] = Reservation
  BY <1>1, Streams
<1>6. b \in [1..M -> Int] /\ \A n \in 1..M : b[n] <= Charge(stream'[n])
  <2>1. BalanceBounds'
    BY BalanceIs, PTL
  <2> QED
    BY <2>1 DEF BalanceBounds
<1>7. \A n \in (N + 1)..M : Charge(stream'[n]) = Reservation
  BY <1>1, ChargeIs DEF Adds, IsFresh
<1>8. \A n \in 1..M : Charge(stream'[n]) = h[n]
  <2>1. TAKE n \in 1..M
  <2>2. CASE n <= N
    BY <1>1, <1>2, <2>2
  <2>3. CASE n > N
    BY <1>1, <1>5, <1>7, <2>3
  <2> QED
    BY <1>1, <2>2, <2>3
<1> DEFINE r == k * Reservation
<1>9. Charged + r <= Ceiling /\ M - N = k /\ r = (M - N) * Reservation
  BY <1>1
<1> HIDE DEF N, M, g, h, b, r
<1>10. M \in Nat /\ N <= M /\ Reservation \in Int
  BY <1>1, Constants
<1>11. Tally(b, M) <= Tally(h, M)
  BY <1>4, <1>6, <1>8, <1>10, TallyMonotone
<1>12. Tally(h, M) = Tally(g, N) + (M - N) * Reservation
  BY <1>1, <1>3, <1>4, <1>5, <1>10, TallyMore
<1>13. Tally(h, M) = Charged + r
  BY <1>3, <1>9, <1>12
<1>14. Tally(b, M) <= Ceiling
  <2>1. Tally(b, M) \in Int /\ Tally(h, M) \in Int
    BY <1>4, <1>6, <1>10, TallyInt
  <2> QED
    BY <1>9, <1>11, <1>13, <2>1, Constants
<1> QED
  BY <1>14 DEF Covered, b, M

LEMMA ClosesCovers ==
  ASSUME TypeOK, TypeOK', Covered, NEW n, NEW m, Closes(n, m)
  PROVE  Covered'
<1> DEFINE N == Len(stream)
<1>1. N \in Nat /\ Len(stream') = N /\ DOMAIN stream = 1..N /\ DOMAIN stream' = 1..N /\ n \in 1..N
  BY Streams DEF Closes, TypeOK
<1>2. \A i \in 1..N : /\ i # n => stream'[i] = stream[i]
                      /\ stream'[i].turn = stream[i].turn /\ stream'[i].loop = stream[i].loop
                      /\ stream'[i].parallel = stream[i].parallel
  BY <1>1 DEF Closes
<1>3. n \in LastBatch /\ Charge(stream[n]) = Reservation
  BY <1>1, Streams, ChargeIs DEF Closes
<1>4. N \in 1..N
  BY <1>1
<1>5. LastBatch' = LastBatch
  BY <1>1, <1>2, <1>4 DEF LastBatch
<1> DEFINE b == Balance
           c == Balance'
<1>6. b \in [1..N -> Int] /\ c \in [1..N -> Int]
  <2>1. BalanceBounds /\ BalanceBounds'
    BY BalanceIs, PTL
  <2> QED
    BY <1>1, <2>1 DEF BalanceBounds
<1>7. b[n] = Reservation /\ c[n] <= Reservation
  <2>1. b[n] = Reservation
    BY <1>1, <1>3, BalanceIs, Constants DEF BalanceBounds
  <2>2. \A i \in 1..Len(stream') : i \in LastBatch' => c[i] <= Reservation
    <3>1. BalanceBounds'
      BY BalanceIs, PTL
    <3> QED
      BY <3>1 DEF BalanceBounds
  <2> QED
    BY <1>1, <1>3, <1>5, <2>1, <2>2
<1>8. \A i \in 1..N : i # n => c[i] = b[i]
  BY <1>1, <1>2, <1>5 DEF Balance
<1>9. Tally(b, N) <= Ceiling
  BY <1>1 DEF Covered
<1> HIDE DEF b, c, N
<1>10. \A i \in 1..N : c[i] <= b[i]
  BY <1>1, <1>6, <1>7, <1>8
<1>11. Tally(c, N) <= Tally(b, N) /\ Tally(b, N) \in Int /\ Tally(c, N) \in Int
  BY <1>1, <1>6, <1>10, TallyMonotone, TallyInt
<1>12. Tally(c, N) <= Ceiling
  BY <1>9, <1>11, Constants
<1> QED
  BY <1>1, <1>12 DEF Covered, c

LEMMA CoveredStep ==
  ASSUME TypeOK, TypeOK', Placed, Covered, [Next]_vars
  PROVE  Covered'
<1>1. CASE stream' = stream
  BY <1>1 DEF Covered, Balance, LastBatch
<1> QED
  BY <1>1, StreamSteps, AddsCovers, ClosesCovers

(* What was spent is what is counted of it, and what went beyond. *)
LEMMA CoveredHolds ==
  ASSUME TypeOK, Placed, Covered
  PROVE  CeilingHolds
<1> DEFINE N == Len(stream)
           far == LastBatch \cup {n \in DOMAIN stream : stream[n].seen = "none"}
           s == [n \in DOMAIN stream |-> stream[n].spent]
           y == [n \in DOMAIN stream |-> IF n \in far THEN Beyond(stream[n]) ELSE 0]
           b == Balance
<1>1. N \in Nat /\ DOMAIN stream = 1..N /\ \A n \in 1..N : stream[n] \in Sess
  BY Streams
<1>2. \A n \in 1..N : /\ stream[n].spent \in Nat
                      /\ Beyond(stream[n]) \in Int /\ Beyond(stream[n]) >= 0
                      /\ Beyond(stream[n]) >= stream[n].spent - Reservation
  <2>1. TAKE n \in 1..N
  <2>2. stream[n].spent \in Nat /\ Reservation \in Nat
    BY <1>1, Constants DEF Sess
  <2> QED
    BY <2>2, TwoMax DEF Beyond
<1>3. s \in [1..N -> Int] /\ y \in [1..N -> Int]
  BY <1>1, <1>2
<1>4. b \in [1..N -> Int]
  BY <1>1, BalanceIs DEF BalanceBounds
<1>5. \A n \in 1..N : s[n] <= b[n] + y[n]
  <2>1. TAKE n \in 1..N
  <2>2. s[n] = stream[n].spent /\ y[n] = IF n \in far THEN Beyond(stream[n]) ELSE 0
    BY <1>1
  <2>3. stream[n].seen = "none" => n \in far
    BY <1>1
  <2>4. n \in LastBatch => n \in far
    OBVIOUS
  <2> HIDE DEF far, s, y
  <2>5. stream[n] \in Sess /\ stream[n].seen \in {"open", "provider", "agent", "none"}
        /\ (stream[n].seen = "open" => stream[n].spent = 0)
    BY <1>1 DEF Sess, Placed
  <2>6. /\ Charge(stream[n]) \in Nat /\ Reservation \in Nat
        /\ stream[n].seen = "provider" => Charge(stream[n]) = stream[n].spent
        /\ stream[n].seen = "agent" => Charge(stream[n]) >= Reservation
                                       /\ Charge(stream[n]) >= stream[n].spent
        /\ stream[n].seen \in {"open", "none"} => Charge(stream[n]) = Reservation
    BY <2>5, ChargeIs, Constants
  <2>7. /\ n \notin LastBatch => b[n] = Charge(stream[n])
        /\ n \in LastBatch => /\ Charge(stream[n]) <= Reservation => b[n] = Charge(stream[n])
                              /\ Charge(stream[n]) >= Reservation => b[n] = Reservation
    BY <1>1, BalanceIs DEF BalanceBounds
  <2> HIDE DEF b
  <2>8. b[n] \in Int
    BY <1>4
  <2> QED
    BY <1>2, <2>2, <2>3, <2>4, <2>5, <2>6, <2>7, <2>8
<1> DEFINE z == [n \in 1..N |-> b[n] + y[n]]
<1>6. Spent = Tally(s, N) /\ BeyondOf(far) = Tally(y, N)
  BY <1>1 DEF Spent, BeyondOf
<1>7. stream # <<>> => Tally(b, N) <= Ceiling
  BY DEF Covered
<1> HIDE DEF N, far, s, y, b
<1>8. z \in [1..N -> Int] /\ (\A n \in 1..N : z[n] = b[n] + y[n]) /\ \A n \in 1..N : s[n] <= z[n]
  BY <1>3, <1>4, <1>5
<1> HIDE DEF z
<1>9. Tally(s, N) <= Tally(z, N)
  BY <1>1, <1>3, <1>8, TallyMonotone
<1>10. Tally(z, N) = Tally(b, N) + Tally(y, N)
  BY <1>1, <1>3, <1>4, <1>8, TallySum
<1>11. Tally(s, N) \in Int /\ Tally(z, N) \in Int /\ Tally(b, N) \in Int /\ Tally(y, N) \in Int
  BY <1>1, <1>3, <1>4, <1>8, TallyInt
<1>12. stream # <<>> => Spent <= Ceiling + BeyondOf(far)
  BY <1>6, <1>7, <1>9, <1>10, <1>11, Constants
<1> QED
  BY <1>12 DEF CeilingHolds, far

-----------------------------------------------------------------------------
(* The embargo.  A retry is not asked, so the sessions of the last dispatch may *)
(* be as many over After as there were attempts; a slice or a source that moves *)
(* leaves every session of the pass with an old key.                            *)
Allowed(p) == IF pc \in {"session", "retry"} /\ Tail1.pass = p THEN attempt ELSE RetryLimit

KeysAreOld ==
  \A n \in DOMAIN stream : stream[n].pass \in Passes =>
    stream[n].key[1] <= queue[stream[n].pass].slice /\ stream[n].key[2] <= source

Held == /\ attempt <= RetryLimit /\ (pc = "retry" => attempt < RetryLimit)
        /\ KeysAreOld
        /\ \A p \in Passes : Cardinality(Barren(p)) <= After + Allowed(p)

BarrenFinite == \A p \in Passes : IsFiniteSet(Barren(p)) /\ Cardinality(Barren(p)) \in Nat

LEMMA BarrenIsFinite == TypeOK => BarrenFinite
<1> SUFFICES ASSUME TypeOK, NEW p \in Passes
             PROVE  IsFiniteSet(Barren(p)) /\ Cardinality(Barren(p)) \in Nat
  BY DEF BarrenFinite
<1>1. Barren(p) \subseteq 1..Len(stream) /\ IsFiniteSet(1..Len(stream))
  BY Streams, FS_Interval DEF Barren, Sessions
<1>2. IsFiniteSet(Barren(p))
  BY <1>1, FS_Subset
<1> QED
  BY <1>2, FS_CardinalityType

LEMMA BarrenIs ==
  ASSUME NEW p \in Passes
  PROVE  Barren(p) = {n \in DOMAIN stream :
           /\ stream[n].pass = p /\ ~stream[n].parallel /\ stream[n].moved = "none"
           /\ stream[n].key = <<queue[p].slice, source>>}
BY DEF Barren, Sessions, Key

(* Fewer, or one more. *)
LEMMA FewerBarren ==
  ASSUME TypeOK, NEW p \in Passes, Barren(p)' \subseteq Barren(p)
  PROVE  Cardinality(Barren(p)') <= Cardinality(Barren(p))
BY BarrenIsFinite, FS_Subset DEF BarrenFinite

LEMMA OneMoreBarren ==
  ASSUME TypeOK, NEW p \in Passes, NEW n, Barren(p)' \subseteq Barren(p) \cup {n}
  PROVE  Cardinality(Barren(p)') <= Cardinality(Barren(p)) + 1
<1>1. IsFiniteSet(Barren(p)) /\ Cardinality(Barren(p)) \in Nat
  BY BarrenIsFinite DEF BarrenFinite
<1> DEFINE S == Barren(p)
           T == Barren(p)'
<1> HIDE DEF S, T
<1>2. IsFiniteSet(S) /\ Cardinality(S) \in Nat /\ T \subseteq S \cup {n}
  BY <1>1 DEF S, T
<1>3. IsFiniteSet(S \cup {n}) /\ (Cardinality(S \cup {n}) = Cardinality(S) \/ Cardinality(S \cup {n}) = Cardinality(S) + 1)
  BY <1>2, FS_AddElement
<1>4. Cardinality(T) <= Cardinality(S \cup {n}) /\ IsFiniteSet(T)
  BY <1>2, <1>3, FS_Subset
<1>5. Cardinality(T) \in Nat
  BY <1>4, FS_CardinalityType
<1>6. Cardinality(T) <= Cardinality(S) + 1
  BY <1>2, <1>3, <1>4, <1>5
<1> QED
  BY <1>6 DEF S, T

(* A session that ends, or does not, adds none. *)
LEMMA NoMoreBarren ==
  ASSUME TypeOK, Placed, KeysAreOld,
         \/ stream' = stream
         \/ \E n, m : Closes(n, m),
         queue' \in [Passes -> [done : BOOLEAN, slice : Nat]], source' \in Nat, source <= source',
         \A q \in Passes : queue'[q].slice = queue[q].slice \/ queue'[q].slice = queue[q].slice + 1
  PROVE  KeysAreOld' /\ \A p \in Passes : Barren(p)' \subseteq Barren(p)
<1>1. DOMAIN stream = 1..Len(stream) /\ \A n \in DOMAIN stream : stream[n] \in Sess
  BY Streams
<1>2. /\ DOMAIN stream' = DOMAIN stream
      /\ \A n \in DOMAIN stream :
           /\ stream'[n].pass = stream[n].pass /\ stream'[n].parallel = stream[n].parallel
           /\ stream'[n].key = stream[n].key
           /\ stream'[n].moved = "none" => stream[n].moved = "none"
  <2>1. CASE stream' = stream
    BY <2>1
  <2>2. CASE \E n, m : Closes(n, m)
    <3>1. PICK n, m : Closes(n, m)
      BY <2>2
    <3>2. stream[n].moved = "none"
      BY <3>1 DEF Closes, Placed
    <3>3. DOMAIN stream' = DOMAIN stream
      BY <1>1, <3>1 DEF Closes
    <3>4. ASSUME NEW i \in DOMAIN stream
          PROVE  /\ stream'[i].pass = stream[i].pass /\ stream'[i].parallel = stream[i].parallel
                 /\ stream'[i].key = stream[i].key
                 /\ stream'[i].moved = "none" => stream[i].moved = "none"
      <4>1. CASE i = n
        BY <3>1, <3>2, <4>1 DEF Closes
      <4>2. CASE i # n
        BY <3>1, <4>2 DEF Closes
      <4> QED
        BY <4>1, <4>2
    <3> QED
      BY <3>3, <3>4
  <2> QED
    BY <2>1, <2>2
<1>3. \A n \in DOMAIN stream : /\ stream[n].key \in Nat \X Nat
                               /\ stream[n].key = <<stream[n].key[1], stream[n].key[2]>>
                               /\ stream[n].key[1] \in Nat /\ stream[n].key[2] \in Nat
  BY <1>1 DEF Sess
<1>4. source \in Nat /\ \A q \in Passes : queue[q].slice \in Nat /\ queue'[q].slice \in Nat
  BY Streams
<1>5. \A n \in DOMAIN stream : stream[n].pass \in Passes =>
        /\ stream[n].key[1] <= queue[stream[n].pass].slice
        /\ stream[n].key[2] <= source
  BY DEF KeysAreOld
<1>6. \A n \in DOMAIN stream : stream[n].pass \in Passes =>
        /\ stream[n].key[1] <= queue'[stream[n].pass].slice
        /\ stream[n].key[2] <= source'
  BY <1>3, <1>4, <1>5
<1>7. KeysAreOld'
  BY <1>2, <1>6 DEF KeysAreOld
<1>8. ASSUME NEW p \in Passes, NEW n \in Barren(p)' PROVE n \in Barren(p)
  <2>1. /\ n \in DOMAIN stream /\ stream[n].pass = p /\ ~stream[n].parallel
        /\ stream[n].moved = "none" /\ stream[n].key = <<queue'[p].slice, source'>>
    BY <1>2, <1>8 DEF Barren, Sessions, Key
  <2>2. stream[n].key[1] = queue'[p].slice /\ stream[n].key[2] = source'
    BY <2>1
  <2>3. stream[n].key[1] <= queue[p].slice /\ stream[n].key[2] <= source
    BY <1>5, <2>1
  <2>4. queue'[p].slice = queue[p].slice /\ source' = source
    BY <1>4, <2>2, <2>3
  <2> QED
    BY <2>1, <2>4, BarrenIs
<1> QED
  BY <1>7, <1>8

(* A dispatch adds what is dispatched outside a group. *)
LEMMA AddedBarren ==
  ASSUME TypeOK, KeysAreOld, NEW k, Adds(k), queue' = queue, source' = source
  PROVE  /\ KeysAreOld'
         /\ \A p \in Passes : \A n \in Barren(p)' \ Barren(p) :
              n \in (Len(stream) + 1)..(Len(stream) + k) /\ stream'[n].pass = p /\ ~stream'[n].parallel
<1>1. /\ DOMAIN stream = 1..Len(stream) /\ DOMAIN stream' = 1..(Len(stream) + k)
      /\ Len(stream) \in Nat /\ k \in Nat
      /\ \A n \in DOMAIN stream : stream'[n] = stream[n]
      /\ \A n \in DOMAIN stream' \ DOMAIN stream :
           n \in (Len(stream) + 1)..(Len(stream) + k) /\ IsFresh(stream'[n])
  BY Streams DEF Adds
<1>2. \A n \in DOMAIN stream' \ DOMAIN stream : stream'[n].pass \in Passes =>
        stream'[n].key[1] = queue[stream'[n].pass].slice /\ stream'[n].key[2] = source
  BY <1>1, QueueAssumption DEF IsFresh, Key
<1>3. \A p \in Passes : queue[p].slice \in Nat
  BY Streams
<1>4. source \in Nat
  BY Streams
<1>5. \A n \in DOMAIN stream' : stream'[n].pass \in Passes =>
        stream'[n].key[1] <= queue[stream'[n].pass].slice /\ stream'[n].key[2] <= source
  <2>1. TAKE n \in DOMAIN stream'
  <2>2. CASE n \in DOMAIN stream
    BY <1>1, <2>2 DEF KeysAreOld
  <2>3. CASE n \notin DOMAIN stream
    BY <1>2, <1>3, <1>4, <2>3
  <2> QED
    BY <2>2, <2>3
<1>6. KeysAreOld'
  BY <1>5 DEF KeysAreOld
<1>7. ASSUME NEW p \in Passes, NEW n \in Barren(p)' \ Barren(p)
      PROVE  n \in (Len(stream) + 1)..(Len(stream) + k) /\ stream'[n].pass = p /\ ~stream'[n].parallel
  <2>1. /\ n \in DOMAIN stream' /\ stream'[n].pass = p /\ ~stream'[n].parallel
        /\ stream'[n].moved = "none" /\ stream'[n].key = <<queue[p].slice, source>>
    BY <1>7 DEF Barren, Sessions, Key
  <2>2. n \notin DOMAIN stream
    BY <1>1, <1>7, <2>1, BarrenIs
  <2> QED
    BY <1>1, <2>1, <2>2
<1> QED
  BY <1>6, <1>7

LEMMA HeldStep ==
  ASSUME TypeOK, TypeOK', Placed, Placed', Held, [Next]_vars
  PROVE  Held'
<1>0. /\ attempt \in Nat /\ RetryLimit \in Nat /\ After \in Nat \ {0} /\ attempt <= RetryLimit
      /\ \A p \in Passes : Cardinality(Barren(p)) \in Nat /\ Cardinality(Barren(p)) <= After + Allowed(p)
  BY Streams, Constants, BarrenIsFinite DEF Held, BarrenFinite
<1>1. \A p \in Passes : Cardinality(Barren(p)') \in Nat
  <2>1. BarrenFinite'
    BY BarrenIsFinite, PTL
  <2> QED
    BY <2>1 DEF BarrenFinite
<1>2. \A p \in Passes : Allowed(p) \in Nat /\ Allowed(p) <= RetryLimit
  BY <1>0 DEF Allowed
<1> DEFINE Fewer == KeysAreOld' /\ \A p \in Passes : Cardinality(Barren(p)') <= Cardinality(Barren(p))
<1>3. ASSUME Fewer, pc' \notin {"session", "retry"}, attempt' \in {attempt, 0}
      PROVE  Held'
  <2>1. \A p \in Passes : Allowed(p)' = RetryLimit
    BY <1>3 DEF Allowed
  <2>2. \A p \in Passes : Cardinality(Barren(p)') <= After + RetryLimit
    BY <1>0, <1>1, <1>2, <1>3
  <2> QED
    BY <1>0, <1>3, <2>1, <2>2 DEF Held
<1>4. ASSUME Fewer, attempt' = attempt, pc' = "retry" => attempt < RetryLimit,
             \A p \in Passes : Allowed(p)' = Allowed(p)
      PROVE  Held'
  <2>1. \A p \in Passes : Cardinality(Barren(p)') <= After + Allowed(p)
    BY <1>0, <1>1, <1>2, <1>4
  <2> QED
    BY <1>0, <1>4, <2>1 DEF Held
<1>5. ASSUME KeysAreOld', \A p \in Passes : Barren(p)' \subseteq Barren(p)
      PROVE  Fewer
  BY <1>5, FewerBarren
<1>6. ASSUME stream' = stream, queue' = queue, source' = source
      PROVE  Fewer
  <2>1. KeysAreOld' /\ \A p \in Passes : Barren(p)' = Barren(p)
    BY <1>6 DEF Held, KeysAreOld, Barren, Sessions, Key
  <2> QED
    BY <1>5, <2>1
<1> HIDE DEF Fewer
<1>7. CASE Start \/ Stop \/ Gate \/ GroupEnds \/ SessionLost \/ Iterate
  <2>1. /\ stream' = stream /\ queue' = queue /\ source' = source /\ attempt' = attempt
        /\ pc' \notin {"session", "retry"}
    BY <1>7 DEF Start, Stop, Gate, GroupEnds, SessionLost, Iterate, Over
  <2> QED
    BY <1>3, <1>6, <2>1
<1>8. CASE Triage
  <2>1. /\ stream' = stream /\ source' = source /\ source \in Nat /\ attempt' = attempt /\ pc' = "over"
    BY <1>8, Streams DEF Triage
  <2>2. queue' \in [Passes -> [done : BOOLEAN, slice : Nat]]
    BY DEF TypeOK
  <2>3. \A q \in Passes : queue'[q].slice = queue[q].slice \/ queue'[q].slice = queue[q].slice + 1
    <3>1. CASE queue' = queue
      BY <3>1
    <3>2. CASE \E p \in Passes : queue' = [queue EXCEPT ![p].slice = @ + 1]
      BY <3>2, Streams
    <3> QED
      BY <1>8, <3>1, <3>2 DEF Triage
  <2>4. Fewer
    BY <1>5, <2>1, <2>2, <2>3, NoMoreBarren DEF Held
  <2> QED
    BY <1>3, <2>1, <2>4
<1>9. CASE Repair
  <2>1. /\ stream' = stream /\ queue' = queue /\ source = 0 /\ source' = 1
        /\ attempt' = attempt /\ pc' = pc /\ pc' # "retry"
    BY <1>9 DEF Repair
  <2>2. Fewer
    BY <1>5, <2>1, NoMoreBarren, Streams DEF Held
  <2>3. \A p \in Passes : Allowed(p)' = Allowed(p)
    BY <2>1 DEF Allowed, Tail1
  <2> QED
    BY <1>4, <2>1, <2>2, <2>3
<1>10. CASE Dispatch
  <2>1. /\ queue' = queue /\ source' = source /\ attempt' = 0 /\ pc = "top"
        /\ Decision \in {"run-other", "run-auditor"}
    BY <1>10 DEF Dispatch
  <2>2. CASE /\ pc' = "parallel"
             /\ \E k : Adds(k) /\ \A n \in (Len(stream) + 1)..(Len(stream) + k) : stream'[n].parallel
    <3>1. PICK k : Adds(k) /\ \A n \in (Len(stream) + 1)..(Len(stream) + k) : stream'[n].parallel
      BY <2>2
    <3>2. KeysAreOld' /\ \A p \in Passes : Barren(p)' \subseteq Barren(p)
      BY <2>1, <3>1, AddedBarren DEF Held
    <3> QED
      BY <1>3, <1>5, <2>1, <2>2, <3>2
  <2>3. CASE /\ pc' = "session" /\ Adds(1)
             /\ stream'[Len(stream) + 1] = Open(Chosen, FALSE, FALSE)
    <3>1. /\ KeysAreOld'
          /\ \A p \in Passes : \A n \in Barren(p)' \ Barren(p) : n = Len(stream) + 1 /\ Chosen = p
      <4>1. Len(stream) \in Nat /\ stream'[Len(stream) + 1].pass = Chosen
        BY <2>3, Streams DEF Open
      <4>2. /\ KeysAreOld'
            /\ \A p \in Passes : \A n \in Barren(p)' \ Barren(p) :
                 n \in (Len(stream) + 1)..(Len(stream) + 1) /\ stream'[n].pass = p
        BY <2>1, <2>3, AddedBarren DEF Held
      <4>3. \A n \in (Len(stream) + 1)..(Len(stream) + 1) : n = Len(stream) + 1
        BY <4>1
      <4> QED
        BY <4>1, <4>2, <4>3
    <3>2. Tail1'.pass = Chosen
      BY <2>3 DEF Tail1, Adds, Open
    <3>3. ASSUME NEW p \in Passes
          PROVE  Cardinality(Barren(p)') <= After + Allowed(p)'
      <4>1. CASE p = Chosen
        <5>1. p \in Takeable
          BY <2>1, <4>1, ChosenIs, QueueAssumption
        <5>2. Cardinality(Barren(p)) < After
          BY <1>0, <5>1 DEF Takeable, EmbargoHeld
        <5>3. Cardinality(Barren(p)') <= Cardinality(Barren(p)) + 1
          <6>1. Barren(p)' \subseteq Barren(p) \cup {Len(stream) + 1}
            BY <3>1
          <6> QED
            BY <6>1, OneMoreBarren
        <5>4. Allowed(p)' = 0
          BY <2>1, <2>3, <3>2, <4>1 DEF Allowed
        <5> QED
          BY <1>0, <1>1, <5>2, <5>3, <5>4
      <4>2. CASE p # Chosen
        <5>1. Barren(p)' \subseteq Barren(p)
          BY <3>1, <4>2
        <5>2. Cardinality(Barren(p)') <= Cardinality(Barren(p))
          BY <5>1, FewerBarren
        <5>3. Allowed(p)' = RetryLimit
          BY <3>2, <4>2 DEF Allowed
        <5> QED
          BY <1>0, <1>1, <1>2, <5>2, <5>3
      <4> QED
        BY <4>1, <4>2
    <3> QED
      BY <1>0, <2>1, <2>3, <3>1, <3>3 DEF Held
  <2> QED
    BY <1>10, <2>2, <2>3, DispatchAdds
<1>11. CASE PassEnds
  <2>1. PICK n \in DOMAIN stream, m \in Moves : Closes(n, m) /\ Moved(stream[n].pass, m)
    BY <1>11, PassCloses
  <2>2. stream[n].pass \in Passes \cup {Nobody}
    BY Streams DEF Sess
  <2>3. /\ queue' \in [Passes -> [done : BOOLEAN, slice : Nat]]
        /\ \A q \in Passes : queue'[q].slice = queue[q].slice \/ queue'[q].slice = queue[q].slice + 1
    BY <2>1, <2>2, MovedIs
  <2>4. source' = source /\ source \in Nat /\ pc' = "parallel" /\ attempt' = attempt
    BY <1>11, Streams DEF PassEnds
  <2>5. Fewer
    BY <1>5, <2>1, <2>3, <2>4, NoMoreBarren DEF Held
  <2> QED
    BY <1>3, <2>4, <2>5
<1>12. CASE SessionEnds
  <2>1. PICK m \in Moves : /\ Closes(Len(stream), m) /\ Moved(Tail1.pass, m)
                           /\ pc' \in {"after", "retry", "over"} /\ (pc' = "retry" => attempt < RetryLimit)
    BY <1>12, SessionCloses
  <2>2. Tail1.pass \in Passes \cup {Nobody}
    BY <1>12, Streams DEF Sess, Tail1, Placed, SessionEnds
  <2>3. /\ queue' \in [Passes -> [done : BOOLEAN, slice : Nat]]
        /\ \A q \in Passes : queue'[q].slice = queue[q].slice \/ queue'[q].slice = queue[q].slice + 1
    BY <2>1, <2>2, MovedIs
  <2>4. source' = source /\ source \in Nat /\ attempt' = attempt /\ pc = "session"
    BY <1>12, Streams DEF SessionEnds
  <2>5. Fewer
    BY <1>5, <2>1, <2>3, <2>4, NoMoreBarren DEF Held
  <2>6. Tail1'.pass = Tail1.pass
    BY <2>1 DEF Closes, Tail1
  <2>7. CASE pc' = "retry"
    <3>1. \A p \in Passes : Allowed(p)' = Allowed(p)
      BY <2>4, <2>6, <2>7 DEF Allowed
    <3> QED
      BY <1>4, <2>1, <2>4, <2>5, <3>1
  <2>8. CASE pc' # "retry"
    BY <1>3, <2>1, <2>4, <2>5, <2>8
  <2> QED
    BY <2>7, <2>8
<1>13. CASE Retry
  <2>1. queue' = queue /\ source' = source /\ pc = "retry" /\ attempt < RetryLimit
    BY <1>13 DEF Retry, Held
  <2>2. CASE stream' = stream /\ attempt' = attempt /\ pc' = "over"
    BY <1>3, <1>6, <2>1, <2>2
  <2>3. CASE /\ pc' = "session" /\ attempt' = attempt + 1 /\ Adds(1)
             /\ stream'[Len(stream) + 1] = Open(Tail1.pass, FALSE, TRUE)
    <3>1. /\ KeysAreOld'
          /\ \A p \in Passes : \A n \in Barren(p)' \ Barren(p) : n = Len(stream) + 1 /\ Tail1.pass = p
      <4>1. Len(stream) \in Nat /\ stream'[Len(stream) + 1].pass = Tail1.pass
        BY <2>3, Streams DEF Open
      <4>2. /\ KeysAreOld'
            /\ \A p \in Passes : \A n \in Barren(p)' \ Barren(p) :
                 n \in (Len(stream) + 1)..(Len(stream) + 1) /\ stream'[n].pass = p
        BY <2>1, <2>3, AddedBarren DEF Held
      <4>3. \A n \in (Len(stream) + 1)..(Len(stream) + 1) : n = Len(stream) + 1
        BY <4>1
      <4> QED
        BY <4>1, <4>2, <4>3
    <3>2. Tail1'.pass = Tail1.pass
      BY <2>3 DEF Tail1, Adds, Open
    <3>3. ASSUME NEW p \in Passes
          PROVE  Cardinality(Barren(p)') <= After + Allowed(p)'
      <4>1. CASE p = Tail1.pass
        <5>1. Cardinality(Barren(p)') <= Cardinality(Barren(p)) + 1
          <6>1. Barren(p)' \subseteq Barren(p) \cup {Len(stream) + 1}
            BY <3>1
          <6> QED
            BY <6>1, OneMoreBarren
        <5>2. Allowed(p)' = attempt + 1 /\ Allowed(p) = attempt
          BY <2>1, <2>3, <3>2, <4>1 DEF Allowed
        <5> QED
          BY <1>0, <1>1, <5>1, <5>2
      <4>2. CASE p # Tail1.pass
        <5>1. Barren(p)' \subseteq Barren(p)
          BY <3>1, <4>2
        <5>2. Cardinality(Barren(p)') <= Cardinality(Barren(p))
          BY <5>1, FewerBarren
        <5>3. Allowed(p)' = RetryLimit
          BY <3>2, <4>2 DEF Allowed
        <5> QED
          BY <1>0, <1>1, <1>2, <5>2, <5>3
      <4> QED
        BY <4>1, <4>2
    <3> QED
      BY <1>0, <2>1, <2>3, <3>1, <3>3 DEF Held
  <2> QED
    BY <1>13, <2>2, <2>3, RetryAdds
<1>14. CASE UNCHANGED vars
  <2>1. /\ stream' = stream /\ queue' = queue /\ source' = source /\ attempt' = attempt /\ pc' = pc
    BY <1>14 DEF vars
  <2>2. \A p \in Passes : Allowed(p)' = Allowed(p)
    BY <2>1 DEF Allowed, Tail1
  <2> QED
    BY <1>4, <1>6, <2>1, <2>2 DEF Held
<1> QED
  BY <1>7, <1>8, <1>9, <1>10, <1>11, <1>12, <1>13, <1>14 DEF Next

-----------------------------------------------------------------------------
(* The detector.  Its counter is at least as long as the run of iterations of  *)
(* one kind that moved nothing; prev is the kind of the last one.              *)
Alike(r) == \A t \in (turn - r)..(turn - 1) :
              Quiet(loops, t) /\ KindOf(loops, t) = KindOf(loops, turn - 1)

Counted == /\ turn = 0 => prev = "none"
           /\ turn > 0 => prev = KindOf(loops, turn - 1)
           /\ \A t \in 0..(turn - 1) : InTurn(loops, t) # {}
           /\ \A r \in 1..turn : Alike(r) => stall >= r
           /\ pc # "over" /\ ProgressLimit > 0 => stall < ProgressLimit

LEMMA LeastInTurn ==
  ASSUME TypeOK, NEW l, NEW t, InTurn(l, t) # {}
  PROVE  Min(InTurn(l, t)) \in InTurn(l, t)
<1>1. InTurn(l, t) \in SUBSET Nat
  BY Streams DEF InTurn
<1> QED
  BY <1>1, LeastOf DEF Min

(* What is over in the stream stays. *)
LEMMA EarlierTurns ==
  ASSUME TypeOK, Placed, [Next]_vars, turn' = turn, loops' = loops, NEW t \in 0..(turn - 1)
  PROVE  /\ InTurn(loops, t)' = InTurn(loops, t)
         /\ Quiet(loops, t)' => Quiet(loops, t)
         /\ InTurn(loops, t) # {} => KindOf(loops, t)' = KindOf(loops, t)
<1>0. /\ DOMAIN stream = 1..Len(stream) /\ Len(stream) \in Nat /\ turn \in Nat /\ loops \in Nat
      /\ t \in Nat /\ t < turn
  BY Streams
<1>1. /\ InTurn(loops, t)' = InTurn(loops, t)
      /\ \A n \in InTurn(loops, t) :
           stream'[n].kind = stream[n].kind /\ stream'[n].moved = stream[n].moved
  <2>1. CASE stream' = stream
    BY <2>1 DEF InTurn
  <2>2. CASE \E k : Adds(k)
    <3>1. PICK k : Adds(k)
      BY <2>2
    <3>2. /\ DOMAIN stream' = 1..(Len(stream) + k) /\ k \in Nat
          /\ \A n \in DOMAIN stream : stream'[n] = stream[n]
          /\ \A n \in DOMAIN stream' \ DOMAIN stream : stream'[n].turn = turn
      BY <1>0, <3>1 DEF Adds, IsFresh
    <3>3. DOMAIN stream \subseteq DOMAIN stream'
      BY <1>0, <3>2
    <3>4. t # turn
      BY <1>0
    <3> QED
      BY <3>2, <3>3, <3>4 DEF InTurn
  <2>3. CASE \E n, m : Closes(n, m)
    <3>1. PICK n, m : Closes(n, m)
      BY <2>3
    <3>2. /\ DOMAIN stream' = DOMAIN stream /\ n \in DOMAIN stream
          /\ stream[n].turn = turn /\ stream'[n].turn = turn
          /\ \A i \in DOMAIN stream : i # n => stream'[i] = stream[i]
      BY <1>0, <3>1 DEF Closes
    <3>3. t # turn
      BY <1>0
    <3> QED
      BY <3>2, <3>3 DEF InTurn
  <2> QED
    BY <2>1, <2>2, <2>3, StreamSteps
<1>2. Quiet(loops, t)' => Quiet(loops, t)
  BY <1>1 DEF Quiet
<1>3. ASSUME InTurn(loops, t) # {} PROVE KindOf(loops, t)' = KindOf(loops, t)
  <2>1. Min(InTurn(loops, t)) \in InTurn(loops, t)
    BY <1>3, LeastInTurn
  <2> QED
    BY <1>1, <2>1 DEF KindOf
<1> QED
  BY <1>1, <1>2, <1>3

LEMMA CountedStep ==
  ASSUME TypeOK, TypeOK', Placed, Counted, [Next]_vars
  PROVE  Counted'
<1>0. turn \in Nat /\ stall \in Nat /\ ProgressLimit \in Nat
  BY Streams, Constants
<1>1. ASSUME turn' = turn, loops' = loops, stall' = stall, prev' = prev,
             pc' = "over" \/ pc # "over"
      PROVE  Counted'
  <2>1. \A t \in 0..(turn - 1) :
          /\ InTurn(loops, t)' = InTurn(loops, t) /\ InTurn(loops, t) # {}
          /\ Quiet(loops, t)' => Quiet(loops, t)
          /\ KindOf(loops, t)' = KindOf(loops, t)
    BY <1>1, EarlierTurns DEF Counted
  <2>2. turn > 0 => prev' = KindOf(loops, turn - 1)'
    <3>1. turn > 0 => turn - 1 \in 0..(turn - 1)
      BY <1>0
    <3> QED
      BY <1>1, <2>1, <3>1 DEF Counted
  <2>3. ASSUME NEW r \in 1..turn, Alike(r)' PROVE stall >= r
    <3>1. \A t \in (turn - r)..(turn - 1) : t \in 0..(turn - 1)
      BY <1>0
    <3>2. turn - 1 \in 0..(turn - 1)
      BY <1>0
    <3>3. \A t \in (turn - r)..(turn - 1) :
            Quiet(loops, t)' /\ KindOf(loops, t)' = KindOf(loops, turn - 1)'
      BY <1>1, <2>3 DEF Alike
    <3>4. Alike(r)
      BY <1>1, <2>1, <3>1, <3>2, <3>3 DEF Alike
    <3> QED
      BY <3>4 DEF Counted
  <2> QED
    BY <1>1, <2>1, <2>2, <2>3 DEF Counted
<1>2. CASE Start
  <2>1. turn' = 0 /\ stall' = 0 /\ prev' = "none"
    BY <1>2 DEF Start
  <2> QED
    BY <1>0, <2>1 DEF Counted
<1>3. CASE Iterate
  <2> DEFINE kind == KindOf(loops, turn)
  <2>1. /\ stall' = Stalled(kind) /\ prev' = kind /\ turn' = turn + 1
        /\ stream' = stream /\ loops' = loops
        /\ pc' = "over" \/ ~(ProgressLimit > 0 /\ stall' >= ProgressLimit)
    BY <1>3 DEF Iterate
  <2>2. /\ \A t : InTurn(loops, t)' = InTurn(loops, t) /\ Quiet(loops, t)' = Quiet(loops, t)
        /\ \A t : KindOf(loops, t)' = KindOf(loops, t)
    BY <2>1 DEF InTurn, Quiet, KindOf
  <2>3. InTurn(loops, turn) # {}
    BY <1>3, Streams DEF Iterate, Placed, Tail1, InTurn
  <2>4. \A t \in 0..turn : InTurn(loops, t) # {}
    BY <1>0, <2>3 DEF Counted
  <2>5. turn' - 1 = turn
    BY <1>0, <2>1
  <2>6. prev' = KindOf(loops, turn - 1)'
    BY <2>1, <2>2, <2>5
  <2>7. \A t \in 0..(turn' - 1) : InTurn(loops, t)' # {}
    BY <2>2, <2>4, <2>5
  <2>8. stall' \in Nat
    BY DEF TypeOK
  <2>9. ASSUME NEW r \in 1..(turn + 1), Alike(r)' PROVE stall' >= r
    <3>1. \A t \in (turn + 1 - r)..turn : Quiet(loops, t) /\ KindOf(loops, t) = KindOf(loops, turn)
      BY <2>1, <2>2, <2>5, <2>9 DEF Alike
    <3>2. Quiet(loops, turn) /\ turn \in (turn + 1 - r)..turn
      BY <1>0, <3>1
    <3>3. stall' = IF prev # "none" /\ kind # prev THEN 1 ELSE stall + 1
      BY <2>1, <3>2 DEF Stalled
    <3>4. CASE r = 1
      BY <1>0, <3>3, <3>4
    <3>5. CASE r > 1
      <4>1. turn > 0 /\ turn - 1 \in (turn + 1 - r)..turn /\ r - 1 \in 1..turn
        BY <1>0, <3>5
      <4>2. prev = KindOf(loops, turn - 1) /\ KindOf(loops, turn - 1) = kind
        BY <3>1, <4>1 DEF Counted
      <4>3. \A t \in (turn - (r - 1))..(turn - 1) : t \in (turn + 1 - r)..turn
        BY <1>0
      <4>4. Alike(r - 1)
        BY <3>1, <4>2, <4>3 DEF Alike
      <4>5. stall >= r - 1
        BY <4>1, <4>4 DEF Counted
      <4> QED
        BY <1>0, <3>3, <4>2, <4>5
    <3> QED
      BY <3>4, <3>5
  <2>10. pc' # "over" /\ ProgressLimit > 0 => stall' < ProgressLimit
    BY <1>0, <2>1, <2>8
  <2> QED
    BY <1>0, <2>1, <2>6, <2>7, <2>9, <2>10 DEF Counted
<1>4. CASE Triage \/ Repair \/ Stop \/ Gate \/ Dispatch \/ PassEnds \/ GroupEnds
           \/ SessionEnds \/ SessionLost \/ Retry
  <2>1. turn' = turn /\ loops' = loops /\ stall' = stall /\ prev' = prev
    BY <1>4 DEF Triage, Repair, Stop, Gate, Dispatch, PassEnds, GroupEnds, SessionEnds,
                SessionLost, Retry, loopVars
  <2>2. pc' = "over" \/ pc # "over"
    BY <1>4 DEF Triage, Repair, Stop, Gate, Dispatch, PassEnds, GroupEnds, SessionEnds,
                SessionLost, Retry, loopVars, Over
  <2> QED
    BY <1>1, <2>1, <2>2
<1>5. CASE UNCHANGED vars
  <2>1. turn' = turn /\ loops' = loops /\ stall' = stall /\ prev' = prev /\ pc' = pc
    BY <1>5 DEF vars, loopVars
  <2> QED
    BY <1>1, <2>1
<1> QED
  BY <1>2, <1>3, <1>4, <1>5 DEF Next

-----------------------------------------------------------------------------
(* The theorems. *)

IInv == TypeOK /\ Placed /\ Covered /\ Held /\ Counted

LEMMA InitInv == Init => IInv
<1> SUFFICES ASSUME Init PROVE IInv
  OBVIOUS
<1>1. TypeOK
  <2>1. queue \in [Passes -> [done : BOOLEAN, slice : Nat]]
    BY DEF Init
  <2>2. stream = <<>> /\ stream \in Seq(Sess)
    BY DEF Init
  <2>3. /\ other = FALSE /\ source = 0 /\ base = 0 /\ pc = "over" /\ prev = "none"
        /\ attempt = 0 /\ turn = 0 /\ clock = 0 /\ stall = 0 /\ loops = 0
    BY DEF Init
  <2>4. {attempt, turn, clock, stall, loops} \subseteq Nat
    BY <2>3
  <2>5. /\ other \in BOOLEAN /\ source \in {0, 1} /\ base \in {0, 1}
        /\ pc \in {"over", "top", "session", "parallel", "after", "retry"}
        /\ prev \in {"none", "run-other", "run-auditor"}
    BY <2>3
  <2> QED
    BY <2>1, <2>2, <2>4, <2>5 DEF TypeOK
<1>2. Placed /\ Covered
  BY DEF Init, Placed, Covered
<1>3. \A p \in Passes : Cardinality(Barren(p)) = 0
  <2>1. \A p \in Passes : Barren(p) = {}
    BY DEF Init, Barren, Sessions
  <2> QED
    BY <2>1, FS_EmptySet
<1>4. \A p \in Passes : Allowed(p) = RetryLimit
  BY DEF Init, Allowed
<1>5. Held
  BY <1>3, <1>4, Constants DEF Init, Held, KeysAreOld
<1>6. Counted
  BY DEF Init, Counted
<1> QED
  BY <1>1, <1>2, <1>5, <1>6 DEF IInv

LEMMA InvStep == IInv /\ [Next]_vars => IInv'
<1> SUFFICES ASSUME IInv, [Next]_vars PROVE IInv'
  OBVIOUS
<1>1. TypeOK /\ Placed /\ Covered /\ Held /\ Counted
  BY DEF IInv
<1>2. TypeOK'
  BY <1>1, TypeStep
<1>3. Placed'
  BY <1>1, <1>2, PlacedStep
<1>4. Covered' /\ Held' /\ Counted'
  BY <1>1, <1>2, <1>3, CoveredStep, HeldStep, CountedStep
<1> QED
  BY <1>2, <1>3, <1>4 DEF IInv

LEMMA Inductive == Spec => []IInv
BY InitInv, InvStep, PTL DEF Spec

(* The stream stays a sequence of sessions and the counters numbers, whatever  *)
(* the costs, the limits and the queue are (cli.cmd_loop, budget.ledger).      *)
THEOREM LoopTypes == Spec => []TypeOK
<1>1. IInv => TypeOK
  BY DEF IInv
<1> QED
  BY <1>1, Inductive, PTL

(* budget.admit: an audit costs no more than the payer's ceiling, plus what    *)
(* the sessions dispatched last, and those nobody measured, took beyond their  *)
(* reservations: for any queue, group, costs, retries and restarts.            *)
THEOREM CeilingIsKept == Spec => []CeilingHolds
<1>1. IInv => CeilingHolds
  BY CoveredHolds DEF IInv
<1> QED
  BY <1>1, Inductive, PTL

(* decision.embargo_report: a charter that moves nothing is not bought more    *)
(* than After times under one key, and by the retries of the last of them,     *)
(* however often the loop is restarted, for any number of passes.              *)
THEOREM EmbargoIsKept == Spec => []EmbargoHolds
<1>1. ASSUME IInv PROVE EmbargoHolds
  <2>1. /\ attempt \in Nat /\ RetryLimit \in Nat /\ After \in Nat \ {0} /\ attempt <= RetryLimit
        /\ \A p \in Passes : Cardinality(Barren(p)) \in Nat /\ Cardinality(Barren(p)) <= After + Allowed(p)
    BY <1>1, Streams, Constants, BarrenIsFinite DEF IInv, Held, BarrenFinite
  <2>2. \A p \in Passes : Allowed(p) \in Nat /\ Allowed(p) <= RetryLimit
    BY <2>1 DEF Allowed
  <2> QED
    BY <2>1, <2>2 DEF EmbargoHolds
<1>2. IInv => EmbargoHolds
  BY <1>1
<1> QED
  BY <1>2, Inductive, PTL

(* cli.cmd_loop: no loop begins another turn after loop_progress_limit turns   *)
(* of one kind that moved nothing, for any limit and whatever the turns were.  *)
THEOREM StallsStop == Spec => []StallStops
<1>1. ASSUME IInv PROVE StallStops
  <2>1. turn \in Nat /\ stall \in Nat /\ ProgressLimit \in Nat
    BY <1>1, Streams, Constants DEF IInv
  <2>2. SUFFICES ASSUME pc = "top", ProgressLimit > 0, turn >= ProgressLimit, Alike(ProgressLimit)
                 PROVE  FALSE
    BY DEF StallStops, Alike
  <2>3. stall < ProgressLimit
    BY <1>1, <2>2 DEF IInv, Counted
  <2>4. stall >= ProgressLimit
    BY <1>1, <2>1, <2>2 DEF IInv, Counted
  <2> QED
    BY <2>1, <2>3, <2>4
<1>2. IInv => StallStops
  BY <1>1
<1> QED
  BY <1>2, Inductive, PTL
=============================================================================
