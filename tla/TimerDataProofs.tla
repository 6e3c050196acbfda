-------------------------- MODULE TimerDataProofs ---------------------------
(***************************************************************************)
(* Lemmas about the data of timer.c: the sums along the list, the times    *)
(* left that the list encodes, and what setting the alarm, putting a timer *)
(* into the list, taking it out and writing a field make of them.          *)
(***************************************************************************)
EXTENDS TimerList, WellFoundedInduction, TLAPS

(***************************************************************************)
(* Induction over the naturals, from the well-foundedness of <.            *)
(***************************************************************************)
(* A set of naturals that is not empty has a least element. *)
LEMMA NatMin ==
    ASSUME NEW T, T \subseteq Nat, T # {}
    PROVE  \E x \in T : \A y \in T : x <= y
<1> DEFINE R == {ss \in Nat \X Nat : ss[1] < ss[2]}
<1>1. IsWellFoundedOn(R, Nat)
  BY NatLessThanWellFounded DEF OpToRel
<1>2. \E x \in T : \A y \in T : ~(<<y, x>> \in R)
  BY <1>1, WFMin, Zenon
<1>3. PICK x \in T : \A y \in T : ~(<<y, x>> \in R)
  BY <1>2, Zenon
<1>4. ASSUME NEW y \in T PROVE x <= y
  <2>1. x \in Nat /\ y \in Nat
    BY Zenon
  <2>2. ~(<<y, x>> \in R)
    BY <1>3, Zenon
  <2>3. <<y, x>> \in Nat \X Nat /\ <<y, x>>[1] = y /\ <<y, x>>[2] = x
    BY <2>1, SMT
  <2>4. ~(y < x)
    BY <2>2, <2>3, Zenon
  <2> QED
    BY <2>1, <2>4, SMT
<1> QED
  BY <1>4, Zenon

(* A set that holds 0 and the successors of its members holds every natural. *)
LEMMA NatSetInduction ==
    ASSUME NEW S, 0 \in S, \A n \in Nat : n \in S => n + 1 \in S
    PROVE  \A n \in Nat : n \in S
<1> SUFFICES ASSUME NEW k \in Nat, k \notin S PROVE FALSE
  BY Zenon
<1> DEFINE T == Nat \ S
<1>1. PICK x \in T : \A y \in T : x <= y
  BY NatMin, Zenon
<1>2. x \in Nat /\ x \notin S
  BY Zenon
<1>3. x # 0
  BY <1>2, Zenon
<1>4. x - 1 \in Nat /\ ~(x <= x - 1) /\ (x - 1) + 1 = x
  BY <1>2, <1>3, SMT
<1>5. x - 1 \in S
  BY <1>1, <1>4, Zenon
<1> QED
  BY <1>2, <1>4, <1>5, Zenon

(* Min picks the least element. *)
LEMMA MinOfNats ==
    ASSUME NEW T, T \subseteq Nat, T # {}
    PROVE  Min(T) \in T /\ \A y \in T : Min(T) <= y
BY NatMin, Zenon DEF Min

(* Max of a set of naturals with an upper bound. *)
LEMMA MaxOfNats ==
    ASSUME NEW T, NEW b \in Nat, T \subseteq 0..b, T # {}
    PROVE  Max(T) \in T /\ \A y \in T : Max(T) >= y
<1> DEFINE U == {b - y : y \in T}
<1>1. U \subseteq Nat /\ U # {}
  <2>1. \A y \in T : b - y \in Nat
    BY SMT
  <2> QED
    BY <2>1, Zenon
<1>2. PICK x \in U : \A y \in U : x <= y
  BY <1>1, NatMin, Zenon
<1>3. PICK z \in T : x = b - z
  BY Zenon
<1>4. \A y \in T : z >= y
  BY <1>2, <1>3, SMT
<1> QED
  BY <1>4, Zenon DEF Max

-----------------------------------------------------------------------------
(***************************************************************************)
(* The sums along the list.                                                *)
(***************************************************************************)
(* s adds up the times a of the places 2..n from r on: the equation of     *)
(* Aggregated.                                                             *)
IsSum(s, n, r, a) == s = [i \in 1..n |-> IF i = 1 THEN r ELSE s[i - 1] + a[i]]

(* There is such a function. *)
LEMMA SumExists ==
    ASSUME NEW n \in Nat, NEW r \in Nat, NEW a \in [1..n -> Nat]
    PROVE  \E s \in [1..n -> Nat] : IsSum(s, n, r, a)
<1> DEFINE S == {k \in Nat : k <= n => \E s \in [1..k -> Nat] : IsSum(s, k, r, a)}
<1>1. 0 \in S
  <2> DEFINE e == [i \in 1..0 |-> 0]
  <2>1. e \in [1..0 -> Nat] /\ e = [i \in 1..0 |-> IF i = 1 THEN r ELSE e[i - 1] + a[i]]
    BY SMT
  <2> HIDE DEF e
  <2>2. IsSum(e, 0, r, a)
    BY <2>1, Zenon DEF IsSum
  <2> QED
    BY <2>1, <2>2, Zenon
<1>2. ASSUME NEW k \in Nat, k \in S PROVE k + 1 \in S
  <2>9. k + 1 \in Nat
    BY SMT
  <2> SUFFICES ASSUME k + 1 <= n PROVE \E s \in [1..(k + 1) -> Nat] : IsSum(s, k + 1, r, a)
    BY <2>9, Zenon
  <2>0. k <= n
    BY SMT
  <2>1. PICK s \in [1..k -> Nat] : IsSum(s, k, r, a)
    BY <1>2, <2>0, Zenon
  <2> DEFINE q == [i \in 1..(k + 1) |-> IF i = k + 1 THEN (IF k = 0 THEN r ELSE s[k] + a[k + 1]) ELSE s[i]]
  <2>2. q \in [1..(k + 1) -> Nat]
    BY SMT
  <2>3. \A i \in 1..k : s[i] = IF i = 1 THEN r ELSE s[i - 1] + a[i]
    BY <2>1, Zenon DEF IsSum
  <2>4. ASSUME NEW i \in 1..(k + 1) PROVE q[i] = IF i = 1 THEN r ELSE q[i - 1] + a[i]
    <3>1. CASE i = 1
      BY <3>1, <2>3, SMT
    <3>2. CASE i # 1 /\ i = k + 1
      BY <3>2, SMT
    <3>3. CASE i # 1 /\ i # k + 1
      BY <3>3, <2>3, SMT
    <3> QED
      BY <3>1, <3>2, <3>3, Zenon
  <2>5. q = [i \in 1..(k + 1) |-> IF i = 1 THEN r ELSE q[i - 1] + a[i]]
    BY <2>4, Zenon
  <2> HIDE DEF q
  <2> QED
    BY <2>2, <2>5, Zenon DEF IsSum
<1>3. n \in S
  BY <1>1, <1>2, NatSetInduction, Zenon
<1> QED
  BY <1>3, SMT

(* It is the only one. *)
LEMMA SumUnique ==
    ASSUME NEW n \in Nat, NEW r, NEW a, NEW s, NEW q, IsSum(s, n, r, a), IsSum(q, n, r, a)
    PROVE  s = q
<1> DEFINE S == {k \in Nat : k + 1 \in 1..n => s[k + 1] = q[k + 1]}
<1>0. /\ \A i \in 1..n : s[i] = IF i = 1 THEN r ELSE s[i - 1] + a[i]
      /\ \A i \in 1..n : q[i] = IF i = 1 THEN r ELSE q[i - 1] + a[i]
  BY Zenon DEF IsSum
<1>1. 0 \in S
  BY <1>0, SMT
<1>2. ASSUME NEW k \in Nat, k \in S PROVE k + 1 \in S
  BY <1>2, <1>0, SMT
<1>3. \A k \in Nat : k \in S
  BY <1>1, <1>2, NatSetInduction, Zenon
<1>4. ASSUME NEW i \in 1..n PROVE s[i] = q[i]
  BY <1>3, SMT
<1>5. s = [i \in 1..n |-> s[i]] /\ q = [i \in 1..n |-> q[i]]
  BY Zenon DEF IsSum
<1> QED
  BY <1>4, <1>5, Zenon

-----------------------------------------------------------------------------
(***************************************************************************)
(* The time left of each timer, as the list encodes it.                    *)
(***************************************************************************)
(* The memory the operations work on. *)
Memory ==
    [list : Seq(Timer), Timestamp : [Timer -> Nat], IsRunning : [Timer -> BOOLEAN], elapsed : Nat,
     alarm : Nat, wakeUp : BOOLEAN, allows : BOOLEAN, looped : 0..LoopsToSleep, lead : Nat]

Distinct(l) == \A i, j \in DOMAIN l : l[i] = l[j] => i = j

(* f gives the times left when r is left of the head. *)
Encodes(l, ts, r, f) ==
    /\ f \in [Listed(l) -> Nat]
    /\ l # <<>> => f[l[1]] = r
    /\ \A i \in 2..Len(l) : f[l[i]] = f[l[i - 1]] + ts[l[i]]

(* The fields of a memory. *)
LEMMA MemoryFields ==
    ASSUME NEW m \in Memory
    PROVE  /\ m.list \in Seq(Timer) /\ m.Timestamp \in [Timer -> Nat] /\ m.IsRunning \in [Timer -> BOOLEAN]
           /\ m.elapsed \in Nat /\ m.alarm \in Nat /\ m.wakeUp \in BOOLEAN /\ m.allows \in BOOLEAN
           /\ m.looped \in 0..LoopsToSleep /\ m.lead \in Nat
BY Zenon DEF Memory

(* A field of a memory may be set to any value of its type. *)
LEMMA MemoryExcept ==
    ASSUME NEW m \in Memory
    PROVE  /\ \A v \in Seq(Timer) : [m EXCEPT !.list = v] \in Memory
           /\ \A v \in [Timer -> Nat] : [m EXCEPT !.Timestamp = v] \in Memory
           /\ \A v \in [Timer -> BOOLEAN] : [m EXCEPT !.IsRunning = v] \in Memory
           /\ \A v \in Nat : [m EXCEPT !.elapsed = v] \in Memory
           /\ \A v \in Nat : [m EXCEPT !.alarm = v] \in Memory
           /\ \A v \in BOOLEAN : [m EXCEPT !.wakeUp = v] \in Memory
           /\ \A v \in BOOLEAN : [m EXCEPT !.allows = v] \in Memory
           /\ \A v \in 0..LoopsToSleep : [m EXCEPT !.looped = v] \in Memory
           /\ \A v \in Nat : [m EXCEPT !.lead = v] \in Memory
BY Zenon DEF Memory

(* The members of a list are the values at its places. *)
LEMMA ListPlaces ==
    ASSUME NEW l \in Seq(Timer)
    PROVE  /\ Len(l) \in Nat /\ DOMAIN l = 1..Len(l)
           /\ \A i \in 1..Len(l) : l[i] \in Timer /\ l[i] \in Listed(l)
           /\ \A t \in Listed(l) : t \in Timer /\ \E i \in 1..Len(l) : l[i] = t
           /\ l = <<>> <=> Len(l) = 0
           /\ l # <<>> => Head(l) = l[1] /\ 1 \in 1..Len(l)
           /\ l = <<>> => Listed(l) = {}
BY SMT DEF Listed, Range

LEMMA ListHead ==
    ASSUME NEW l \in Seq(Timer), l # <<>>
    PROVE  Head(l) = l[1] /\ l[1] \in Timer /\ l[1] \in Listed(l)
BY ListPlaces, SMT

(* The sums along the list are the times left. *)
LEMMA AggregatedAt ==
    ASSUME NEW m \in Memory, NEW r \in Nat, NEW f, Encodes(m.list, m.Timestamp, r, f)
    PROVE  \A i \in 1..Len(m.list) : Aggregated(m, r)[i] = f[m.list[i]]
<1> DEFINE l == m.list
           ts == m.Timestamp
           n == Len(l)
           a == [i \in 1..n |-> ts[l[i]]]
           q == [i \in 1..n |-> f[l[i]]]
<1>1. l \in Seq(Timer) /\ ts \in [Timer -> Nat]
  BY MemoryFields, Zenon
<1> HIDE DEF l, ts
<1>2. /\ n \in Nat /\ \A i \in 1..n : l[i] \in Timer /\ l[i] \in Listed(l)
      /\ l = <<>> <=> n = 0
  BY <1>1, ListPlaces, Zenon
<1>3. a \in [1..n -> Nat]
  BY <1>1, <1>2, Zenon
<1>4. f \in [Listed(l) -> Nat] /\ (l # <<>> => f[l[1]] = r)
      /\ \A i \in 2..n : f[l[i]] = f[l[i - 1]] + ts[l[i]]
  BY Zenon DEF Encodes, l, ts
<1> HIDE DEF n
<1>5. IsSum(q, n, r, a)
  BY <1>2, <1>4, SMT DEF IsSum
<1>6. IsSum(Aggregated(m, r), n, r, a)
  <2> DEFINE F(s) == [i \in 1..n |-> IF i = 1 THEN r ELSE s[i - 1] + ts[l[i]]]
  <2>1. Aggregated(m, r) = CHOOSE s : s = F(s)
    BY Zenon DEF Aggregated, n, l, ts
  <2>2. ASSUME NEW s PROVE F(s) = [i \in 1..n |-> IF i = 1 THEN r ELSE s[i - 1] + a[i]]
    BY Zenon
  <2>3. q = F(q)
    BY <1>5, <2>2, Zenon DEF IsSum
  <2> HIDE DEF F, q
  <2>4. Aggregated(m, r) = F(Aggregated(m, r))
    BY <2>1, <2>3, Zenon
  <2> QED
    BY <2>2, <2>4, Zenon DEF IsSum
<1>7. Aggregated(m, r) = q
  BY <1>2, <1>5, <1>6, SumUnique, SMT
<1> QED
  BY <1>7, Zenon DEF n, l

(* What is left of the head is a natural. *)
LEMMA RemainingType ==
    ASSUME NEW m \in Memory, m.list # <<>>
    PROVE  /\ Remaining(m) \in Nat /\ Remaining(m) <= m.Timestamp[m.list[1]]
           /\ ~m.IsRunning[m.list[1]] => Remaining(m) = m.Timestamp[m.list[1]]
           /\ m.IsRunning[m.list[1]] /\ m.elapsed > m.Timestamp[m.list[1]] => Remaining(m) = 0
           /\ m.IsRunning[m.list[1]] /\ ~(m.elapsed > m.Timestamp[m.list[1]]) =>
                 Remaining(m) = m.Timestamp[m.list[1]] - m.elapsed
BY MemoryFields, ListPlaces, SMT DEF Remaining

(* There is one function the list encodes: Left. *)
LEMMA LeftUnique ==
    ASSUME NEW m \in Memory, NEW f, Encodes(m.list, m.Timestamp, Remaining(m), f)
    PROVE  Left(m) = f
<1> DEFINE l == m.list
           c(t) == CHOOSE i \in DOMAIN l : l[i] = t
<1>1. l \in Seq(Timer)
  BY MemoryFields, Zenon
<1>2. f \in [Listed(l) -> Nat]
  BY Zenon DEF Encodes
<1>3. ASSUME NEW t \in Listed(l) PROVE Aggregated(m, Remaining(m))[c(t)] = f[t]
  <2>1. c(t) \in 1..Len(l) /\ l[c(t)] = t
    BY <1>1, ListPlaces, ZenonT(60)
  <2>2. l # <<>>
    BY <1>1, ListPlaces, Zenon
  <2>3. Remaining(m) \in Nat
    BY <2>2, RemainingType, Zenon
  <2> HIDE DEF c
  <2>4. Aggregated(m, Remaining(m))[c(t)] = f[l[c(t)]]
    BY <2>1, <2>3, AggregatedAt, Zenon
  <2> QED
    BY <2>1, <2>4, Zenon
<1>4. Left(m) = [t \in Listed(l) |-> Aggregated(m, Remaining(m))[c(t)]]
  BY Zenon DEF Left
<1>5. f = [t \in Listed(l) |-> f[t]]
  BY <1>2, Zenon
<1> HIDE DEF c, l
<1> QED
  BY <1>3, <1>4, <1>5, Zenon

LEMMA LeftEncodes ==
    ASSUME NEW m \in Memory, Distinct(m.list)
    PROVE  Encodes(m.list, m.Timestamp, Remaining(m), Left(m))
<1> DEFINE l == m.list
           ts == m.Timestamp
           n == Len(l)
           a == [i \in 1..n |-> ts[l[i]]]
           r == IF l = <<>> THEN 0 ELSE Remaining(m)
           c(t) == CHOOSE i \in DOMAIN l : l[i] = t
<1>1. l \in Seq(Timer) /\ ts \in [Timer -> Nat] /\ Distinct(l)
  BY MemoryFields, Zenon
<1>2. r \in Nat
  BY RemainingType, Zenon
<1>0. l # <<>> => r = Remaining(m)
  BY Zenon
<1> HIDE DEF l, ts, r
<1>3. /\ n \in Nat /\ DOMAIN l = 1..n /\ \A i \in 1..n : l[i] \in Timer /\ l[i] \in Listed(l)
      /\ l = <<>> <=> n = 0
      /\ l # <<>> => 1 \in 1..n
      /\ \A t \in Listed(l) : \E i \in 1..n : l[i] = t
  BY <1>1, ListPlaces, Zenon
<1> HIDE DEF n
<1>4. a \in [1..n -> Nat]
  BY <1>1, <1>3, Zenon
<1>5. PICK s \in [1..n -> Nat] : IsSum(s, n, r, a)
  BY <1>2, <1>3, <1>4, SumExists, Zenon
<1>6. \A i \in 1..n : s[i] = IF i = 1 THEN r ELSE s[i - 1] + a[i]
  BY <1>5, Zenon DEF IsSum
<1>7. \A t \in Listed(l) : c(t) \in 1..n /\ l[c(t)] = t
  BY <1>3, Zenon
<1> HIDE DEF c
<1>8. \A i \in 1..n : c(l[i]) = i
  BY <1>1, <1>3, <1>7, Zenon DEF Distinct
<1> DEFINE f == [t \in Listed(l) |-> s[c(t)]]
<1>9. f \in [Listed(l) -> Nat]
  BY <1>7, Zenon
<1>10. \A i \in 1..n : f[l[i]] = s[i]
  BY <1>3, <1>8, Zenon
<1> HIDE DEF f
<1>11. l # <<>> => f[l[1]] = r
  BY <1>3, <1>6, <1>10, Zenon
<1>12. ASSUME NEW i \in 2..n PROVE f[l[i]] = f[l[i - 1]] + ts[l[i]]
  <2>1. i \in 1..n /\ i - 1 \in 1..n /\ i # 1
    BY <1>3, SMT
  <2>2. s[i] = s[i - 1] + ts[l[i]]
    BY <1>6, <2>1, Zenon
  <2> QED
    BY <1>10, <2>1, <2>2, Zenon
<1>13. Encodes(m.list, m.Timestamp, Remaining(m), f)
  BY <1>0, <1>9, <1>11, <1>12, Zenon DEF Encodes, l, ts, n
<1> QED
  BY <1>13, LeftUnique, Zenon

(* The list is ordered by the time left. *)
LEMMA EncodesOrdered ==
    ASSUME NEW l \in Seq(Timer), NEW ts \in [Timer -> Nat], NEW r, NEW f, Encodes(l, ts, r, f),
           NEW j \in 1..Len(l)
    PROVE  \A i \in 1..j : f[l[i]] <= f[l[j]]
<1> DEFINE n == Len(l)
           T == {k \in Nat : \A i \in 1..n : i + k = j => f[l[i]] <= f[l[j]]}
<1>1. n \in Nat /\ \A i \in 1..n : l[i] \in Timer /\ l[i] \in Listed(l)
  BY ListPlaces, Zenon
<1>2. f \in [Listed(l) -> Nat] /\ \A i \in 2..n : f[l[i]] = f[l[i - 1]] + ts[l[i]]
  BY Zenon DEF Encodes
<1>3. \A i \in 1..n : f[l[i]] \in Nat /\ ts[l[i]] \in Nat
  BY <1>1, <1>2, Zenon
<1> HIDE DEF n
<1>j. j \in 1..n
  BY Zenon DEF n
<1>4. 0 \in T
  BY <1>1, <1>3, <1>j, SMT
<1>5. ASSUME NEW k \in Nat, k \in T PROVE k + 1 \in T
  <2>0. k + 1 \in Nat
    BY SMT
  <2>1. ASSUME NEW i \in 1..n, i + (k + 1) = j PROVE f[l[i]] <= f[l[j]]
    <3>1. i + 1 \in 1..n /\ i + 1 \in 2..n /\ (i + 1) + k = j /\ (i + 1) - 1 = i
      BY <1>1, <1>j, <2>1, SMT
    <3>2. f[l[i + 1]] <= f[l[j]]
      BY <1>5, <3>1, Zenon
    <3>3. PICK p : p = i + 1
      BY Zenon
    <3>4. f[l[p]] = f[l[i]] + ts[l[p]] /\ p \in 1..n
      BY <1>2, <3>1, <3>3, Zenon
    <3>5. PICK x, y, z, w : x = f[l[p]] /\ y = f[l[i]] /\ z = ts[l[p]] /\ w = f[l[j]]
      BY Zenon
    <3>6. x \in Nat /\ y \in Nat /\ z \in Nat /\ w \in Nat /\ x = y + z /\ x <= w
      BY <1>3, <1>j, <3>2, <3>3, <3>4, <3>5, Zenon
    <3>7. y <= w
      BY <3>6, SMT
    <3> QED
      BY <3>5, <3>7, Zenon
  <2> QED
    BY <2>0, <2>1, Zenon
<1>6. \A k \in Nat : k \in T
  BY <1>4, <1>5, NatSetInduction, Zenon
<1>7. ASSUME NEW i \in 1..j PROVE f[l[i]] <= f[l[j]]
  <2>1. j - i \in Nat /\ i \in 1..n /\ i + (j - i) = j
    BY <1>1, <1>j, SMT
  <2> QED
    BY <1>6, <2>1, Zenon
<1> QED
  BY <1>7, Zenon

-----------------------------------------------------------------------------
(***************************************************************************)
(* TimerSetTimeout.                                                        *)
(***************************************************************************)
(* The alarm comes before the time it is set for, and a time that is not   *)
(* nothing is never adjusted to nothing.                                   *)
LEMMA AdjustedTimeout ==
    ASSUME NEW m \in Memory, NEW x \in Nat
    PROVE  /\ RtcGetAdjustedTimeoutValue(m, x) \in 0..x
           /\ x > 0 => RtcGetAdjustedTimeoutValue(m, x) > 0
BY TimerAssumption, SMT DEF AfterUnscheduled, Unscheduled, RtcGetAdjustedTimeoutValue, Sleeps

(* What TimerSetTimeout makes n of m, with the head h. *)
TimeoutSet(m, n, h) ==
    /\ n \in Memory
    /\ n.list = m.list /\ n.IsRunning = m.IsRunning /\ n.elapsed = 0
    /\ n.lead \in 0..m.Timestamp[h]
    /\ n.Timestamp = [m.Timestamp EXCEPT ![h] = m.Timestamp[h] - n.lead]
    /\ n.alarm = IF n.Timestamp[h] < 1 THEN 1 ELSE n.Timestamp[h]
    /\ m.Timestamp[h] > 0 => n.Timestamp[h] > 0

LEMMA SetTimeoutFields ==
    ASSUME NEW m \in Memory, NEW h \in Timer, h = Head(m.list),
           NEW n, n = TimerSetTimeout(m)
    PROVE  TimeoutSet(m, n, h)
<1>1. PICK x, z : x = m.Timestamp[h] /\ z = RtcGetAdjustedTimeoutValue(m, x)
  BY Zenon
<1>2. x \in Nat
  BY <1>1, MemoryFields, Zenon
<1>3. z \in 0..x /\ (x > 0 => z > 0)
  BY <1>1, <1>2, AdjustedTimeout, Zenon
<1>4. PICK w, al, ar, ld : /\ w = (m.wakeUp /\ ~Unscheduled(m, x))
                 /\ al = (IF AfterUnscheduled(m, x) > McuWakeUpTime
                          THEN AfterUnscheduled(m, x) >= LowPowerDelay ELSE m.allows)
                 /\ ar = (IF z < 1 THEN 1 ELSE z)
                 /\ ld = x - z
  BY Zenon
<1>5. n = [m EXCEPT !.Timestamp[h] = z, !.wakeUp = w, !.allows = al, !.looped = 0,
                    !.elapsed = 0, !.alarm = ar, !.lead = ld]
  BY <1>1, <1>4, Zenon DEF TimerSetTimeout
<1>6. w \in BOOLEAN /\ al \in BOOLEAN
  <2>1. AfterUnscheduled(m, x) \in Int /\ LowPowerDelay \in Int
    BY <1>2, TimerAssumption, SMT DEF AfterUnscheduled
  <2>2. (AfterUnscheduled(m, x) >= LowPowerDelay) \in BOOLEAN
    BY <2>1, SMT
  <2> QED
    BY <1>4, <2>2, MemoryFields, Zenon
<1>7. ar \in Nat /\ ld \in 0..x /\ ld \in Nat /\ x - ld = z /\ z \in Nat
  BY <1>2, <1>3, <1>4, SMT
<1>8. 0 \in 0..LoopsToSleep
  BY TimerAssumption, SMT
<1>9. /\ n.list = m.list /\ n.IsRunning = m.IsRunning /\ n.elapsed = 0 /\ n.lead = ld
       /\ n.Timestamp = [m.Timestamp EXCEPT ![h] = z] /\ n.alarm = ar
  BY <1>5, SMT DEF Memory
<1>10. [m.Timestamp EXCEPT ![h] = z] \in [Timer -> Nat]
  BY <1>7, MemoryFields, Zenon
<1>11. n \in Memory
  <2>1. PICK ts, zero : ts = [m.Timestamp EXCEPT ![h] = z] /\ zero = 0
    BY Zenon
  <2>2. PICK m1 \in Memory : m1 = [m EXCEPT !.Timestamp = ts]
    BY <1>10, <2>1, MemoryExcept, Zenon
  <2>3. PICK m2 \in Memory : m2 = [m1 EXCEPT !.wakeUp = w]
    BY <1>6, MemoryExcept, Zenon
  <2>4. PICK m3 \in Memory : m3 = [m2 EXCEPT !.allows = al]
    BY <1>6, MemoryExcept, Zenon
  <2>5. PICK m4 \in Memory : m4 = [m3 EXCEPT !.looped = zero]
    BY <1>8, <2>1, MemoryExcept, Zenon
  <2>6. PICK m5 \in Memory : m5 = [m4 EXCEPT !.elapsed = zero]
    BY <2>1, MemoryExcept, Zenon
  <2>7. PICK m6 \in Memory : m6 = [m5 EXCEPT !.alarm = ar]
    BY <1>7, MemoryExcept, Zenon
  <2>8. PICK m7 \in Memory : m7 = [m6 EXCEPT !.lead = ld]
    BY <1>7, MemoryExcept, Zenon
  <2> QED
    BY <1>5, <2>1, <2>2, <2>3, <2>4, <2>5, <2>6, <2>7, <2>8, Zenon
<1>13. n.Timestamp[h] = z
  BY <1>9, MemoryFields, Zenon
<1> QED
  BY <1>1, <1>3, <1>4, <1>7, <1>9, <1>11, <1>13, Zenon DEF TimeoutSet

(* A delay and twice the latency fit into a word. *)
LEMMA LongestType ==
    /\ Longest \in Nat /\ 1 <= Longest /\ MaxLatency \in Nat /\ Word \in Nat
    /\ Longest + MaxLatency + MaxLatency = Word - 1
BY TimerAssumption, SMT DEF Longest

-----------------------------------------------------------------------------
(***************************************************************************)
(* What every operation keeps up.                                          *)
(***************************************************************************)
(* The list holds no timer twice, counts within the longest delay, and     *)
(* only its head runs.                                                     *)
Sound(m) ==
    /\ m \in Memory /\ Distinct(m.list)
    /\ \A t \in Timer : m.Timestamp[t] <= Longest
    /\ \A t \in Listed(m.list) : Left(m)[t] <= Longest
    /\ \A i \in 2..Len(m.list) : ~m.IsRunning[m.list[i]]
    /\ m.elapsed <= Word - 1 /\ m.alarm <= Word - 1

Runs(m) == m.list # <<>> /\ m.IsRunning[m.list[1]]

(* The alarm of a running head is set for what is left of it. *)
OnTime(m) == Runs(m) => m.alarm > 0 /\ m.Timestamp[m.list[1]] = m.elapsed + m.alarm

(* The operation that made n of m left the timers of g, and moved all of   *)
(* them on by the compensation n.lead.                                     *)
Follows(m, n, g) ==
    /\ Sound(n) /\ Listed(n.list) = DOMAIN g
    /\ \A t \in Listed(n.list) : n.lead <= g[t] /\ Left(n)[t] = g[t] - n.lead
    /\ (m.list = <<>> \/ Runs(m)) => (n.list = <<>> \/ Runs(n))
    /\ Runs(n) => n.elapsed = 0 \/ (Runs(m) /\ n.elapsed = m.elapsed)
    /\ OnTime(m) => OnTime(n)

(* TimerSetTimeout is called for a head of which its whole Timestamp is    *)
(* left, and the times left are f.                                         *)
Ready(m, f) ==
    /\ m \in Memory /\ m.list # <<>> /\ Distinct(m.list)
    /\ \A t \in Timer : m.Timestamp[t] <= Longest
    /\ m.IsRunning[m.list[1]] /\ \A i \in 2..Len(m.list) : ~m.IsRunning[m.list[i]]
    /\ Encodes(m.list, m.Timestamp, m.Timestamp[m.list[1]], f)
    /\ \A t \in Listed(m.list) : f[t] <= Longest

(* It sets the alarm, and all timers move on by the compensation. *)
AlarmSet(m, n, f) ==
    /\ Sound(n) /\ n.list = m.list /\ Runs(n) /\ n.elapsed = 0
    /\ \A t \in Listed(n.list) : n.lead <= f[t] /\ Left(n)[t] = f[t] - n.lead
    /\ m.Timestamp[m.list[1]] > 0 => OnTime(n)

LEMMA SetTimeoutSound ==
    ASSUME NEW m, NEW f, Ready(m, f), NEW n, n = TimerSetTimeout(m)
    PROVE  AlarmSet(m, n, f)
<1> USE DEF Ready, AlarmSet
<1> DEFINE l == m.list
           h == l[1]
           ts == m.Timestamp
           N == Len(l)
<1>1. l \in Seq(Timer) /\ ts \in [Timer -> Nat] /\ l # <<>>
  BY MemoryFields, Zenon
<1>2. /\ h \in Timer /\ h \in Listed(l) /\ h = Head(l) /\ N \in Nat /\ DOMAIN l = 1..N /\ 1 \in 1..N
      /\ \A i \in 1..N : l[i] \in Timer /\ l[i] \in Listed(l)
      /\ \A t \in Listed(l) : \E i \in 1..N : l[i] = t
  BY <1>1, ListPlaces, Zenon
<1>3. /\ n \in Memory
      /\ n.list = l /\ n.IsRunning = m.IsRunning /\ n.elapsed = 0
      /\ n.lead \in 0..ts[h]
      /\ n.Timestamp = [ts EXCEPT ![h] = ts[h] - n.lead]
      /\ n.alarm = IF n.Timestamp[h] < 1 THEN 1 ELSE n.Timestamp[h]
      /\ ts[h] > 0 => n.Timestamp[h] > 0
  BY <1>2, SetTimeoutFields, SMT DEF TimeoutSet
<1>4. /\ f \in [Listed(l) -> Nat] /\ f[h] = ts[h]
      /\ \A i \in 2..N : f[l[i]] = f[l[i - 1]] + ts[l[i]]
  BY <1>1, Zenon DEF Encodes
<1>5. Encodes(l, ts, ts[h], f) /\ Distinct(l) /\ (\A t \in Timer : ts[t] <= Longest)
      /\ m.IsRunning[h] /\ (\A i \in 2..N : ~m.IsRunning[l[i]])
      /\ \A t \in Listed(l) : f[t] <= Longest
  BY Zenon
<1> HIDE DEF l, ts
<1>6. PICK x, d : x = ts[h] /\ d = n.lead
  BY Zenon
<1>7. x \in Nat /\ d \in 0..x /\ d \in Nat /\ x - d \in Nat /\ x - d <= x /\ ~(0 > x - d) /\ (x - d) - 0 = x - d
  BY <1>1, <1>2, <1>3, <1>6, SMT
<1>8. n.Timestamp[h] = x - d /\ \A t \in Timer : t # h => n.Timestamp[t] = ts[t]
  <2>1. PICK y : y = x - d
    BY Zenon
  <2>2. n.Timestamp = [ts EXCEPT ![h] = y] /\ h \in Timer /\ ts \in [Timer -> Nat]
    BY <1>1, <1>2, <1>3, <1>6, <2>1, Zenon
  <2>3. n.Timestamp[h] = y /\ \A t \in Timer : t # h => n.Timestamp[t] = ts[t]
    BY <2>2, SMT
  <2> QED
    BY <2>1, <2>3, Zenon
<1>9. \A t \in Listed(l) : x <= f[t]
  <2>1. ASSUME NEW j \in 1..N PROVE f[h] <= f[l[j]]
    <3>1. 1 \in 1..j
      BY <1>2, SMT
    <3> QED
      BY <1>1, <1>5, <3>1, EncodesOrdered, Zenon
  <2> HIDE DEF h, N
  <2> QED
    BY <1>2, <1>4, <1>6, <2>1, Zenon
<1> DEFINE g == [t \in Listed(l) |-> f[t] - d]
<1>10. \A t \in Listed(l) : f[t] \in Nat /\ d <= f[t] /\ f[t] - d \in Nat /\ f[t] - d <= f[t]
  BY <1>7, <1>4, <1>9, SMT
<1>11. Remaining(n) = x - d
  <2>1. PICK zero, y : zero = 0 /\ y = x - d
    BY Zenon
  <2>2. n.list # <<>> /\ n.list[1] = h /\ n.IsRunning[n.list[1]] /\ n.elapsed = zero /\ n.Timestamp[n.list[1]] = y
    BY <1>1, <1>3, <1>5, <1>8, <2>1, Zenon
  <2>3. ~(zero > y) /\ y - zero = y
    BY <1>7, <2>1, Zenon
  <2>4. Remaining(n) = n.Timestamp[n.list[1]] - n.elapsed
    BY <1>3, <2>2, <2>3, RemainingType, Zenon
  <2> QED
    BY <2>1, <2>2, <2>3, <2>4, Zenon
<1>12. Encodes(n.list, n.Timestamp, Remaining(n), g)
  <2>1. g \in [Listed(l) -> Nat] /\ g[h] = x - d
    BY <1>2, <1>4, <1>6, <1>10, Zenon
  <2>2. ASSUME NEW i \in 2..N PROVE g[l[i]] = g[l[i - 1]] + n.Timestamp[l[i]]
    <3>1. i \in 1..N /\ i - 1 \in 1..N /\ i # 1
      BY <1>2, SMT
    <3>2. l[i] # h
      BY <1>2, <1>5, <3>1, Zenon DEF Distinct
    <3>3. n.Timestamp[l[i]] = ts[l[i]]
      BY <1>2, <1>8, <3>1, <3>2, Zenon
    <3>4. PICK a, b, c : a = f[l[i]] /\ b = f[l[i - 1]] /\ c = ts[l[i]]
      BY Zenon
    <3>5. a \in Nat /\ b \in Nat /\ c \in Nat /\ a = b + c
      BY <1>1, <1>2, <1>4, <3>1, <3>4, Zenon
    <3>6. a - d = (b - d) + c
      BY <1>7, <3>5, SMT
    <3>7. g[l[i]] = a - d /\ g[l[i - 1]] = b - d
      BY <1>2, <3>1, <3>4, Zenon
    <3> QED
      BY <3>3, <3>4, <3>6, <3>7, Zenon
  <2> HIDE DEF g
  <2> QED
    BY <1>3, <1>11, <2>1, <2>2, ZenonT(60) DEF Encodes
<1>13. Left(n) = g
  BY <1>3, <1>12, LeftUnique, Zenon
<1>14. \A t \in Listed(n.list) : n.lead <= f[t] /\ Left(n)[t] = f[t] - n.lead
  BY <1>3, <1>6, <1>10, <1>13, SMT
<1>15. Runs(n)
  BY <1>1, <1>3, <1>5, Zenon DEF Runs
<1>16. Sound(n)
  <2>1. ASSUME NEW t \in Timer PROVE n.Timestamp[t] <= Longest
    <3>1. x <= Longest /\ (x <= Longest => x - d <= Longest)
      BY <1>2, <1>5, <1>6, <1>7, LongestType, SMTT(60)
    <3> QED
      BY <1>5, <1>8, <3>1, Zenon
  <2>2. ASSUME NEW t \in Listed(n.list) PROVE Left(n)[t] <= Longest
    BY <1>3, <1>5, <1>6, <1>10, <1>14, <1>7, LongestType, SMTT(60)
  <2>3. n.elapsed <= Word - 1 /\ n.alarm <= Word - 1
    BY <1>2, <1>3, <1>7, <1>8, <2>1, LongestType, SMT
  <2> QED
    BY <1>3, <1>5, <2>1, <2>2, <2>3, Zenon DEF Sound
<1>17. ts[h] > 0 => OnTime(n)
  BY <1>3, <1>7, <1>8, SMT DEF OnTime
<1> QED
  BY <1>3, <1>14, <1>15, <1>16, <1>17, Zenon DEF l, ts

-----------------------------------------------------------------------------
(***************************************************************************)
(* Lists with a timer put in or taken out.                                 *)
(***************************************************************************)
(* q is l with t put in at the place at. *)
Inserted(l, t, at, q) ==
    /\ q \in Seq(Timer) /\ Len(q) = Len(l) + 1
    /\ \A i \in 1..(Len(l) + 1) : /\ i < at => q[i] = l[i]
                                  /\ i = at => q[i] = t
                                  /\ i > at => q[i] = l[i - 1]

(* q is l without the timer at the place k. *)
Removed(l, k, q) ==
    /\ q \in Seq(Timer) /\ Len(q) = Len(l) - 1
    /\ \A i \in 1..(Len(l) - 1) : /\ i < k => q[i] = l[i]
                                  /\ i >= k => q[i] = l[i + 1]

(* What concatenation and SubSeq yield. *)
LEMMA SeqConcat ==
    ASSUME NEW S, NEW s1 \in Seq(S), NEW s2 \in Seq(S)
    PROVE  /\ s1 \o s2 \in Seq(S) /\ Len(s1 \o s2) = Len(s1) + Len(s2)
           /\ \A i \in 1..(Len(s1) + Len(s2)) : (s1 \o s2)[i] = IF i <= Len(s1) THEN s1[i] ELSE s2[i - Len(s1)]
BY SMT

LEMMA SeqPart ==
    ASSUME NEW S, NEW s \in Seq(S), NEW m \in Int, NEW n \in Int, \A i \in m..n : s[i] \in S
    PROVE  /\ SubSeq(s, m, n) \in Seq(S)
           /\ Len(SubSeq(s, m, n)) = IF m <= n THEN n - m + 1 ELSE 0
           /\ \A i \in 1..(n - m + 1) : SubSeq(s, m, n)[i] = s[m + i - 1]
BY SMT

LEMMA InsertedFirst ==
    ASSUME NEW l \in Seq(Timer), NEW t \in Timer
    PROVE  Inserted(l, t, 1, <<t>> \o l)
BY SeqConcat, SMT DEF Inserted

LEMMA InsertedWithin ==
    ASSUME NEW l \in Seq(Timer), NEW t \in Timer, NEW at \in 1..(Len(l) + 1)
    PROVE  Inserted(l, t, at, SubSeq(l, 1, at - 1) \o <<t>> \o SubSeq(l, at, Len(l)))
<1> DEFINE n == Len(l)
           u == SubSeq(l, 1, at - 1)
           v == SubSeq(l, at, n)
           s == <<t>>
           w == u \o s
           q == w \o v
<1>1. n \in Nat /\ at \in Int /\ at - 1 \in Nat /\ n \in Int /\ at - 1 \in Int /\ 1 \in Int
  BY SMT
<1>2. \A i \in 1..n : l[i] \in Timer
  BY ListPlaces, Zenon
<1>3. (\A i \in 1..(at - 1) : i \in 1..n) /\ (\A i \in at..n : i \in 1..n)
  BY <1>1, SMT
<1>4. s \in Seq(Timer) /\ Len(s) = 1 /\ s[1] = t
  BY SMT
<1> HIDE DEF s, n
<1>5. /\ u \in Seq(Timer) /\ Len(u) = (IF 1 <= at - 1 THEN (at - 1) - 1 + 1 ELSE 0)
      /\ \A i \in 1..((at - 1) - 1 + 1) : u[i] = l[1 + i - 1]
  BY <1>1, <1>2, <1>3, SeqPart
<1>6. /\ v \in Seq(Timer) /\ Len(v) = (IF at <= n THEN n - at + 1 ELSE 0)
      /\ \A i \in 1..(n - at + 1) : v[i] = l[at + i - 1]
  BY <1>1, <1>2, <1>3, SeqPart
<1> HIDE DEF u, v
<1>7. /\ w \in Seq(Timer) /\ Len(w) = Len(u) + 1
      /\ \A i \in 1..(Len(u) + 1) : w[i] = IF i <= Len(u) THEN u[i] ELSE s[i - Len(u)]
  <2>1. u \in Seq(Timer) /\ s \in Seq(Timer) /\ Len(s) = 1
    BY <1>4, <1>5, Zenon
  <2>2. /\ w \in Seq(Timer) /\ Len(w) = Len(u) + Len(s)
        /\ \A i \in 1..(Len(u) + Len(s)) : w[i] = IF i <= Len(u) THEN u[i] ELSE s[i - Len(u)]
    BY <2>1, SeqConcat, ZenonT(60)
  <2> QED
    BY <2>1, <2>2, Zenon
<1> HIDE DEF w
<1>8. /\ q \in Seq(Timer) /\ Len(q) = Len(w) + Len(v)
      /\ \A i \in 1..(Len(w) + Len(v)) : q[i] = IF i <= Len(w) THEN w[i] ELSE v[i - Len(w)]
  BY <1>6, <1>7, SeqConcat, Zenon
<1> HIDE DEF q
<1>9. at \in 1..(n + 1)
  BY Zenon DEF n
<1>10. Len(u) = at - 1 /\ Len(w) = at /\ Len(v) = n - at + 1 /\ Len(q) = n + 1
  BY <1>1, <1>5, <1>6, <1>7, <1>8, <1>9, SMTT(60)
<1>11. ASSUME NEW i \in 1..(n + 1)
       PROVE  (i < at => q[i] = l[i]) /\ (i = at => q[i] = t) /\ (i > at => q[i] = l[i - 1])
  <2>0. i \in 1..(Len(w) + Len(v)) /\ (i <= at => i \in 1..(Len(u) + 1))
    BY <1>1, <1>9, <1>10, SMT
  <2>1. CASE i < at
    BY <1>1, <1>9, <1>10, <2>1, <1>7, <1>8, <2>0, <1>5, SMTT(60)
  <2>2. CASE i = at
    BY <1>1, <1>9, <1>10, <2>2, <1>7, <1>8, <2>0, <1>4, SMTT(60)
  <2>3. CASE i > at
    <3>1. ~(i <= Len(w)) /\ i - Len(w) \in 1..(n - at + 1) /\ at + (i - Len(w)) - 1 = i - 1
      BY <1>1, <1>9, <1>10, <2>3, SMT
    <3>2. q[i] = v[i - Len(w)]
      BY <1>8, <2>0, <3>1, Zenon
    <3>3. v[i - Len(w)] = l[i - 1]
      BY <1>6, <3>1, Zenon
    <3>4. ~(i = at) /\ ~(i < at)
      BY <1>1, <2>3, SMT
    <3> QED
      BY <3>2, <3>3, <3>4, Zenon
  <2>4. i < at \/ i = at \/ i > at
    BY <1>1, SMT
  <2> QED
    BY <2>1, <2>2, <2>3, <2>4, Zenon
<1> QED
  BY <1>8, <1>10, <1>11, Zenon DEF Inserted, q, w, u, v, s, n

LEMMA InsertedList ==
    ASSUME NEW l \in Seq(Timer), NEW t \in Timer, NEW at \in 1..(Len(l) + 1), NEW q,
           Inserted(l, t, at, q), Distinct(l), t \notin Listed(l)
    PROVE  Distinct(q) /\ Listed(q) = Listed(l) \cup {t} /\ q # <<>>
<1> DEFINE n == Len(l)
<1>1. /\ n \in Nat /\ at \in 1..(n + 1) /\ DOMAIN l = 1..n
      /\ \A i \in 1..n : l[i] \in Listed(l)
      /\ \A s \in Listed(l) : \E i \in 1..n : l[i] = s
  BY ListPlaces, Zenon
<1>2. /\ q \in Seq(Timer) /\ Len(q) = n + 1
      /\ \A i \in 1..(n + 1) : (i < at => q[i] = l[i]) /\ (i = at => q[i] = t) /\ (i > at => q[i] = l[i - 1])
  BY Zenon DEF Inserted
<1> HIDE DEF n
<1>3. /\ DOMAIN q = 1..(n + 1)
      /\ \A i \in 1..(n + 1) : q[i] \in Listed(q)
      /\ \A s \in Listed(q) : \E i \in 1..(n + 1) : q[i] = s
  BY <1>2, ListPlaces, Zenon
<1> DEFINE p == [i \in 1..(n + 1) |-> IF i < at THEN i ELSE i - 1]
<1>4. ASSUME NEW i \in 1..(n + 1), i # at PROVE p[i] \in 1..n /\ q[i] = l[p[i]]
  BY <1>1, <1>2, <1>4, SMT
<1>5. ASSUME NEW i \in 1..(n + 1), NEW j \in 1..(n + 1), i # at, j # at, p[i] = p[j] PROVE i = j
  BY <1>1, <1>5, SMT
<1>6. ASSUME NEW i \in 1..n PROVE \E j \in 1..(n + 1) : j # at /\ p[j] = i
  <2>1. CASE i < at
    BY <1>1, <2>1, SMT
  <2>2. CASE ~(i < at)
    <3>1. i + 1 \in 1..(n + 1) /\ i + 1 # at /\ p[i + 1] = i
      BY <1>1, <2>2, SMT
    <3> HIDE DEF p
    <3> QED
      BY <3>1, Zenon
  <2> QED
    BY <2>1, <2>2, Zenon
<1> HIDE DEF p
<1>7. q[at] = t
  BY <1>1, <1>2, Zenon
<1>8. ASSUME NEW i \in 1..(n + 1), NEW j \in 1..(n + 1), q[i] = q[j] PROVE i = j
  <2>0. ASSUME NEW a \in 1..(n + 1), a # at PROVE q[a] # t
    BY <1>1, <1>4, <2>0, Zenon
  <2>1. CASE i = at \/ j = at
    BY <1>7, <1>8, <2>0, <2>1, Zenon
  <2>2. CASE i # at /\ j # at
    <3>0. p[i] \in 1..n /\ p[j] \in 1..n /\ l[p[i]] = l[p[j]]
      BY <1>4, <1>8, <2>2, Zenon
    <3>1. PICK a, b : a = p[i] /\ b = p[j]
      BY Zenon
    <3>2. a \in DOMAIN l /\ b \in DOMAIN l /\ l[a] = l[b]
      BY <1>1, <3>0, <3>1, Zenon
    <3>3. a = b
      BY <3>2, Zenon DEF Distinct
    <3> QED
      BY <1>5, <2>2, <3>1, <3>3, Zenon
  <2> QED
    BY <2>1, <2>2, Zenon
<1>9. Distinct(q)
  BY <1>3, <1>8, Zenon DEF Distinct
<1>10. ASSUME NEW s PROVE s \in Listed(q) <=> s \in Listed(l) \cup {t}
  <2>1. ASSUME s \in Listed(q) PROVE s \in Listed(l) \cup {t}
    <3>1. PICK i \in 1..(n + 1) : q[i] = s
      BY <1>3, <2>1, Zenon
    <3>2. i = at \/ l[p[i]] \in Listed(l)
      BY <1>1, <1>4, Zenon
    <3> QED
      BY <1>4, <1>7, <3>1, <3>2, Zenon
  <2>2. ASSUME s \in Listed(l) PROVE s \in Listed(q)
    <3>1. PICK i \in 1..n : l[i] = s
      BY <1>1, <2>2, Zenon
    <3>2. PICK j \in 1..(n + 1) : j # at /\ p[j] = i
      BY <1>6, Zenon
    <3>3. q[j] = l[i]
      BY <1>4, <3>2, Zenon
    <3> QED
      BY <1>3, <3>1, <3>3, Zenon
  <2>3. t \in Listed(q)
    BY <1>1, <1>3, <1>7, Zenon
  <2> QED
    BY <2>1, <2>2, <2>3, Zenon
<1>11. q # <<>>
  BY <1>1, <1>2, ListPlaces, SMT
<1> QED
  BY <1>9, <1>10, <1>11, Zenon

(* The times encoded after an insertion: the new timer gets what remains   *)
(* of its delay R after the one before it, the next one the rest.          *)
Started(l, f, t, R) == [s \in Listed(l) \cup {t} |-> IF s = t THEN R ELSE f[s]]

SplitAt(l, ts, r, f, t, at, R, us, w) ==
    /\ at \in 1..(Len(l) + 1) /\ Distinct(l) /\ t \notin Listed(l) /\ R \in Nat
    /\ at > 1 => f[l[at - 1]] <= R /\ us[t] = R - f[l[at - 1]] /\ w = r
    /\ at = 1 => w = R
    /\ at <= Len(l) => us[l[at]] = f[l[at]] - R
    /\ \A i \in 2..Len(l) : i # at => us[l[i]] = ts[l[i]]

LEMMA InsertEncodes ==
    ASSUME NEW l \in Seq(Timer), NEW ts \in [Timer -> Nat], NEW r \in Nat, NEW f, Encodes(l, ts, r, f),
           NEW t \in Timer, NEW at, NEW q, Inserted(l, t, at, q), NEW R, NEW us, NEW w,
           SplitAt(l, ts, r, f, t, at, R, us, w)
    PROVE  Encodes(q, us, w, Started(l, f, t, R))
<1> USE DEF SplitAt
<1> DEFINE n == Len(l)
           g == [s \in Listed(l) \cup {t} |-> IF s = t THEN R ELSE f[s]]
<1>1. /\ n \in Nat /\ at \in 1..(n + 1) /\ DOMAIN l = 1..n
      /\ \A i \in 1..n : l[i] \in Timer /\ l[i] \in Listed(l) /\ l[i] # t
      /\ l # <<>> <=> n # 0
  <2>1. at \in 1..(n + 1) /\ t \notin Listed(l)
    BY Zenon
  <2>2. /\ n \in Nat /\ DOMAIN l = 1..n /\ (l # <<>> <=> n # 0)
        /\ \A i \in 1..n : l[i] \in Timer /\ l[i] \in Listed(l)
    BY ListPlaces
  <2> QED
    BY <2>1, <2>2, Zenon
<1>2. /\ q \in Seq(Timer) /\ Len(q) = n + 1
      /\ \A i \in 1..(n + 1) : (i < at => q[i] = l[i]) /\ (i = at => q[i] = t) /\ (i > at => q[i] = l[i - 1])
  BY Zenon DEF Inserted
<1>3. Listed(q) = Listed(l) \cup {t} /\ q # <<>>
  BY InsertedList, Zenon
<1>4. /\ f \in [Listed(l) -> Nat] /\ (l # <<>> => f[l[1]] = r)
      /\ \A i \in 2..n : f[l[i]] = f[l[i - 1]] + ts[l[i]]
  BY Zenon DEF Encodes
<1>5. /\ at > 1 => f[l[at - 1]] <= R /\ us[t] = R - f[l[at - 1]] /\ w = r
      /\ at <= n => us[l[at]] = f[l[at]] - R
      /\ \A i \in 2..n : i # at => us[l[i]] = ts[l[i]]
  BY Zenon
<1> HIDE DEF n
<1>6. \A i \in 1..n : f[l[i]] \in Nat /\ g[l[i]] = f[l[i]]
  BY <1>1, <1>4, Zenon
<1>7. g[t] = R /\ g \in [Listed(q) -> Nat]
  BY <1>3, <1>4, Zenon
<1> HIDE DEF g
<1>8. g[q[1]] = w
  BY <1>1, <1>2, <1>7, <1>4, <1>6, <1>5, SMTT(60)
<1>9. ASSUME NEW i \in 2..(n + 1) PROVE g[q[i]] = g[q[i - 1]] + us[q[i]]
  <2>0. i \in 1..(n + 1) /\ i - 1 \in 1..(n + 1) /\ i - 1 \in 1..n
    BY <1>1, SMT
  <2>1. CASE i < at
    <3>1. i \in 2..n /\ i \in 1..n /\ i # at /\ i - 1 < at
      BY <1>1, <2>1, SMT
    <3>2. q[i] = l[i] /\ q[i - 1] = l[i - 1]
      BY <1>2, <2>0, <2>1, <3>1, Zenon
    <3>3. f[l[i]] = f[l[i - 1]] + ts[l[i]] /\ us[l[i]] = ts[l[i]]
      BY <1>4, <1>5, <3>1, Zenon
    <3>4. g[l[i]] = f[l[i]] /\ g[l[i - 1]] = f[l[i - 1]]
      BY <1>6, <2>0, <3>1, Zenon
    <3> QED
      BY <3>2, <3>3, <3>4, Zenon
  <2>2. CASE i = at
    <3>1. at > 1 /\ i - 1 < at
      BY <1>1, <2>2, SMT
    <3>2. q[i] = t /\ q[i - 1] = l[i - 1]
      BY <1>2, <2>0, <2>2, <3>1, Zenon
    <3>3. PICK y : y = f[l[i - 1]]
      BY Zenon
    <3>4. y \in Nat /\ y <= R /\ us[t] = R - y /\ g[q[i - 1]] = y /\ g[q[i]] = R
      BY <1>5, <1>6, <1>7, <2>0, <2>2, <3>1, <3>2, <3>3, ZenonT(60)
    <3>5. R = y + (R - y)
      BY <3>4, SMT
    <3> QED
      BY <3>2, <3>4, <3>5, Zenon
  <2>3. CASE i > at
    <3>1. PICK j : j = i - 1
      BY Zenon
    <3>2. q[i] = l[j] /\ j \in 1..n /\ j \in 1..(n + 1)
      BY <1>2, <2>0, <2>3, <3>1, Zenon
    <3>3. CASE j = at
      <4>1. q[j] = t /\ at <= n
        BY <1>1, <3>2, <3>3, <1>2, SMT
      <4>2. PICK y : y = f[l[j]]
        BY Zenon
      <4>3. y \in Nat /\ us[l[j]] = y - R /\ g[q[i]] = y /\ g[q[j]] = R
        BY <1>5, <1>6, <1>7, <3>2, <3>3, <4>1, <4>2, Zenon
      <4>4. y = R + (y - R)
        BY <4>3, SMT
      <4> QED
        BY <3>1, <3>2, <4>3, <4>4, Zenon
    <3>4. CASE j # at
      <4>1. j > at /\ j \in 2..n /\ j - 1 \in 1..n
        BY <1>1, <2>3, <3>1, <3>2, <3>4, SMT
      <4>2. q[j] = l[j - 1]
        BY <1>2, <3>2, <4>1, Zenon
      <4>3. f[l[j]] = f[l[j - 1]] + us[l[j]]
        BY <1>4, <1>5, <3>4, <4>1, Zenon
      <4> QED
        BY <1>6, <3>1, <3>2, <4>1, <4>2, <4>3, Zenon
    <3> QED
      BY <3>3, <3>4, Zenon
  <2>4. i < at \/ i = at \/ i > at
    BY <1>1, SMT
  <2> QED
    BY <2>1, <2>2, <2>3, <2>4, ZenonT(60)
<1> QED
  BY <1>2, <1>7, <1>8, <1>9, Zenon DEF Encodes, g, Started

LEMMA RemovedFirst ==
    ASSUME NEW l \in Seq(Timer), l # <<>>
    PROVE  Removed(l, 1, Tail(l))
BY SMT DEF Removed

LEMMA RemovedWithin ==
    ASSUME NEW l \in Seq(Timer), NEW k \in 1..Len(l)
    PROVE  Removed(l, k, SubSeq(l, 1, k - 1) \o SubSeq(l, k + 1, Len(l)))
<1> DEFINE n == Len(l)
           u == SubSeq(l, 1, k - 1)
           v == SubSeq(l, k + 1, n)
           q == u \o v
<1>1. n \in Nat /\ k \in 1..n /\ k + 1 \in Int /\ n \in Int /\ k - 1 \in Int /\ 1 \in Int
  BY SMT
<1>2. \A i \in 1..n : l[i] \in Timer
  BY ListPlaces, Zenon
<1>3. (\A i \in 1..(k - 1) : i \in 1..n) /\ (\A i \in (k + 1)..n : i \in 1..n)
  BY <1>1, SMT
<1> HIDE DEF n
<1>5. /\ u \in Seq(Timer) /\ Len(u) = (IF 1 <= k - 1 THEN (k - 1) - 1 + 1 ELSE 0)
      /\ \A i \in 1..((k - 1) - 1 + 1) : u[i] = l[1 + i - 1]
  BY <1>1, <1>2, <1>3, SeqPart
<1>6. /\ v \in Seq(Timer) /\ Len(v) = (IF k + 1 <= n THEN n - (k + 1) + 1 ELSE 0)
      /\ \A i \in 1..(n - (k + 1) + 1) : v[i] = l[(k + 1) + i - 1]
  BY <1>1, <1>2, <1>3, SeqPart
<1> HIDE DEF u, v
<1>8. /\ q \in Seq(Timer) /\ Len(q) = Len(u) + Len(v)
      /\ \A i \in 1..(Len(u) + Len(v)) : q[i] = IF i <= Len(u) THEN u[i] ELSE v[i - Len(u)]
  <2>1. u \in Seq(Timer) /\ v \in Seq(Timer)
    BY <1>5, <1>6, Zenon
  <2> QED
    BY <2>1, SeqConcat
<1> HIDE DEF q
<1>10. Len(u) = k - 1 /\ Len(v) = n - k /\ Len(q) = n - 1
  BY <1>1, <1>5, <1>6, <1>8, SMT
<1>11. ASSUME NEW i \in 1..(n - 1)
       PROVE  (i < k => q[i] = l[i]) /\ (i >= k => q[i] = l[i + 1])
  <2>0. i \in 1..(Len(u) + Len(v))
    BY <1>1, <1>10, SMT
  <2>1. CASE i < k
    <3>1. i <= Len(u) /\ i \in 1..((k - 1) - 1 + 1) /\ 1 + i - 1 = i /\ ~(i >= k)
      BY <1>1, <1>10, <2>1, SMT
    <3>2. q[i] = u[i]
      BY <1>8, <2>0, <3>1, Zenon
    <3>3. u[i] = l[i]
      BY <1>5, <3>1, Zenon
    <3> QED
      BY <3>1, <3>2, <3>3, Zenon
  <2>2. CASE i >= k
    <3>1. ~(i <= Len(u)) /\ i - Len(u) \in 1..(n - (k + 1) + 1) /\ (k + 1) + (i - Len(u)) - 1 = i + 1 /\ ~(i < k)
      BY <1>1, <1>10, <2>2, SMT
    <3>2. q[i] = v[i - Len(u)]
      BY <1>8, <2>0, <3>1, Zenon
    <3>3. v[i - Len(u)] = l[i + 1]
      BY <1>6, <3>1, Zenon
    <3> QED
      BY <3>1, <3>2, <3>3, Zenon
  <2>3. i < k \/ i >= k
    BY <1>1, SMT
  <2> QED
    BY <2>1, <2>2, <2>3, Zenon
<1> QED
  BY <1>8, <1>10, <1>11, Zenon DEF Removed, q, u, v, n

LEMMA RemovedList ==
    ASSUME NEW l \in Seq(Timer), NEW k \in 1..Len(l), NEW q, Removed(l, k, q), Distinct(l)
    PROVE  Distinct(q) /\ Listed(q) = Listed(l) \ {l[k]}
<1> DEFINE n == Len(l)
<1>1. /\ n \in Nat /\ k \in 1..n /\ DOMAIN l = 1..n
      /\ \A i \in 1..n : l[i] \in Listed(l)
      /\ \A s \in Listed(l) : \E i \in 1..n : l[i] = s
  BY ListPlaces, Zenon
<1>2. /\ q \in Seq(Timer) /\ Len(q) = n - 1
      /\ \A i \in 1..(n - 1) : (i < k => q[i] = l[i]) /\ (i >= k => q[i] = l[i + 1])
  BY Zenon DEF Removed
<1>d. \A i, j \in 1..n : l[i] = l[j] => i = j
  BY <1>1, Zenon DEF Distinct
<1> HIDE DEF n
<1>3. /\ DOMAIN q = 1..(n - 1)
      /\ \A i \in 1..(n - 1) : q[i] \in Listed(q)
      /\ \A s \in Listed(q) : \E i \in 1..(n - 1) : q[i] = s
  BY <1>2, ListPlaces, Zenon
(* The place in l of the value at a place of q. *)
<1> DEFINE p == [i \in 1..(n - 1) |-> IF i < k THEN i ELSE i + 1]
<1>4. ASSUME NEW i \in 1..(n - 1) PROVE p[i] \in 1..n /\ p[i] # k /\ q[i] = l[p[i]]
  <2>1. CASE i < k
    <3>1. i \in 1..n /\ p[i] = i /\ i # k
      BY <1>1, <2>1, SMT
    <3> HIDE DEF p
    <3> QED
      BY <1>2, <2>1, <3>1, Zenon
  <2>2. CASE ~(i < k)
    <3>1. i + 1 \in 1..n /\ i >= k /\ p[i] = i + 1 /\ i + 1 # k
      BY <1>1, <2>2, SMT
    <3> HIDE DEF p
    <3> QED
      BY <1>2, <3>1, Zenon
  <2> QED
    BY <2>1, <2>2, Zenon
<1>5. ASSUME NEW i \in 1..(n - 1), NEW j \in 1..(n - 1), p[i] = p[j] PROVE i = j
  BY <1>1, <1>5, SMT
<1>6. ASSUME NEW i \in 1..n, i # k PROVE \E j \in 1..(n - 1) : p[j] = i
  <2>1. CASE i < k
    <3>1. i \in 1..(n - 1) /\ p[i] = i
      BY <1>1, <2>1, SMT
    <3> HIDE DEF p
    <3> QED
      BY <3>1, Zenon
  <2>2. CASE ~(i < k)
    <3>1. i - 1 \in 1..(n - 1) /\ p[i - 1] = i
      BY <1>1, <1>6, <2>2, SMT
    <3> HIDE DEF p
    <3> QED
      BY <3>1, Zenon
  <2> QED
    BY <2>1, <2>2, Zenon
<1> HIDE DEF p
<1>8. ASSUME NEW i \in 1..(n - 1), NEW j \in 1..(n - 1), q[i] = q[j] PROVE i = j
  <2>1. PICK a, b : a = p[i] /\ b = p[j]
    BY Zenon
  <2>2. a \in 1..n /\ b \in 1..n /\ l[a] = l[b]
    BY <1>4, <1>8, <2>1, Zenon
  <2>3. a = b
    BY <1>d, <2>2, Zenon
  <2> QED
    BY <1>5, <2>1, <2>3, Zenon
<1>9. Distinct(q)
  BY <1>3, <1>8, Zenon DEF Distinct
<1>10. ASSUME NEW s PROVE s \in Listed(q) <=> s \in Listed(l) \ {l[k]}
  <2>1. ASSUME s \in Listed(q) PROVE s \in Listed(l) \ {l[k]}
    <3>1. PICK i \in 1..(n - 1) : q[i] = s
      BY <1>3, <2>1, Zenon
    <3>2. PICK a \in 1..n : a = p[i] /\ a # k
      BY <1>4, Zenon
    <3>3. s = l[a] /\ l[a] \in Listed(l) /\ l[a] # l[k]
      BY <1>1, <1>4, <1>d, <3>1, <3>2, Zenon
    <3> QED
      BY <3>3, Zenon
  <2>2. ASSUME s \in Listed(l), s # l[k] PROVE s \in Listed(q)
    <3>1. PICK i \in 1..n : l[i] = s
      BY <1>1, <2>2, Zenon
    <3>2. PICK j \in 1..(n - 1) : p[j] = i
      BY <1>6, <2>2, <3>1, Zenon
    <3>3. q[j] = l[i]
      BY <1>4, <3>2, Zenon
    <3> QED
      BY <1>3, <3>1, <3>3, Zenon
  <2> QED
    BY <2>1, <2>2, Zenon
<1> QED
  BY <1>9, <1>10, Zenon

(* The times encoded after a removal: the time of the removed timer goes   *)
(* to the next one.                                                        *)
Stopped(l, f, t) == [s \in Listed(l) \ {t} |-> f[s]]

JoinedAt(l, ts, r, f, k, us, w) ==
    /\ k \in 1..Len(l) /\ Distinct(l)
    /\ k > 1 => w = r
    /\ k = 1 /\ Len(l) > 1 => w = f[l[2]]
    /\ k > 1 /\ k < Len(l) => us[l[k + 1]] = ts[l[k + 1]] + ts[l[k]]
    /\ \A i \in 2..Len(l) : i # k /\ i # k + 1 => us[l[i]] = ts[l[i]]

LEMMA RemoveEncodes ==
    ASSUME NEW l \in Seq(Timer), NEW ts \in [Timer -> Nat], NEW r, NEW f, Encodes(l, ts, r, f),
           NEW k, NEW q, Removed(l, k, q), NEW us, NEW w, JoinedAt(l, ts, r, f, k, us, w)
    PROVE  Encodes(q, us, w, Stopped(l, f, l[k]))
<1> USE DEF JoinedAt
<1> DEFINE n == Len(l)
           g == [s \in Listed(l) \ {l[k]} |-> f[s]]
<1>1. /\ n \in Nat /\ k \in 1..n /\ DOMAIN l = 1..n
      /\ \A i \in 1..n : l[i] \in Timer /\ l[i] \in Listed(l)
      /\ l # <<>> <=> n # 0
  BY ListPlaces, Zenon
<1>2. /\ q \in Seq(Timer) /\ Len(q) = n - 1
      /\ \A i \in 1..(n - 1) : (i < k => q[i] = l[i]) /\ (i >= k => q[i] = l[i + 1])
  BY Zenon DEF Removed
<1>3. Listed(q) = Listed(l) \ {l[k]} /\ (q # <<>> <=> n - 1 # 0)
  <2>1. Listed(q) = Listed(l) \ {l[k]}
    BY RemovedList, SMT
  <2>2. q = <<>> <=> Len(q) = 0
    BY <1>2, ListPlaces, Zenon
  <2> QED
    BY <1>2, <2>1, <2>2, Zenon
<1>4. /\ f \in [Listed(l) -> Nat] /\ (l # <<>> => f[l[1]] = r)
      /\ \A i \in 2..n : f[l[i]] = f[l[i - 1]] + ts[l[i]]
  BY Zenon DEF Encodes
<1>5. /\ k > 1 => w = r
      /\ k = 1 /\ n > 1 => w = f[l[2]]
      /\ k > 1 /\ k < n => us[l[k + 1]] = ts[l[k + 1]] + ts[l[k]]
      /\ \A i \in 2..n : i # k /\ i # k + 1 => us[l[i]] = ts[l[i]]
  BY Zenon
<1>6. \A i \in 1..n : i # k => l[i] # l[k]
  BY <1>1, Zenon DEF Distinct
<1> HIDE DEF n
<1>7. \A i \in 1..n : i # k => g[l[i]] = f[l[i]]
  BY <1>1, <1>6, Zenon
<1>8. g \in [Listed(q) -> Nat]
  BY <1>3, <1>4, Zenon
<1> HIDE DEF g
<1>9. q # <<>> => g[q[1]] = w
  <2> SUFFICES ASSUME n - 1 # 0 PROVE g[q[1]] = w
    BY <1>3, Zenon
  <2>0. 1 \in 1..(n - 1) /\ n > 1 /\ n # 0 /\ 1 \in 1..n /\ 2 \in 1..n
    BY <1>1, SMT
  <2>1. CASE k = 1
    BY <2>1, <1>2, <1>7, <2>0, <1>5, SMT
  <2>2. CASE k # 1
    <3>1. 1 < k /\ k > 1
      BY <1>1, <2>2, SMT
    <3>2. q[1] = l[1] /\ g[l[1]] = f[l[1]] /\ f[l[1]] = r
      BY <1>1, <1>2, <1>4, <1>7, <2>0, <2>2, <3>1, Zenon
    <3> QED
      BY <1>5, <3>1, <3>2, Zenon
  <2> QED
    BY <2>1, <2>2, Zenon
<1>10. ASSUME NEW i \in 2..(n - 1) PROVE g[q[i]] = g[q[i - 1]] + us[q[i]]
  <2>0. i \in 1..(n - 1) /\ i - 1 \in 1..(n - 1) /\ i \in 1..n /\ i - 1 \in 1..n /\ i + 1 \in 1..n /\ i + 1 \in 2..n
        /\ i \in 2..n /\ (i - 1) + 1 = i /\ (i + 1) - 1 = i /\ i # i + 1 /\ i # i - 1 /\ i - 1 # i + 1
    BY <1>1, SMT
  <2>1. CASE i < k
    <3>1. i # k /\ i # k + 1 /\ i - 1 < k /\ i - 1 # k
      BY <1>1, <2>1, SMT
    <3>2. q[i] = l[i] /\ q[i - 1] = l[i - 1]
      BY <1>2, <2>0, <2>1, <3>1, Zenon
    <3>3. f[l[i]] = f[l[i - 1]] + ts[l[i]] /\ us[l[i]] = ts[l[i]]
      BY <1>4, <1>5, <2>0, <3>1, Zenon
    <3>4. g[l[i]] = f[l[i]] /\ g[l[i - 1]] = f[l[i - 1]]
      BY <1>7, <2>0, <3>1, Zenon
    <3> QED
      BY <3>2, <3>3, <3>4, Zenon
  <2>2. CASE i = k
    <3>1. k > 1 /\ k < n /\ i >= k /\ i - 1 < k
      BY <1>1, <2>2, SMT
    <3>2. q[i] = l[i + 1] /\ q[i - 1] = l[i - 1]
      BY <1>2, <2>0, <3>1, Zenon
    <3>3. f[l[i]] = f[l[i - 1]] + ts[l[i]] /\ us[l[i + 1]] = ts[l[i + 1]] + ts[l[i]]
      BY <1>4, <1>5, <2>0, <2>2, <3>1, Zenon
    <3>4. f[l[i + 1]] = f[l[i]] + ts[l[i + 1]]
      BY <1>4, <2>0, Zenon
    <3>5. g[l[i + 1]] = f[l[i + 1]] /\ g[l[i - 1]] = f[l[i - 1]]
      BY <1>7, <2>0, <2>2, Zenon
    <3>6. PICK a, b, c, x, y : a = f[l[i - 1]] /\ b = f[l[i]] /\ c = f[l[i + 1]]
                               /\ x = ts[l[i]] /\ y = ts[l[i + 1]]
      BY Zenon
    <3>7. a \in Nat /\ b \in Nat /\ c \in Nat /\ x \in Nat /\ y \in Nat
      BY <1>1, <1>4, <2>0, <3>6, Zenon
    <3>8. b = a + x /\ c = b + y
      BY <3>3, <3>4, <3>6, Zenon
    <3>9. c = a + (y + x)
      BY <3>7, <3>8, SMT
    <3> QED
      BY <3>2, <3>3, <3>5, <3>6, <3>9, Zenon
  <2>3. CASE i > k
    <3>1. i # k /\ i + 1 # k /\ i + 1 # k + 1 /\ i >= k /\ i - 1 >= k
      BY <1>1, <2>3, SMT
    <3>2. q[i] = l[i + 1] /\ q[i - 1] = l[i]
      BY <1>2, <2>0, <3>1, Zenon
    <3>3. f[l[i + 1]] = f[l[i]] + ts[l[i + 1]] /\ us[l[i + 1]] = ts[l[i + 1]]
      BY <1>4, <1>5, <2>0, <3>1, Zenon
    <3>4. g[l[i]] = f[l[i]] /\ g[l[i + 1]] = f[l[i + 1]]
      BY <1>7, <2>0, <3>1, Zenon
    <3> QED
      BY <3>2, <3>3, <3>4, Zenon
  <2>4. i < k \/ i = k \/ i > k
    BY <1>1, SMT
  <2> QED
    BY <2>1, <2>2, <2>3, <2>4, Zenon
<1> QED
  BY <1>2, <1>8, <1>9, <1>10, Zenon DEF Encodes, g, Stopped

-----------------------------------------------------------------------------
(***************************************************************************)
(* What the operations write.                                              *)
(***************************************************************************)
(* n is m with the list l, the times ts and the flags ru. *)
Updated(m, n, l, ts, ru) ==
    /\ n \in Memory /\ n.list = l /\ n.Timestamp = ts /\ n.IsRunning = ru
    /\ n.elapsed = m.elapsed /\ n.alarm = m.alarm /\ n.lead = m.lead

LEMMA UpdateTime ==
    ASSUME NEW m \in Memory, NEW a \in Timer, NEW x \in Nat
    PROVE  Updated(m, [m EXCEPT !.Timestamp[a] = x], m.list, [m.Timestamp EXCEPT ![a] = x], m.IsRunning)
<1>1. PICK us : us = [m.Timestamp EXCEPT ![a] = x]
  BY Zenon
<1>2. us \in [Timer -> Nat]
  BY <1>1, MemoryFields, Zenon
<1>3. PICK n \in Memory : n = [m EXCEPT !.Timestamp = us]
  BY <1>2, MemoryExcept, Zenon
<1>4. /\ n.list = m.list /\ n.Timestamp = us /\ n.IsRunning = m.IsRunning
      /\ n.elapsed = m.elapsed /\ n.alarm = m.alarm /\ n.lead = m.lead
  BY <1>3, SMT DEF Memory
<1>5. n = [m EXCEPT !.Timestamp[a] = x]
  BY <1>1, <1>3, Zenon
<1> QED
  BY <1>1, <1>4, <1>5, Zenon DEF Updated

LEMMA UpdateFlag ==
    ASSUME NEW m \in Memory, NEW a \in Timer, NEW b \in BOOLEAN
    PROVE  Updated(m, [m EXCEPT !.IsRunning[a] = b], m.list, m.Timestamp, [m.IsRunning EXCEPT ![a] = b])
<1>1. PICK ru : ru = [m.IsRunning EXCEPT ![a] = b]
  BY Zenon
<1>2. ru \in [Timer -> BOOLEAN]
  BY <1>1, MemoryFields, Zenon
<1>3. PICK n \in Memory : n = [m EXCEPT !.IsRunning = ru]
  BY <1>2, MemoryExcept, Zenon
<1>4. /\ n.list = m.list /\ n.Timestamp = m.Timestamp /\ n.IsRunning = ru
      /\ n.elapsed = m.elapsed /\ n.alarm = m.alarm /\ n.lead = m.lead
  BY <1>3, SMT DEF Memory
<1>5. n = [m EXCEPT !.IsRunning[a] = b]
  BY <1>1, <1>3, Zenon
<1> QED
  BY <1>1, <1>4, <1>5, Zenon DEF Updated

LEMMA UpdateList ==
    ASSUME NEW m \in Memory, NEW l \in Seq(Timer)
    PROVE  Updated(m, [m EXCEPT !.list = l], l, m.Timestamp, m.IsRunning)
<1>1. PICK n \in Memory : n = [m EXCEPT !.list = l]
  BY MemoryExcept, Zenon
<1>2. /\ n.list = l /\ n.Timestamp = m.Timestamp /\ n.IsRunning = m.IsRunning
      /\ n.elapsed = m.elapsed /\ n.alarm = m.alarm /\ n.lead = m.lead
  BY <1>1, SMT DEF Memory
<1> QED
  BY <1>1, <1>2, Zenon DEF Updated

(* Updates of a time and a flag, and of the list and a flag. *)
LEMMA UpdateTimer ==
    ASSUME NEW m \in Memory, NEW a \in Timer, NEW x \in Nat, NEW b \in BOOLEAN
    PROVE  Updated(m, [m EXCEPT !.Timestamp[a] = x, !.IsRunning[a] = b],
                   m.list, [m.Timestamp EXCEPT ![a] = x], [m.IsRunning EXCEPT ![a] = b])
<1>1. PICK k : k = [m EXCEPT !.Timestamp[a] = x]
  BY Zenon
<1>2. Updated(m, k, m.list, [m.Timestamp EXCEPT ![a] = x], m.IsRunning) /\ k \in Memory
  BY <1>1, UpdateTime, ZenonT(60) DEF Updated
<1>3. PICK n : n = [k EXCEPT !.IsRunning[a] = b]
  BY Zenon
<1>4. Updated(k, n, k.list, k.Timestamp, [k.IsRunning EXCEPT ![a] = b])
  BY <1>2, <1>3, UpdateFlag, Zenon
<1>5. Updated(m, n, m.list, [m.Timestamp EXCEPT ![a] = x], [m.IsRunning EXCEPT ![a] = b])
  BY <1>2, <1>4, Zenon DEF Updated
<1>6. n = [m EXCEPT !.Timestamp[a] = x, !.IsRunning[a] = b]
  BY <1>1, <1>2, <1>3, Zenon DEF Updated
<1> QED
  BY <1>5, <1>6, Zenon

LEMMA UpdateListFlag ==
    ASSUME NEW m \in Memory, NEW l \in Seq(Timer), NEW a \in Timer, NEW b \in BOOLEAN
    PROVE  Updated(m, [m EXCEPT !.list = l, !.IsRunning[a] = b],
                   l, m.Timestamp, [m.IsRunning EXCEPT ![a] = b])
<1>1. PICK k : k = [m EXCEPT !.list = l]
  BY Zenon
<1>2. Updated(m, k, l, m.Timestamp, m.IsRunning) /\ k \in Memory
  BY <1>1, UpdateList, Zenon DEF Updated
<1>3. PICK n : n = [k EXCEPT !.IsRunning[a] = b]
  BY Zenon
<1>4. Updated(k, n, k.list, k.Timestamp, [k.IsRunning EXCEPT ![a] = b])
  BY <1>2, <1>3, UpdateFlag, Zenon
<1>5. Updated(m, n, l, m.Timestamp, [m.IsRunning EXCEPT ![a] = b])
  BY <1>2, <1>4, Zenon DEF Updated
<1>6. n = [m EXCEPT !.list = l, !.IsRunning[a] = b]
  BY <1>1, <1>2, <1>3, Zenon DEF Updated
<1> QED
  BY <1>5, <1>6, Zenon

(* A difference of times within a word. *)
LEMMA MinusWithinWord ==
    ASSUME NEW a \in Nat, NEW b \in Nat, b <= a, a <= Longest
    PROVE  Minus(a, b) = a - b
BY LongestType, SMT DEF Minus

LEMMA EncodesSame ==
    ASSUME NEW l, NEW ts, NEW us, NEW r, NEW f, Encodes(l, ts, r, f),
           \A i \in 2..Len(l) : us[l[i]] = ts[l[i]]
    PROVE  Encodes(l, us, r, f)
BY Zenon DEF Encodes

LEMMA UpdateTimeList ==
    ASSUME NEW m \in Memory, NEW l \in Seq(Timer), NEW a \in Timer, NEW x \in Nat
    PROVE  Updated(m, [m EXCEPT !.Timestamp[a] = x, !.list = l],
                   l, [m.Timestamp EXCEPT ![a] = x], m.IsRunning)
<1>1. PICK k : k = [m EXCEPT !.Timestamp[a] = x]
  BY Zenon
<1>2. Updated(m, k, m.list, [m.Timestamp EXCEPT ![a] = x], m.IsRunning) /\ k \in Memory
  BY <1>1, UpdateTime, ZenonT(60) DEF Updated
<1>3. PICK n : n = [k EXCEPT !.list = l]
  BY Zenon
<1>4. Updated(k, n, l, k.Timestamp, k.IsRunning)
  BY <1>2, <1>3, UpdateList, Zenon
<1>5. n = [m EXCEPT !.Timestamp[a] = x, !.list = l]
  BY <1>1, <1>3, Zenon
<1> QED
  BY <1>2, <1>4, <1>5, Zenon DEF Updated

=============================================================================
