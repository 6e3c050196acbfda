-------------------------- MODULE TimerCallProofs ---------------------------
(***************************************************************************)
(* Lemmas about the operations of timer.c as functions of the memory:      *)
(* TimerStart and TimerStop, in each of the cases the code tells apart,    *)
(* keep the list sound and change the times left by what they are called   *)
(* for (StartFollows, StopFollows); the interrupt handler charges the head *)
(* what has elapsed (ChargedSound) and sets the alarm of the timer it      *)
(* leaves at the head (EndSetsAlarm).                                      *)
(***************************************************************************)
EXTENDS TimerDataProofs

(***************************************************************************)
(* TimerStart.                                                             *)
(***************************************************************************)
(* d is m with the new timer t ahead of the head. *)
Displaced(m, d, t, R) ==
    /\ d \in Memory /\ d.Timestamp[t] = R
    /\ m.list # <<>> => d.Timestamp[m.list[1]] = Remaining(m) - R /\ ~d.IsRunning[m.list[1]]
    /\ \A s \in Timer : s # t /\ (m.list # <<>> => s # m.list[1]) =>
          d.Timestamp[s] = m.Timestamp[s] /\ d.IsRunning[s] = m.IsRunning[s]

NewHead(m, p, t, R) == Displaced(m, p, t, R) /\ p.list = <<t>> \o m.list /\ p.IsRunning[t]

(* t with the delay R becomes the head. *)
GoesFirst(m, t, R) ==
    /\ R = ReloadValue[t]
    /\ t \notin Listed(m.list)
    /\ m.list = <<>> \/ R < Remaining(m)
    /\ m.list # <<>> => Remaining(m) <= Longest

(* The new head: the memory TimerSetTimeout is called with. *)
LEMMA NewHeadFields ==
    ASSUME NEW m \in Memory, NEW t \in Timer, NEW R \in Nat, GoesFirst(m, t, R)
    PROVE  \E p : NewHead(m, p, t, R) /\ TimerStart(m, t) = TimerSetTimeout(p)
<1> USE DEF GoesFirst
<1>0. PICK n : n = TimerStart(m, t)
  BY Zenon
<1> DEFINE rem == IF m.list = <<>> THEN 0 ELSE Remaining(m)
           SetFor(d) == TimerSetTimeout([d EXCEPT !.list = <<t>> \o @, !.IsRunning[t] = TRUE])
<1>1. PICK k : k = [m EXCEPT !.Timestamp[t] = R, !.IsRunning[t] = FALSE]
  BY Zenon
<1>2. n = TimerInsertNewHeadTimer(k, t, rem)
  BY <1>0, <1>1, Zenon DEF TimerStart
<1>3. Updated(m, k, m.list, [m.Timestamp EXCEPT ![t] = R], [m.IsRunning EXCEPT ![t] = FALSE])
  BY <1>1, UpdateTimer, Zenon
<1>4. /\ k \in Memory /\ k.list = m.list /\ k.Timestamp[t] = R
      /\ \A s \in Timer : s # t => k.Timestamp[s] = m.Timestamp[s] /\ k.IsRunning[s] = m.IsRunning[s]
  BY <1>3, MemoryFields, ZenonT(60) DEF Updated
<1>5. m.list \in Seq(Timer)
  BY MemoryFields, Zenon
<1>6. \E d : n = SetFor(d) /\ Displaced(m, d, t, R) /\ d.list = m.list
  <2>1. CASE m.list = <<>>
    BY <1>2, <1>4, <2>1, Zenon DEF TimerInsertNewHeadTimer, Displaced
  <2>2. CASE m.list # <<>>
    <3>1. PICK h, x : h = m.list[1] /\ x = Remaining(m) - R
      BY Zenon
    <3>2. h = Head(k.list) /\ h \in Timer /\ h # t
      BY <1>4, <1>5, <2>2, <3>1, ListHead, Zenon
    <3>3. Minus(rem, k.Timestamp[t]) = x /\ x \in Nat
      BY <2>2, RemainingType, MinusWithinWord, <1>4, <3>1, SMT
    <3>4. PICK d : d = [k EXCEPT !.Timestamp[h] = x, !.IsRunning[h] = FALSE]
      BY Zenon
    <3>5. Updated(k, d, k.list, [k.Timestamp EXCEPT ![h] = x], [k.IsRunning EXCEPT ![h] = FALSE])
      BY <1>4, <3>2, <3>3, <3>4, UpdateTimer, Zenon
    <3>6. /\ d \in Memory /\ d.list = m.list /\ d.Timestamp[t] = R
          /\ d.Timestamp[h] = x /\ ~d.IsRunning[h]
          /\ \A s \in Timer : s # t /\ s # h => d.Timestamp[s] = m.Timestamp[s] /\ d.IsRunning[s] = m.IsRunning[s]
      <4>1. k.Timestamp \in [Timer -> Nat] /\ k.IsRunning \in [Timer -> BOOLEAN]
        BY <1>4, MemoryFields, Zenon
      <4>2. /\ d \in Memory /\ d.list = m.list
            /\ d.Timestamp = [k.Timestamp EXCEPT ![h] = x] /\ d.IsRunning = [k.IsRunning EXCEPT ![h] = FALSE]
        BY <1>4, <3>5, Zenon DEF Updated
      <4>3. d.Timestamp[h] = x /\ \A s \in Timer : s # h => d.Timestamp[s] = k.Timestamp[s]
        BY <3>2, <4>1, <4>2, Zenon
      <4>4. ~d.IsRunning[h] /\ \A s \in Timer : s # h => d.IsRunning[s] = k.IsRunning[s]
        BY <3>2, <4>1, <4>2, Zenon
      <4> QED
        BY <1>4, <3>2, <4>2, <4>3, <4>4, Zenon
    <3>7. n = SetFor(d)
      BY <1>4, <2>2, <1>2, <3>2, <3>3, <3>4, Zenon DEF TimerInsertNewHeadTimer
    <3>8. Displaced(m, d, t, R)
      BY <2>2, <3>1, <3>6, Zenon DEF Displaced
    <3> HIDE DEF SetFor
    <3> QED
      BY <3>6, <3>7, <3>8, Zenon
  <2> QED
    BY <2>1, <2>2, Zenon
<1>7. PICK d : n = SetFor(d) /\ Displaced(m, d, t, R) /\ d.list = m.list
  BY <1>6, Zenon
<1>8. PICK q, p : q = <<t>> \o m.list /\ p = [d EXCEPT !.list = q, !.IsRunning[t] = TRUE]
  BY Zenon
<1>9. q \in Seq(Timer) /\ d \in Memory
  BY <1>5, <1>7, <1>8, InsertedFirst, Zenon DEF Inserted, Displaced
<1>10. Updated(d, p, q, d.Timestamp, [d.IsRunning EXCEPT ![t] = TRUE])
  BY <1>8, <1>9, UpdateListFlag, Zenon
<1>11. /\ p \in Memory /\ p.list = q /\ p.Timestamp = d.Timestamp /\ p.IsRunning[t]
       /\ \A s \in Timer : s # t => p.IsRunning[s] = d.IsRunning[s]
  BY <1>9, <1>10, MemoryFields, Zenon DEF Updated
<1>12. n = TimerSetTimeout(p)
  BY <1>7, <1>8, Zenon
<1> HIDE DEF rem, SetFor
<1>13. m.list # <<>> => m.list[1] \in Timer /\ m.list[1] # t
  BY <1>5, ListHead, Zenon
<1>14. Displaced(m, p, t, R)
  BY <1>7, <1>11, <1>13, SMT DEF Displaced
<1> QED
  BY <1>0, <1>8, <1>11, <1>12, <1>14, Zenon DEF NewHead

(* What is left of the head of a list that may be empty. *)
HeadLeft(m) == IF m.list = <<>> THEN 0 ELSE Remaining(m)

LEMMA SoundEncodes ==
    ASSUME NEW m, Sound(m)
    PROVE  /\ m \in Memory /\ m.list \in Seq(Timer) /\ m.Timestamp \in [Timer -> Nat] /\ Distinct(m.list)
           /\ HeadLeft(m) \in Nat /\ HeadLeft(m) <= Longest
           /\ Encodes(m.list, m.Timestamp, HeadLeft(m), Left(m))
           /\ \A t \in Listed(m.list) : Left(m)[t] \in Nat /\ Left(m)[t] <= Longest
           /\ m.list # <<>> => Left(m)[m.list[1]] = HeadLeft(m) /\ HeadLeft(m) = Remaining(m)
BY MemoryFields, LeftEncodes, RemainingType, LongestType, ListHead, SMT DEF Sound, HeadLeft, Encodes

LEMMA StartNewHead ==
    ASSUME NEW m, Sound(m), NEW t \in Timer, t \notin Listed(m.list),
           NEW R \in 1..Longest, R = ReloadValue[t], m.list = <<>> \/ R < Remaining(m),
           NEW n, n = TimerStart(m, t)
    PROVE  Follows(m, n, Started(m.list, Left(m), t, R))
<1> DEFINE l == m.list
           ts == m.Timestamp
           f == Left(m)
           r == HeadLeft(m)
           g == Started(l, f, t, R)
<1>1. /\ m \in Memory /\ l \in Seq(Timer) /\ ts \in [Timer -> Nat] /\ Distinct(l)
      /\ r \in Nat /\ r <= Longest /\ Encodes(l, ts, r, f)
      /\ \A s \in Listed(l) : f[s] \in Nat /\ f[s] <= Longest
      /\ l # <<>> => f[l[1]] = r /\ r = Remaining(m)
  BY SoundEncodes, Zenon
<1>2. R \in Nat /\ R > 0 /\ R <= Longest
  BY LongestType, SMT
<1>3. PICK p : /\ Displaced(m, p, t, R) /\ p.list = <<t>> \o l /\ p.IsRunning[t]
               /\ n = TimerSetTimeout(p)
  BY <1>1, <1>2, NewHeadFields, Zenon DEF GoesFirst, l, NewHead
<1>4. PICK q : q = p.list
  BY Zenon
<1>5. Inserted(l, t, 1, q)
  BY <1>1, <1>3, <1>4, InsertedFirst, Zenon
<1>6. Len(l) \in Nat /\ 1 \in 1..(Len(l) + 1) /\ ~(1 > 1) /\ (1 <= Len(l) => l # <<>>)
  BY <1>1, ListPlaces, SMT
<1>7. Distinct(q) /\ Listed(q) = Listed(l) \cup {t} /\ q # <<>>
  BY <1>1, <1>5, <1>6, InsertedList, Zenon
<1>8. /\ q \in Seq(Timer) /\ Len(q) = Len(l) + 1 /\ q[1] = t
      /\ \A i \in 1..(Len(l) + 1) : i > 1 => q[i] = l[i - 1]
  BY <1>5, <1>6, Zenon DEF Inserted
<1>9. l # <<>> => p.Timestamp[l[1]] = f[l[1]] - R
  BY <1>1, <1>3, Zenon DEF Displaced
<1>d. \A i \in 2..Len(l) : l[i] \in Timer /\ l[i] # l[1] /\ l[i] # t /\ l[i] \in Listed(l)
  <2>1. \A i \in 2..Len(l) : i \in 1..Len(l) /\ i # 1 /\ 1 \in 1..Len(l)
    BY <1>6, SMT
  <2>2. DOMAIN l = 1..Len(l) /\ \A i \in 1..Len(l) : l[i] \in Timer /\ l[i] \in Listed(l)
    BY <1>1, ListPlaces, Zenon
  <2> QED
    BY <1>1, <2>1, <2>2, ZenonT(60) DEF Distinct
<1>10. \A i \in 2..Len(l) : p.Timestamp[l[i]] = ts[l[i]] /\ p.IsRunning[l[i]] = m.IsRunning[l[i]]
  BY <1>3, <1>d, Zenon DEF Displaced
<1>11. Encodes(q, p.Timestamp, R, g)
  <2>1. PICK at : at = 1
    BY Zenon
  <2>2. SplitAt(l, ts, r, f, t, at, R, p.Timestamp, R) /\ Inserted(l, t, at, q)
    BY <1>1, <1>2, <1>5, <1>6, <1>9, <1>10, <2>1, Zenon DEF SplitAt
  <2> HIDE DEF l, ts, f, r
  <2> QED
    BY <1>1, <2>2, InsertEncodes, Zenon
<1>12. p \in Memory /\ p.Timestamp[t] = R
  BY <1>3, Zenon DEF Displaced
<1>13. \A s \in Timer : p.Timestamp[s] <= Longest
  <2>1. \A s \in Timer : ts[s] <= Longest
    BY Zenon DEF Sound
  <2>2. r - R <= Longest
    BY <1>1, <1>2, LongestType, SMT
  <2> QED
    <3> SUFFICES ASSUME NEW s \in Timer PROVE p.Timestamp[s] <= Longest
      BY Zenon
    <3>1. CASE s = t
      BY <1>2, <1>12, <3>1, Zenon
    <3>2. CASE s # t /\ l # <<>> /\ s = l[1]
      BY <1>1, <1>9, <2>2, <3>2, Zenon
    <3>3. CASE s # t /\ (l # <<>> => s # l[1])
      <4>1. p.Timestamp[s] = ts[s]
        BY <1>3, <3>3, Zenon DEF Displaced
      <4> QED
        BY <2>1, <4>1, Zenon
    <3> QED
      BY <3>1, <3>2, <3>3, Zenon
<1>14. ASSUME NEW i \in 2..Len(q) PROVE ~p.IsRunning[q[i]]
  <2>1. i \in 1..(Len(l) + 1) /\ i > 1 /\ (i - 1 = 1 \/ i - 1 \in 2..Len(l)) /\ Len(l) # 0
    BY <1>6, <1>8, SMT
  <2>2. q[i] = l[i - 1] /\ l # <<>>
    BY <1>1, <1>8, <2>1, ListPlaces, Zenon
  <2>3. CASE i - 1 = 1
    BY <1>3, <2>2, <2>3, Zenon DEF Displaced
  <2>4. CASE i - 1 \in 2..Len(l)
    <3>1. PICK j \in 2..Len(l) : j = i - 1
      BY <2>4, Zenon
    <3>2. ~m.IsRunning[l[j]]
      BY Zenon DEF Sound
    <3> QED
      BY <1>10, <2>2, <3>1, <3>2, Zenon
  <2> QED
    BY <2>1, <2>3, <2>4, Zenon
<1>15. ASSUME NEW s \in Listed(q) PROVE g[s] <= Longest
  BY <1>1, <1>2, <1>7, Zenon DEF Started
<1> HIDE DEF g, l
<1>16. /\ Sound(n) /\ n.list = q /\ Runs(n) /\ n.elapsed = 0
       /\ \A s \in Listed(q) : n.lead <= g[s] /\ Left(n)[s] = g[s] - n.lead
       /\ R > 0 => OnTime(n)
  <2>1. Ready(p, g) /\ p.Timestamp[p.list[1]] = R
    BY <1>3, <1>4, <1>7, <1>8, <1>11, <1>12, <1>13, <1>14, <1>15, Zenon DEF Ready
  <2>2. AlarmSet(p, n, g)
    BY <1>3, <2>1, SetTimeoutSound, Zenon
  <2> QED
    BY <1>4, <2>1, <2>2, Zenon DEF AlarmSet
<1>17. DOMAIN g = Listed(q)
  BY <1>7, Zenon DEF g, Started
<1> QED
  BY <1>2, <1>16, <1>17, Zenon DEF Follows, g, l

(* n has the head of m. *)
KeepsHead(m, n) ==
    /\ n.list # <<>> /\ m.list # <<>> /\ n.list[1] = m.list[1]
    /\ n.Timestamp[m.list[1]] = m.Timestamp[m.list[1]]
    /\ n.IsRunning[m.list[1]] = m.IsRunning[m.list[1]]
    /\ n.elapsed = m.elapsed /\ n.alarm = m.alarm /\ n.lead = 0

(* The times left are g, with what is left of the head of m. *)
Counts(m, n, g) ==
    /\ n \in Memory /\ Distinct(n.list) /\ Encodes(n.list, n.Timestamp, Remaining(m), g)
    /\ \A s \in Timer : n.Timestamp[s] <= Longest
    /\ \A s \in Listed(n.list) : g[s] <= Longest
    /\ \A i \in 2..Len(n.list) : ~n.IsRunning[n.list[i]]

(* An operation behind the head leaves the alarm alone. *)
LEMMA KeptHeadFollows ==
    ASSUME NEW m, Sound(m), NEW n, NEW g, KeepsHead(m, n), Counts(m, n, g)
    PROVE  Follows(m, n, g)
<1>1. m.list \in Seq(Timer) /\ n.list \in Seq(Timer) /\ n \in Memory
  BY SoundEncodes, MemoryFields, Zenon DEF Counts
<1>2. Head(n.list) = m.list[1] /\ Head(m.list) = m.list[1] /\ m.list[1] \in Timer
  BY <1>1, ListHead, Zenon DEF KeepsHead
<1>3. Remaining(n) = Remaining(m)
  BY <1>2, Zenon DEF Remaining, KeepsHead
<1>4. Left(n) = g /\ g \in [Listed(n.list) -> Nat]
  BY <1>1, <1>3, LeftUnique, Zenon DEF Counts, Encodes
<1>5. Runs(n) <=> Runs(m)
  BY Zenon DEF Runs, KeepsHead
<1>6. OnTime(m) => OnTime(n)
  BY <1>5, Zenon DEF OnTime, KeepsHead
<1>7. Sound(n)
  BY <1>4, SMT DEF Sound, KeepsHead, Counts
<1>8. ASSUME NEW s \in Listed(n.list) PROVE n.lead <= g[s] /\ Left(n)[s] = g[s] - n.lead
  BY <1>4, SMT DEF KeepsHead
<1>9. DOMAIN g = Listed(n.list)
  BY <1>4, Zenon
<1>10. n.elapsed = m.elapsed /\ m.list # <<>>
  BY Zenon DEF KeepsHead
<1> QED
  BY <1>5, <1>6, <1>7, <1>8, <1>9, <1>10, Zenon DEF Follows

(* n is m with t put in at the place at. *)
Placed(m, n, t, R, at) ==
    /\ n \in Memory /\ at \in 2..(Len(m.list) + 1) /\ Inserted(m.list, t, at, n.list)
    /\ Left(m)[m.list[at - 1]] <= R /\ n.Timestamp[t] = R - Left(m)[m.list[at - 1]]
    /\ at <= Len(m.list) =>
          R < Left(m)[m.list[at]] /\ n.Timestamp[m.list[at]] = Left(m)[m.list[at]] - R
    /\ \A s \in Timer : s # t /\ (at <= Len(m.list) => s # m.list[at]) => n.Timestamp[s] = m.Timestamp[s]
    /\ n.IsRunning = [m.IsRunning EXCEPT ![t] = FALSE]
    /\ n.elapsed = m.elapsed /\ n.alarm = m.alarm /\ n.lead = m.lead

LEMMA PlacedFollows ==
    ASSUME NEW m, Sound(m), m.lead = 0, NEW t \in Timer, t \notin Listed(m.list), NEW R \in Nat, R <= Longest,
           m.list # <<>>, NEW n, NEW at, Placed(m, n, t, R, at)
    PROVE  Follows(m, n, Started(m.list, Left(m), t, R))
<1> DEFINE l == m.list
           ts == m.Timestamp
           f == Left(m)
           r == HeadLeft(m)
           q == n.list
           g == Started(l, f, t, R)
<1>1. /\ m \in Memory /\ l \in Seq(Timer) /\ ts \in [Timer -> Nat] /\ Distinct(l)
      /\ r \in Nat /\ r <= Longest /\ Encodes(l, ts, r, f)
      /\ \A s \in Listed(l) : f[s] \in Nat /\ f[s] <= Longest
      /\ f[l[1]] = r /\ r = Remaining(m)
  BY SoundEncodes, Zenon
<1>2. /\ n \in Memory /\ at \in 2..(Len(l) + 1) /\ Inserted(l, t, at, q)
      /\ f[l[at - 1]] <= R /\ n.Timestamp[t] = R - f[l[at - 1]]
      /\ at <= Len(l) => R < f[l[at]] /\ n.Timestamp[l[at]] = f[l[at]] - R
      /\ \A s \in Timer : s # t /\ (at <= Len(l) => s # l[at]) => n.Timestamp[s] = ts[s]
      /\ n.IsRunning = [m.IsRunning EXCEPT ![t] = FALSE]
      /\ n.elapsed = m.elapsed /\ n.alarm = m.alarm /\ n.lead = m.lead
  BY Zenon DEF Placed
<1>3. /\ Len(l) \in Nat /\ DOMAIN l = 1..Len(l)
      /\ \A i \in 1..Len(l) : l[i] \in Timer /\ l[i] \in Listed(l) /\ l[i] # t
      /\ l = <<>> <=> Len(l) = 0
  <2>1. l \in Seq(Timer)
    BY <1>1, Zenon
  <2>2. /\ Len(l) \in Nat /\ DOMAIN l = 1..Len(l)
        /\ \A i \in 1..Len(l) : l[i] \in Timer /\ l[i] \in Listed(l)
        /\ l = <<>> <=> Len(l) = 0
    BY <2>1, ListPlaces, SMT
  <2> QED
    BY <2>2, Zenon
<1>4. /\ at \in 1..(Len(l) + 1) /\ at # 1 /\ at > 1 /\ 1 < at /\ 1 \in 1..Len(l) /\ 1 \in 1..(Len(l) + 1)
      /\ at - 1 \in 1..Len(l) /\ (at <= Len(l) => at \in 1..Len(l)) /\ Len(l) # 0
      /\ \A i \in 2..Len(l) : i \in 1..Len(l)
  BY <1>3, <1>2, SMT
<1>5. ASSUME NEW i \in 1..Len(l), i # at PROVE n.Timestamp[l[i]] = ts[l[i]]
  BY <1>1, <1>3, <1>4, <1>5, <1>2, Zenon DEF Distinct
<1>6. SplitAt(l, ts, r, f, t, at, R, n.Timestamp, r)
  BY <1>1, <1>2, <1>4, <1>5, Zenon DEF SplitAt
<1>7. Encodes(q, n.Timestamp, r, g)
  BY <1>1, <1>2, <1>6, InsertEncodes, Zenon
<1>8. Distinct(q) /\ Listed(q) = Listed(l) \cup {t} /\ q # <<>>
  BY <1>1, <1>2, <1>4, InsertedList, SMT
<1>9. /\ q \in Seq(Timer) /\ Len(q) = Len(l) + 1 /\ q[1] = l[1]
      /\ \A i \in 1..(Len(l) + 1) : (i < at => q[i] = l[i]) /\ (i = at => q[i] = t) /\ (i > at => q[i] = l[i - 1])
  BY <1>2, <1>4, Zenon DEF Inserted
<1>10. l[1] \in Timer /\ l[1] # t
  BY <1>3, <1>4, Zenon
<1>11. m.IsRunning \in [Timer -> BOOLEAN]
  BY <1>1, MemoryFields, Zenon
<1>12. ~n.IsRunning[t] /\ \A s \in Timer : s # t => n.IsRunning[s] = m.IsRunning[s]
  BY <1>2, <1>11, Zenon
<1>13. KeepsHead(m, n)
  BY <1>2, <1>4, <1>5, <1>8, <1>9, <1>10, <1>12, Zenon DEF KeepsHead
<1>14. ASSUME NEW s \in Timer PROVE n.Timestamp[s] <= Longest
  <2>1. ts[s] <= Longest
    BY Zenon DEF Sound
  <2>2. CASE s = t
    <3>1. PICK y : y = f[l[at - 1]]
      BY Zenon
    <3>2. y \in Nat /\ n.Timestamp[s] = R - y
      BY <1>1, <1>2, <1>3, <1>4, <2>2, <3>1, Zenon
    <3>3. R - y <= Longest
      BY <3>2, LongestType, SMT
    <3> QED
      BY <3>2, <3>3, Zenon
  <2>3. CASE at <= Len(l) /\ s = l[at]
    <3>1. PICK y : y = f[l[at]]
      BY Zenon
    <3>2. y \in Nat /\ y <= Longest /\ n.Timestamp[s] = y - R
      BY <1>1, <1>2, <1>3, <1>4, <2>3, <3>1, Zenon
    <3>3. y - R <= Longest
      BY <3>2, LongestType, SMT
    <3> QED
      BY <3>2, <3>3, Zenon
  <2> QED
    BY <1>2, <2>1, <2>2, <2>3, Zenon
<1>15. ASSUME NEW i \in 2..Len(q) PROVE ~n.IsRunning[q[i]]
  <2>1. /\ i \in 1..(Len(l) + 1) /\ (i < at \/ i = at \/ i > at)
        /\ (i < at => i \in 2..Len(l)) /\ (i > at => i - 1 \in 2..Len(l))
    BY <1>2, <1>3, <1>9, SMT
  <2>2. \A j \in 2..Len(l) : ~m.IsRunning[l[j]] /\ l[j] \in Timer /\ l[j] # t
    BY <1>3, <1>4, Zenon DEF Sound
  <2>3. CASE i < at
    BY <1>9, <1>12, <2>1, <2>2, <2>3, Zenon
  <2>4. CASE i = at
    BY <1>9, <1>12, <2>1, <2>4, Zenon
  <2>5. CASE i > at
    BY <2>1, <2>5, <1>9, <1>12, <2>2, Zenon
  <2> QED
    BY <2>1, <2>3, <2>4, <2>5, Zenon
<1>16. ASSUME NEW s \in Listed(q) PROVE g[s] <= Longest
  BY <1>1, <1>8, Zenon DEF Started
<1> HIDE DEF g
<1>17. Counts(m, n, g)
  BY <1>1, <1>2, <1>7, <1>8, <1>14, <1>15, <1>16, Zenon DEF Counts
<1> QED
  BY <1>13, <1>17, KeptHeadFollows, Zenon DEF g

(* Where the timer belongs: before the first one behind the head that      *)
(* expires later.                                                          *)
PlaceFor(k, r, R) == Min({i \in 2..Len(k.list) : Aggregated(k, r)[i] > R} \cup {Len(k.list) + 1})

FitsAt(k, r, f, R, at) ==
    /\ at \in 2..(Len(k.list) + 1) /\ at - 1 \in 1..Len(k.list)
    /\ f[k.list[at - 1]] <= R /\ Aggregated(k, r)[at - 1] = f[k.list[at - 1]]
    /\ at <= Len(k.list) => at \in 2..Len(k.list) /\ R < f[k.list[at]]

LEMMA InsertionPlace ==
    ASSUME NEW k \in Memory, NEW r \in Nat, NEW f, Encodes(k.list, k.Timestamp, r, f),
           k.list # <<>>, NEW R \in Nat, r <= R
    PROVE  FitsAt(k, r, f, R, PlaceFor(k, r, R))
<1> DEFINE l == k.list
           at == PlaceFor(k, r, R)
           N == Len(l)
           sum == Aggregated(k, r)
           S == {i \in 2..N : sum[i] > R} \cup {N + 1}
<1>1. N \in Nat /\ N # 0 /\ l \in Seq(Timer) /\ DOMAIN l = 1..N /\ \A i \in 1..N : l[i] \in Listed(l)
  BY MemoryFields, ListPlaces, SMT
<1>2. \A i \in 1..N : sum[i] = f[l[i]] /\ f[l[i]] \in Nat
  BY AggregatedAt, <1>1, SMT DEF Encodes
<1>3. f[l[1]] = r
  BY Zenon DEF Encodes
<1> HIDE DEF l, sum, N, at
<1>4. S \subseteq Nat /\ S # {} /\ \A i \in S : i \in 2..(N + 1)
  BY <1>1, SMT
<1>5. at \in S /\ \A i \in S : at <= i
  BY <1>4, MinOfNats, Zenon DEF l, N, sum, at, PlaceFor
<1>6. at \in 2..(N + 1) /\ at - 1 \in 1..N /\ (at <= N => at \in 2..N /\ sum[at] > R)
  BY <1>1, <1>4, <1>5, SMT
<1>7. ~(sum[at - 1] > R)
  BY <1>2, <1>3, <1>6, <1>1, <1>5, SMT
<1>8. f[l[at - 1]] <= R
  BY <1>2, <1>6, <1>7, SMT
<1>9. at <= N => R < f[l[at]]
  BY <1>1, <1>6, <1>2, SMT
<1>10. sum[at - 1] = f[l[at - 1]]
  BY <1>2, <1>6, Zenon
<1> QED
  BY <1>6, <1>8, <1>9, <1>10, Zenon DEF l, N, sum, at, FitsAt

(* TimerInsertTimer puts the timer behind the head. *)
LEMMA StartWithin ==
    ASSUME NEW m, Sound(m), m.lead = 0, NEW t \in Timer, t \notin Listed(m.list),
           NEW R \in 1..Longest, R = ReloadValue[t],
           m.list # <<>>, ~(R < Remaining(m)), NEW n, n = TimerStart(m, t)
    PROVE  Follows(m, n, Started(m.list, Left(m), t, R))
<1> DEFINE l == m.list
           ts == m.Timestamp
           f == Left(m)
           r == HeadLeft(m)
           N == Len(l)
<1>1. /\ m \in Memory /\ l \in Seq(Timer) /\ ts \in [Timer -> Nat] /\ Distinct(l)
      /\ r \in Nat /\ r <= Longest /\ Encodes(l, ts, r, f)
      /\ \A s \in Listed(l) : f[s] \in Nat /\ f[s] <= Longest
      /\ f[l[1]] = r /\ r = Remaining(m)
  BY SoundEncodes, Zenon
<1>2. R \in Nat /\ R <= Longest /\ r <= R
  BY <1>1, LongestType, SMT
<1>3. PICK k : k = [m EXCEPT !.Timestamp[t] = R, !.IsRunning[t] = FALSE]
  BY Zenon
<1>4. PICK b \in BOOLEAN : b = FALSE
  BY Zenon
<1>5. Updated(m, k, l, [ts EXCEPT ![t] = R], [m.IsRunning EXCEPT ![t] = b])
  BY <1>1, <1>2, <1>3, <1>4, UpdateTimer, Zenon
<1>6. /\ k \in Memory /\ k.list = l /\ k.Timestamp = [ts EXCEPT ![t] = R]
      /\ k.IsRunning = [m.IsRunning EXCEPT ![t] = FALSE]
      /\ k.elapsed = m.elapsed /\ k.alarm = m.alarm /\ k.lead = m.lead
  BY <1>4, <1>5, Zenon DEF Updated
<1>7. n = TimerInsertTimer(k, t, r)
  BY <1>1, <1>3, Zenon DEF TimerStart
<1>8. /\ N \in Nat /\ DOMAIN l = 1..N /\ N # 0
      /\ \A i \in 1..N : l[i] \in Timer /\ l[i] \in Listed(l)
  BY <1>1, ListPlaces, SMT
<1>9. k.Timestamp[t] = R /\ \A s \in Timer : s # t => k.Timestamp[s] = ts[s]
  BY <1>1, <1>6, Zenon
<1>10. Encodes(k.list, k.Timestamp, r, f)
  <2>1. \A i \in 2..N : l[i] \in Timer /\ l[i] # t
    BY <1>8, SMT
  <2>2. \A i \in 2..N : k.Timestamp[l[i]] = ts[l[i]]
    BY <1>9, <2>1, Zenon
  <2>3. Encodes(l, k.Timestamp, r, f)
    BY <1>1, <2>2, EncodesSame, Zenon
  <2> QED
    BY <1>6, <2>3, Zenon
<1>11. PICK at : at = Min({i \in 2..Len(k.list) : Aggregated(k, r)[i] > k.Timestamp[t]} \cup {Len(k.list) + 1})
  BY Zenon
<1>12. /\ at \in 2..(N + 1) /\ at - 1 \in 1..N /\ f[l[at - 1]] <= R
       /\ Aggregated(k, r)[at - 1] = f[l[at - 1]]
       /\ at <= N => at \in 2..N /\ R < f[l[at]]
  <2>1. at = PlaceFor(k, r, R)
    BY <1>9, <1>11, Zenon DEF PlaceFor
  <2>2. k.list # <<>> /\ k \in Memory /\ r \in Nat /\ R \in Nat /\ r <= R
    BY <1>1, <1>2, <1>6, Zenon
  <2>3. FitsAt(k, r, f, R, at)
    BY <1>10, <2>1, <2>2, InsertionPlace, SMT
  <2> QED
    BY <1>6, <2>3, Zenon DEF FitsAt
<1>13. PICK y \in Nat : y = f[l[at - 1]]
  BY <1>1, <1>8, <1>12, Zenon
<1>14. PICK x : x = Minus(k.Timestamp[t], Aggregated(k, r)[at - 1])
  BY Zenon
<1>15. x = R - y /\ y <= R /\ x \in Nat /\ x <= R
  <2>1. x = Minus(R, y) /\ y <= R
    BY <1>9, <1>12, <1>13, <1>14, Zenon
  <2>2. x = R - y
    BY <1>2, <2>1, MinusWithinWord, Zenon
  <2> QED
    BY <1>2, <2>1, <2>2, SMT
<1>16. PICK q : q = SubSeq(l, 1, at - 1) \o <<t>> \o SubSeq(l, at, N)
  BY Zenon
<1>17. Inserted(l, t, at, q) /\ q \in Seq(Timer)
  <2>1. at \in 1..(N + 1)
    BY <1>8, <1>12, SMT
  <2>2. l \in Seq(Timer)
    BY <1>1, Zenon
  <2> HIDE DEF l
  <2>3. Inserted(l, t, at, q)
    BY <1>16, <2>1, <2>2, InsertedWithin, Zenon
  <2> QED
    BY <2>3, Zenon DEF Inserted
<1>18. PICK p : p = [k EXCEPT !.Timestamp[t] = x, !.list = q]
  BY Zenon
<1>19. Updated(k, p, q, [k.Timestamp EXCEPT ![t] = x], k.IsRunning)
  BY <1>6, <1>15, <1>17, <1>18, UpdateTimeList, Zenon
<1>20. n = IF at > N THEN p ELSE [p EXCEPT !.Timestamp[l[at]] = Minus(p.Timestamp[l[at]], x)]
  BY <1>6, <1>7, <1>11, <1>14, <1>16, <1>18, ZenonT(60) DEF TimerInsertTimer
<1>21. /\ p \in Memory /\ p.list = q /\ p.Timestamp[t] = x
       /\ \A s \in Timer : s # t => p.Timestamp[s] = ts[s]
       /\ p.Timestamp \in [Timer -> Nat]
       /\ p.IsRunning = [m.IsRunning EXCEPT ![t] = FALSE]
       /\ p.elapsed = m.elapsed /\ p.alarm = m.alarm /\ p.lead = m.lead
  BY <1>6, <1>19, MemoryFields, <1>9, SMT DEF Updated
<1>22. CASE at > N
  <2>1. n = p /\ ~(at <= N)
    BY <1>8, <1>12, <1>22, <1>20, SMT
  <2>2. Placed(m, n, t, R, at)
    BY <1>12, <1>13, <1>15, <1>17, <1>21, <2>1, Zenon DEF Placed
  <2> QED
    BY <1>2, <2>2, PlacedFollows, Zenon
<1>23. CASE ~(at > N)
  <2>1. at <= N /\ at \in 2..N /\ R < f[l[at]] /\ at \in 1..N
    BY <1>8, <1>12, <1>23, SMT
  <2>2. PICK c \in Timer : c = l[at]
    BY <1>8, <2>1, Zenon
  <2>3. c # t /\ c \in Listed(l)
    BY <1>8, <2>1, <2>2, Zenon
  <2>4. PICK z \in Nat : z = f[c]
    BY <1>1, <2>3, Zenon
  <2>5. PICK u \in Nat : u = ts[c]
    BY <1>1, Zenon
  <2>6. z = y + u /\ R < z /\ z <= Longest
    BY <1>1, <2>1, <1>13, <2>2, <2>3, <2>4, <2>5, Zenon DEF Encodes
  <2>7. Minus(u, x) = z - R /\ z - R \in Nat
    <3>1. x <= u /\ u <= Longest /\ u - x = z - R
      BY <1>2, <1>15, <2>6, LongestType, SMTT(60)
    <3>2. Minus(u, x) = u - x
      BY <1>15, <3>1, MinusWithinWord, Zenon
    <3>3. x \in Nat
      BY <1>15, Zenon
    <3>4. u - x \in Nat
      BY <3>1, <3>3, SMT
    <3> QED
      BY <3>1, <3>2, <3>4, Zenon
  <2>8. PICK v \in Nat : v = z - R /\ v = Minus(u, x)
    BY <2>7, Zenon
  <2>9. p.Timestamp[c] = u
    BY <1>21, <2>3, <2>5, Zenon
  <2>10. n = [p EXCEPT !.Timestamp[c] = v]
    BY <1>20, <1>23, <2>2, <2>8, <2>9, Zenon
  <2>11. Updated(p, n, p.list, [p.Timestamp EXCEPT ![c] = v], p.IsRunning)
    <3>1. p \in Memory
      BY <1>21, Zenon
    <3>2. Updated(p, [p EXCEPT !.Timestamp[c] = v], p.list, [p.Timestamp EXCEPT ![c] = v], p.IsRunning)
      BY <3>1, UpdateTime, Zenon
    <3> QED
      BY <2>10, <3>2, Zenon
  <2>12. /\ n \in Memory /\ n.list = q /\ n.Timestamp = [p.Timestamp EXCEPT ![c] = v]
         /\ n.IsRunning = [m.IsRunning EXCEPT ![t] = FALSE]
         /\ n.elapsed = m.elapsed /\ n.alarm = m.alarm /\ n.lead = m.lead
    BY <1>21, <2>11, Zenon DEF Updated
  <2>13. /\ n.Timestamp[c] = v /\ n.Timestamp[t] = x
         /\ \A s \in Timer : s # t /\ s # c => n.Timestamp[s] = ts[s]
    BY <1>21, <2>3, <2>12, Zenon
  <2>14. Placed(m, n, t, R, at)
    BY <1>12, <1>13, <1>15, <1>17, <2>1, <2>2, <2>4, <2>8, <2>12, <2>13, ZenonT(60) DEF Placed
  <2> QED
    BY <1>2, <2>14, PlacedFollows, Zenon
<1> QED
  BY <1>22, <1>23, Zenon

-----------------------------------------------------------------------------
(***************************************************************************)
(* TimerStop.                                                              *)
(***************************************************************************)
(* k is m without its head, whose time has gone to the next timer. *)
HeadCut(m, k) ==
    /\ k \in Memory /\ Len(m.list) > 1 /\ k.list = Tail(m.list)
    /\ k.Timestamp = [m.Timestamp EXCEPT ![m.list[2]] = Left(m)[m.list[2]]]
    /\ \A s \in Timer : s # m.list[1] /\ s # m.list[2] => k.IsRunning[s] = m.IsRunning[s]

CutCounts(m, k, g) ==
    /\ k.list # <<>> /\ k.list[1] = m.list[2] /\ Distinct(k.list) /\ DOMAIN g = Listed(k.list)
    /\ \A s \in Timer : k.Timestamp[s] <= Longest
    /\ \A i \in 2..Len(k.list) : ~k.IsRunning[k.list[i]]
    /\ Encodes(k.list, k.Timestamp, k.Timestamp[k.list[1]], g)
    /\ \A s \in Listed(k.list) : g[s] <= Longest

LEMMA HeadCutCounts ==
    ASSUME NEW m, Sound(m), NEW k, HeadCut(m, k)
    PROVE  CutCounts(m, k, Stopped(m.list, Left(m), m.list[1]))
<1> DEFINE l == m.list
           ts == m.Timestamp
           f == Left(m)
           r == HeadLeft(m)
           N == Len(l)
           q == k.list
           g == Stopped(l, f, l[1])
<1>1. /\ m \in Memory /\ l \in Seq(Timer) /\ ts \in [Timer -> Nat] /\ Distinct(l)
      /\ r \in Nat /\ Encodes(l, ts, r, f)
      /\ \A s \in Listed(l) : f[s] \in Nat /\ f[s] <= Longest
  BY SoundEncodes, Zenon
<1>2. /\ k \in Memory /\ N > 1 /\ q = Tail(l) /\ k.Timestamp = [ts EXCEPT ![l[2]] = f[l[2]]]
      /\ \A s \in Timer : s # l[1] /\ s # l[2] => k.IsRunning[s] = m.IsRunning[s]
  BY Zenon DEF HeadCut
<1>3. /\ N \in Nat /\ DOMAIN l = 1..N /\ l # <<>>
      /\ \A i \in 1..N : l[i] \in Timer /\ l[i] \in Listed(l)
  BY <1>1, ListPlaces, <1>2, SMT
<1>4. 1 \in 1..N /\ 2 \in 1..N /\ 1 # 2 /\ N - 1 \in Nat /\ N - 1 # 0 /\ 1 \in 1..(N - 1) /\ 1 >= 1 /\ 1 + 1 = 2 /\ ~(1 > 1)
  BY <1>2, <1>3, SMT
<1>5. Removed(l, 1, q)
  BY <1>1, <1>2, <1>3, RemovedFirst, Zenon
<1>6. q \in Seq(Timer) /\ Len(q) = N - 1 /\ \A i \in 1..(N - 1) : i >= 1 => q[i] = l[i + 1]
  BY <1>5, Zenon DEF Removed
<1>7. q # <<>> /\ q[1] = l[2]
  BY <1>4, <1>6, ListPlaces, SMT
<1>8. Distinct(q) /\ Listed(q) = Listed(l) \ {l[1]}
  BY <1>1, <1>4, <1>5, RemovedList, SMT
<1>9. k.Timestamp[l[2]] = f[l[2]] /\ \A s \in Timer : s # l[2] => k.Timestamp[s] = ts[s]
  BY <1>1, <1>2, <1>3, <1>4, Zenon
<1>10. ASSUME NEW i \in 3..N
       PROVE  i \in 1..N /\ l[i] \in Timer /\ l[i] # l[1] /\ l[i] # l[2] /\ k.Timestamp[l[i]] = ts[l[i]] /\ ~k.IsRunning[l[i]]
  <2>1. i \in 1..N /\ i # 1 /\ i # 2 /\ i \in 2..N
    BY <1>3, SMT
  <2>2. l[i] \in Timer /\ l[i] # l[1] /\ l[i] # l[2]
    BY <1>1, <1>3, <1>4, <2>1, Zenon DEF Distinct
  <2> QED
    BY <1>2, <1>9, <2>1, <2>2, Zenon DEF Sound
<1>11. Encodes(q, k.Timestamp, f[l[2]], g)
  <2>1. PICK one, us, w : one = 1 /\ us = k.Timestamp /\ w = f[l[2]]
    BY Zenon
  <2>2. \A i \in 2..N : i # one /\ i # one + 1 => i \in 3..N
    BY <1>3, <2>1, SMT
  <2>3. JoinedAt(l, ts, r, f, one, us, w)
    BY <1>1, <1>4, <1>10, <2>1, <2>2, Zenon DEF JoinedAt
  <2>4. l \in Seq(Timer) /\ ts \in [Timer -> Nat] /\ Encodes(l, ts, r, f) /\ Removed(l, one, q)
    BY <1>1, <1>5, <2>1, Zenon
  <2>5. Encodes(q, us, w, Stopped(l, f, l[one]))
    BY <2>3, <2>4, RemoveEncodes, SMT
  <2> QED
    BY <2>1, <2>5, Zenon
<1>12. ASSUME NEW s \in Timer PROVE k.Timestamp[s] <= Longest
  BY <1>1, <1>3, <1>4, <1>9, SMT DEF Sound
<1>13. ASSUME NEW i \in 2..Len(q) PROVE ~k.IsRunning[q[i]]
  BY <1>3, <1>6, <1>10, SMT
<1>14. DOMAIN g = Listed(q) /\ \A s \in Listed(q) : g[s] <= Longest
  BY <1>1, <1>8, Zenon DEF Stopped
<1> HIDE DEF g
<1> QED
  BY <1>7, <1>8, <1>9, <1>11, <1>12, <1>13, <1>14, Zenon DEF CutCounts, g

(* The running head is stopped: the next timer gets the alarm. *)
LEMMA StopRunningHead ==
    ASSUME NEW m, Sound(m), m.list # <<>>, Len(m.list) # 1, m.IsRunning[m.list[1]], NEW n, n = StopHead(m)
    PROVE  Follows(m, n, Stopped(m.list, Left(m), m.list[1]))
<1> DEFINE l == m.list
           ts == m.Timestamp
           f == Left(m)
           N == Len(l)
           g == Stopped(l, f, l[1])
<1>1. /\ m \in Memory /\ l \in Seq(Timer) /\ ts \in [Timer -> Nat]
      /\ Encodes(l, ts, HeadLeft(m), f)
      /\ \A s \in Listed(l) : f[s] \in Nat /\ f[s] <= Longest
      /\ f[l[1]] = Remaining(m) /\ HeadLeft(m) \in Nat /\ HeadLeft(m) = Remaining(m)
  BY SoundEncodes, Zenon
<1>2. /\ N \in Nat /\ N # 0 /\ Head(l) = l[1] /\ \A i \in 1..N : l[i] \in Timer /\ l[i] \in Listed(l)
      /\ Tail(l) \in Seq(Timer)
  BY <1>1, RemovedFirst, ListPlaces, SMT DEF Removed
<1>3. N > 1 /\ 1 \in 1..N /\ 2 \in 1..N /\ 2 \in 2..N /\ 2 - 1 = 1
  <2>1. N # 1
    BY Zenon
  <2> HIDE DEF N
  <2> QED
    BY <1>2, <2>1, SMT
<1>4. PICK h \in Timer : h = l[1]
  BY <1>2, <1>3, Zenon
<1>5. PICK x \in Timer : x = l[2]
  BY <1>2, <1>3, Zenon
<1>6. PICK r \in Nat : r = Remaining(m)
  BY <1>1, Zenon
<1>7. PICK u \in Nat : u = ts[x]
  BY <1>1, Zenon
<1>8. PICK z \in Nat : z = u + r
  BY SMT
<1>9. z = f[x]
  <2>1. f[x] = r + u
    BY <1>1, <1>3, <1>5, <1>6, <1>7, Zenon DEF Encodes
  <2>2. z = r + u
    BY <1>8, SMT
  <2> QED
    BY <2>1, <2>2, Zenon
<1>10. PICK q \in Seq(Timer) : q = Tail(l)
  BY <1>2, Zenon
<1>11. PICK c : c = [m EXCEPT !.list = q]
  BY Zenon
<1>12. Updated(m, c, q, ts, m.IsRunning)
  BY <1>1, <1>11, UpdateList, Zenon
<1>13. c \in Memory /\ c.list = q /\ c.Timestamp = ts /\ c.IsRunning = m.IsRunning
  BY <1>12, Zenon DEF Updated
<1>14. PICK d : d = [c EXCEPT !.IsRunning[h] = FALSE]
  BY Zenon
<1>15. d \in Memory /\ d.list = q /\ d.Timestamp = ts /\ d.IsRunning = [m.IsRunning EXCEPT ![h] = FALSE]
  <2>1. PICK b \in BOOLEAN : b = FALSE
    BY Zenon
  <2>2. Updated(c, [c EXCEPT !.IsRunning[h] = b], c.list, c.Timestamp, [c.IsRunning EXCEPT ![h] = b])
    BY <1>13, UpdateFlag, SMT
  <2> QED
    BY <1>13, <1>14, <2>1, <2>2, Zenon DEF Updated
<1>16. PICK e : e = [d EXCEPT !.IsRunning[x] = TRUE]
  BY Zenon
<1>17. /\ e \in Memory /\ e.list = q /\ e.Timestamp = ts
       /\ e.IsRunning = [[m.IsRunning EXCEPT ![h] = FALSE] EXCEPT ![x] = TRUE]
  <2>1. PICK b \in BOOLEAN : b = TRUE
    BY Zenon
  <2>2. Updated(d, [d EXCEPT !.IsRunning[x] = b], d.list, d.Timestamp, [d.IsRunning EXCEPT ![x] = b])
    BY <1>15, UpdateFlag, Zenon
  <2> QED
    BY <1>15, <1>16, <2>1, <2>2, Zenon DEF Updated
<1>18. PICK k : k = [e EXCEPT !.Timestamp[x] = z]
  BY Zenon
<1>19. /\ k \in Memory /\ k.list = q /\ k.Timestamp = [ts EXCEPT ![x] = z]
       /\ k.IsRunning = [[m.IsRunning EXCEPT ![h] = FALSE] EXCEPT ![x] = TRUE]
  BY <1>17, UpdateTime, <1>18, SMT DEF Updated
<1>20. k = [c EXCEPT !.IsRunning[h] = FALSE, !.IsRunning[x] = TRUE, !.Timestamp[x] = z]
  BY <1>14, <1>16, <1>18, Zenon
<1>21. n = TimerSetTimeout(k)
  BY <1>2, <1>4, <1>5, <1>10, <1>11, <1>6, <1>7, <1>8, <1>13, <1>20, SMTT(60) DEF StopHead
<1>22. HeadCut(m, k) /\ k.IsRunning[x]
  <2>1. m.IsRunning \in [Timer -> BOOLEAN]
    BY <1>1, MemoryFields, Zenon
  <2>2. k.IsRunning[x] /\ \A s \in Timer : s # h /\ s # x => k.IsRunning[s] = m.IsRunning[s]
    BY <1>19, <2>1, ZenonT(180)
  <2> QED
    BY <1>3, <1>4, <1>5, <1>9, <1>10, <1>19, <2>2, Zenon DEF HeadCut
<1>23. CutCounts(m, k, g)
  BY <1>22, HeadCutCounts, Zenon
<1> HIDE DEF g
<1>24. Ready(k, g)
  BY <1>5, <1>19, <1>22, <1>23, Zenon DEF CutCounts, Ready
<1>25. AlarmSet(k, n, g)
  BY <1>21, <1>24, SetTimeoutSound, Zenon
<1>26. OnTime(m) => k.Timestamp[k.list[1]] > 0
  <2> HAVE OnTime(m)
  <2>1. k.Timestamp[k.list[1]] = z
    <3>1. k.list[1] = x
      BY <1>5, <1>23, Zenon DEF CutCounts
    <3>2. k.Timestamp[x] = z
      BY <1>1, <1>19, Zenon
    <3> QED
      BY <3>1, <3>2, Zenon
  <2>2. PICK a, el, th : a = m.alarm /\ el = m.elapsed /\ th = ts[h]
    BY Zenon
  <2>3. a \in Nat /\ el \in Nat /\ th \in Nat
    BY <1>1, <2>2, MemoryFields, Zenon
  <2>4. a > 0 /\ th = el + a
    BY <1>4, <2>2, Zenon DEF OnTime, Runs
  <2>5. r = IF el > th THEN 0 ELSE th - el
    BY <1>2, <1>4, <1>6, <2>2, Zenon DEF Remaining
  <2>6. z > 0
    BY <1>8, <2>3, <2>4, <2>5, SMT
  <2> QED
    BY <2>1, <2>6, Zenon
<1>27. DOMAIN g = Listed(n.list)
  BY <1>23, <1>25, Zenon DEF CutCounts, AlarmSet
<1> QED
  BY <1>25, <1>26, <1>27, Zenon DEF AlarmSet, Follows, g

(* The next timer is not running either: the times left stay as they are. *)
CutWaits(m, n, g) ==
    /\ Sound(n) /\ ~Runs(n) /\ Left(n) = g /\ g \in [Listed(n.list) -> Nat]

LEMMA WaitingCut ==
    ASSUME NEW m, Sound(m), NEW n, HeadCut(m, n), ~n.IsRunning[m.list[2]],
           n.elapsed = m.elapsed, n.alarm = m.alarm
    PROVE  CutWaits(m, n, Stopped(m.list, Left(m), m.list[1]))
<1> DEFINE g == Stopped(m.list, Left(m), m.list[1])
<1>1. CutCounts(m, n, g) /\ n \in Memory
  BY HeadCutCounts, Zenon DEF HeadCut
<1>2. ~n.IsRunning[n.list[1]]
  BY <1>1, Zenon DEF CutCounts
<1> HIDE DEF g
<1>3. Remaining(n) = n.Timestamp[n.list[1]]
  BY <1>1, MemoryFields, ListPlaces, <1>2, SMT DEF CutCounts, Remaining
<1>4. Left(n) = g /\ g \in [Listed(n.list) -> Nat]
  BY <1>1, <1>3, LeftUnique, Zenon DEF CutCounts, Encodes
<1>5. Sound(n)
  BY <1>1, <1>4, Zenon DEF Sound, CutCounts
<1>6. ~Runs(n)
  BY <1>2, Zenon DEF Runs
<1> QED
  BY <1>4, <1>5, <1>6, Zenon DEF CutWaits, g

(* A head that is not running is stopped: the next timer gets its time. *)
LEMMA StopWaitingHead ==
    ASSUME NEW m, Sound(m), m.lead = 0, m.list # <<>>, Len(m.list) # 1, ~m.IsRunning[m.list[1]],
           NEW n, n = StopHead(m)
    PROVE  Follows(m, n, Stopped(m.list, Left(m), m.list[1]))
<1> DEFINE l == m.list
           ts == m.Timestamp
           f == Left(m)
           N == Len(l)
           g == Stopped(l, f, l[1])
<1>1. /\ m \in Memory /\ l \in Seq(Timer) /\ ts \in [Timer -> Nat]
      /\ Encodes(l, ts, HeadLeft(m), f)
      /\ \A s \in Listed(l) : f[s] \in Nat /\ f[s] <= Longest
      /\ f[l[1]] = Remaining(m) /\ HeadLeft(m) \in Nat /\ HeadLeft(m) = Remaining(m)
  BY SoundEncodes, Zenon
<1>2. /\ N \in Nat /\ N # 0 /\ Head(l) = l[1] /\ \A i \in 1..N : l[i] \in Timer /\ l[i] \in Listed(l)
      /\ Tail(l) \in Seq(Timer)
  BY <1>1, RemovedFirst, ListPlaces, SMT DEF Removed
<1>3. N > 1 /\ 1 \in 1..N /\ 2 \in 1..N /\ 2 \in 2..N /\ 2 - 1 = 1 /\ 1 # 2
  <2>1. N # 1
    BY Zenon
  <2> HIDE DEF N
  <2> QED
    BY <1>2, <2>1, SMT
<1>4. PICK h \in Timer : h = l[1]
  BY <1>2, <1>3, Zenon
<1>5. PICK x \in Timer : x = l[2]
  BY <1>2, <1>3, Zenon
<1>6. PICK r \in Nat : r = Remaining(m)
  BY <1>1, Zenon
<1>7. PICK u \in Nat : u = ts[x]
  BY <1>1, Zenon
<1>8. PICK z \in Nat : z = u + r
  BY SMT
<1>9. z = f[x] /\ r = ts[h]
  <2>1. f[x] = r + u
    BY <1>1, <1>3, <1>5, <1>6, <1>7, Zenon DEF Encodes
  <2>2. z = r + u
    BY <1>8, SMT
  <2>3. r = ts[h]
    BY <1>2, <1>4, <1>6, Zenon DEF Remaining
  <2> QED
    BY <2>1, <2>2, <2>3, Zenon
<1>10. PICK q \in Seq(Timer) : q = Tail(l)
  BY <1>2, Zenon
<1>11. PICK c : c = [m EXCEPT !.list = q]
  BY Zenon
<1>12. Updated(m, c, q, ts, m.IsRunning)
  BY <1>1, <1>11, UpdateList, Zenon
<1>13. /\ c \in Memory /\ c.list = q /\ c.Timestamp = ts /\ c.IsRunning = m.IsRunning
       /\ c.elapsed = m.elapsed /\ c.alarm = m.alarm /\ c.lead = m.lead
  BY <1>12, Zenon DEF Updated
<1>14. n = [c EXCEPT !.Timestamp[x] = z]
  BY <1>2, <1>4, <1>5, <1>10, <1>11, <1>7, <1>8, <1>9, <1>13, SMTT(60) DEF StopHead
<1>15. /\ n \in Memory /\ n.list = q /\ n.Timestamp = [ts EXCEPT ![x] = z]
       /\ n.IsRunning = m.IsRunning
       /\ n.elapsed = m.elapsed /\ n.alarm = m.alarm /\ n.lead = m.lead
  BY <1>13, UpdateTime, <1>14, SMT DEF Updated
<1>16. HeadCut(m, n)
  BY <1>3, <1>5, <1>9, <1>10, <1>15, Zenon DEF HeadCut
<1>17. ~n.IsRunning[l[2]]
  BY <1>3, <1>15, Zenon DEF Sound
<1>18. CutWaits(m, n, g)
  BY <1>15, <1>16, <1>17, WaitingCut, Zenon
<1> HIDE DEF g
<1>20. Left(n) = g /\ g \in [Listed(n.list) -> Nat]
  BY <1>18, Zenon DEF CutWaits
<1>21. Sound(n)
  BY <1>18, Zenon DEF CutWaits
<1>22. ~Runs(n) /\ ~Runs(m)
  BY <1>18, Zenon DEF CutWaits, Runs
<1>23. ASSUME NEW s \in Listed(n.list) PROVE n.lead <= g[s] /\ Left(n)[s] = g[s] - n.lead
  BY <1>20, <1>15, SMT
<1>24. DOMAIN g = Listed(n.list)
  BY <1>20, Zenon
<1> QED
  BY <1>21, <1>22, <1>23, <1>24, Zenon DEF Follows, OnTime, g

(* The only timer leaves the list. *)
LEMMA LastCut ==
    ASSUME NEW m, Sound(m), m.list # <<>>, Len(m.list) = 1, NEW n, n = [m EXCEPT !.list = Tail(m.list)]
    PROVE  CutWaits(m, n, Stopped(m.list, Left(m), m.list[1])) /\ n.list = <<>> /\ n.lead = m.lead
<1> DEFINE l == m.list
           g == Stopped(l, Left(m), l[1])
<1>1. m \in Memory /\ l \in Seq(Timer) /\ Distinct(l) /\ \A s \in Listed(l) : Left(m)[s] \in Nat
  BY SoundEncodes, Zenon
<1>2. Removed(l, 1, Tail(l)) /\ 1 \in 1..Len(l) /\ Tail(l) \in Seq(Timer)
  BY <1>1, RemovedFirst, SMT DEF Removed
<1>3. PICK q \in Seq(Timer) : q = Tail(l)
  BY <1>2, Zenon
<1>4. Len(q) = 0
  BY <1>2, <1>3, SMT DEF Removed
<1>5. q = <<>> /\ Listed(q) = {}
  BY <1>4, ListPlaces, Zenon
<1>6. Listed(q) = Listed(l) \ {l[1]}
  BY <1>1, <1>2, <1>3, RemovedList, SMT
<1>7. Updated(m, n, q, m.Timestamp, m.IsRunning)
  BY <1>1, <1>3, UpdateList, Zenon
<1>8. /\ n \in Memory /\ n.list = q /\ n.Timestamp = m.Timestamp /\ n.IsRunning = m.IsRunning
      /\ n.elapsed = m.elapsed /\ n.alarm = m.alarm /\ n.lead = m.lead
  BY <1>7, Zenon DEF Updated
<1>9. g \in [Listed(q) -> Nat]
  BY <1>1, <1>6, Zenon DEF Stopped
<1>10. Distinct(q) /\ \A i \in 2..Len(q) : FALSE
  BY <1>4, ListPlaces, SMT DEF Distinct
<1> HIDE DEF g
<1>11. Left(n) = g
  BY <1>5, <1>9, <1>10, <1>8, LeftUnique, Zenon DEF Encodes
<1>12. Sound(n)
  BY <1>5, <1>8, <1>10, Zenon DEF Sound
<1>13. ~Runs(n)
  BY <1>5, <1>8, Zenon DEF Runs
<1> QED
  BY <1>5, <1>8, <1>9, <1>11, <1>12, <1>13, Zenon DEF CutWaits, g

LEMMA StopOnlyTimer ==
    ASSUME NEW m, Sound(m), m.lead = 0, m.list # <<>>, Len(m.list) = 1, NEW n, n = StopHead(m)
    PROVE  Follows(m, n, Stopped(m.list, Left(m), m.list[1]))
<1> DEFINE g == Stopped(m.list, Left(m), m.list[1])
<1>1. n = [m EXCEPT !.list = Tail(m.list)]
  BY Zenon DEF StopHead
<1>2. CutWaits(m, n, g) /\ n.list = <<>> /\ n.lead = 0
  BY <1>1, LastCut, Zenon
<1>3. Listed(n.list) = {}
  BY <1>2, MemoryFields, ListPlaces, SMT DEF CutWaits, Sound
<1> HIDE DEF g
<1>4. Sound(n) /\ ~Runs(n) /\ DOMAIN g = Listed(n.list)
  BY <1>2, Zenon DEF CutWaits
<1> QED
  BY <1>2, <1>3, <1>4, Zenon DEF Follows, OnTime, g

(* The head has expired: the timer behind it is due in its own time. *)
LEMMA ExpireCut ==
    ASSUME NEW m, Sound(m), m.lead = 0, m.list # <<>>, m.Timestamp[m.list[1]] = 0,
           NEW n, n = [m EXCEPT !.list = Tail(m.list)]
    PROVE  CutWaits(m, n, Stopped(m.list, Left(m), m.list[1])) /\ n.lead = 0
<1> DEFINE l == m.list
           ts == m.Timestamp
           f == Left(m)
           N == Len(l)
<1>1. CASE N = 1
  BY <1>1, LastCut, Zenon
<1>2. CASE N # 1
  <2>1. /\ m \in Memory /\ l \in Seq(Timer) /\ ts \in [Timer -> Nat]
        /\ Encodes(l, ts, HeadLeft(m), f)
        /\ f[l[1]] = Remaining(m) /\ HeadLeft(m) = Remaining(m)
    BY SoundEncodes, Zenon
  <2>2. /\ N \in Nat /\ N # 0 /\ Head(l) = l[1] /\ \A i \in 1..N : l[i] \in Timer /\ l[i] \in Listed(l)
        /\ Tail(l) \in Seq(Timer)
    BY <2>1, RemovedFirst, ListPlaces, SMT DEF Removed
  <2>3. N > 1 /\ 2 \in 1..N /\ 2 \in 2..N /\ 2 - 1 = 1
    <3> HIDE DEF N
    <3> QED
      BY <1>2, <2>2, SMT
  <2>4. PICK x \in Timer : x = l[2]
    BY <2>2, <2>3, Zenon
  <2>5. PICK u \in Nat : u = ts[x]
    BY <2>1, Zenon
  <2>6. Remaining(m) = 0
    BY <2>1, MemoryFields, <2>2, SMT DEF Remaining
  <2>7. f[x] = u
    <3>1. f[x] = 0 + u
      BY <2>1, <2>3, <2>4, <2>5, <2>6, Zenon DEF Encodes
    <3>2. 0 + u = u
      BY SMT
    <3> QED
      BY <3>1, <3>2, Zenon
  <2>8. Updated(m, n, Tail(l), ts, m.IsRunning)
    BY <2>1, <2>2, UpdateList, Zenon
  <2>9. /\ n \in Memory /\ n.list = Tail(l) /\ n.Timestamp = ts /\ n.IsRunning = m.IsRunning
        /\ n.elapsed = m.elapsed /\ n.alarm = m.alarm /\ n.lead = m.lead
    BY <2>8, Zenon DEF Updated
  <2>10. ts = [ts EXCEPT ![x] = f[x]]
    BY <2>1, <2>5, <2>7, Zenon
  <2>11. HeadCut(m, n)
    BY <2>3, <2>4, <2>9, <2>10, Zenon DEF HeadCut
  <2>12. ~n.IsRunning[l[2]]
    BY <2>3, <2>9, Zenon DEF Sound
  <2> QED
    BY <2>9, <2>11, <2>12, WaitingCut, Zenon
<1> QED
  BY <1>1, <1>2, Zenon

(* n is m without the timer at place i, whose time has gone to the next. *)
CutWithin(m, n, i) ==
    /\ n \in Memory /\ i \in 2..Len(m.list) /\ Removed(m.list, i, n.list)
    /\ i < Len(m.list) => n.Timestamp[m.list[i + 1]] = m.Timestamp[m.list[i + 1]] + m.Timestamp[m.list[i]]
    /\ \A s \in Timer : (i < Len(m.list) => s # m.list[i + 1]) => n.Timestamp[s] = m.Timestamp[s]
    /\ n.IsRunning = m.IsRunning
    /\ n.elapsed = m.elapsed /\ n.alarm = m.alarm /\ n.lead = m.lead

LEMMA CutWithinFollows ==
    ASSUME NEW m, Sound(m), m.lead = 0, m.list # <<>>, NEW n, NEW i, CutWithin(m, n, i)
    PROVE  Follows(m, n, Stopped(m.list, Left(m), m.list[i]))
<1> DEFINE l == m.list
           ts == m.Timestamp
           f == Left(m)
           r == HeadLeft(m)
           N == Len(l)
           q == n.list
           g == Stopped(l, f, l[i])
<1>1. /\ m \in Memory /\ l \in Seq(Timer) /\ ts \in [Timer -> Nat] /\ Distinct(l)
      /\ r \in Nat /\ Encodes(l, ts, r, f) /\ r = Remaining(m)
      /\ \A s \in Listed(l) : f[s] \in Nat /\ f[s] <= Longest
  BY SoundEncodes, Zenon
<1>2. /\ n \in Memory /\ i \in 2..N /\ Removed(l, i, q)
      /\ i < N => n.Timestamp[l[i + 1]] = ts[l[i + 1]] + ts[l[i]]
      /\ \A s \in Timer : (i < N => s # l[i + 1]) => n.Timestamp[s] = ts[s]
      /\ n.IsRunning = m.IsRunning
      /\ n.elapsed = m.elapsed /\ n.alarm = m.alarm /\ n.lead = m.lead
  BY Zenon DEF CutWithin
<1>3. /\ N \in Nat /\ DOMAIN l = 1..N
      /\ \A j \in 1..N : l[j] \in Timer /\ l[j] \in Listed(l)
  BY <1>1, ListPlaces, SMT
<1>4. /\ i \in 1..N /\ 1 \in 1..N /\ 1 \in 1..(N - 1) /\ 1 < i /\ i > 1 /\ i # 1 /\ N - 1 # 0
      /\ (i < N => i + 1 \in 1..N /\ i + 1 \in 2..N /\ i + 1 # 1)
  BY <1>2, <1>3, SMT
<1>5. /\ q \in Seq(Timer) /\ Len(q) = N - 1 /\ q[1] = l[1]
      /\ \A j \in 1..(N - 1) : (j < i => q[j] = l[j]) /\ (j >= i => q[j] = l[j + 1])
  BY <1>2, <1>4, Zenon DEF Removed
<1>6. q # <<>>
  BY <1>5, ListPlaces, <1>4, SMT
<1>7. Distinct(q) /\ Listed(q) = Listed(l) \ {l[i]}
  BY <1>1, <1>2, <1>4, RemovedList, SMT
<1>8. ASSUME NEW j \in 1..N, j # i + 1 PROVE n.Timestamp[l[j]] = ts[l[j]]
  BY <1>1, <1>3, <1>4, <1>8, <1>2, Zenon DEF Distinct
<1>9. Encodes(q, n.Timestamp, r, g)
  <2>1. PICK us : us = n.Timestamp
    BY Zenon
  <2>2. \A j \in 2..N : j \in 1..N
    BY <1>3, SMT
  <2>3. JoinedAt(l, ts, r, f, i, us, r)
    BY <1>1, <1>2, <1>4, <1>8, <2>1, <2>2, Zenon DEF JoinedAt
  <2>4. l \in Seq(Timer) /\ ts \in [Timer -> Nat] /\ Encodes(l, ts, r, f) /\ Removed(l, i, q)
    BY <1>1, <1>2, Zenon
  <2>5. Encodes(q, us, r, Stopped(l, f, l[i]))
    BY <2>3, <2>4, RemoveEncodes, SMT
  <2> QED
    BY <2>1, <2>5, Zenon
<1>10. 1 # i + 1
  BY <1>2, <1>3, SMT
<1>11. KeepsHead(m, n)
  BY <1>2, <1>4, <1>5, <1>6, <1>8, <1>10, Zenon DEF KeepsHead
<1>12. ASSUME NEW s \in Timer PROVE n.Timestamp[s] <= Longest
  <2>1. ts[s] <= Longest
    BY Zenon DEF Sound
  <2>2. CASE i < N /\ s = l[i + 1]
    <3>1. PICK a, b \in Nat : a = ts[l[i]] /\ b = ts[s]
      BY <1>1, <1>3, <1>4, Zenon
    <3>2. PICK c, d, e \in Nat : c = f[l[i - 1]] /\ d = f[l[i]] /\ e = f[s]
      <4>1. i - 1 \in 1..N
        BY <1>2, <1>3, SMT
      <4> QED
        BY <1>1, <1>3, <1>4, <2>2, <4>1, Zenon
    <3>3. d = c + a
      BY <1>1, <1>2, <3>1, <3>2, ZenonT(60) DEF Encodes
    <3>4. e = d + b
      BY <1>4, <2>2, <1>2, <1>1, <3>1, <3>2, SMT DEF Encodes
    <3>5. n.Timestamp[s] = b + a /\ e <= Longest
      BY <1>1, <1>2, <1>3, <1>4, <2>2, <3>1, <3>2, Zenon
    <3>6. b + a <= Longest
      BY <3>3, <3>4, <3>5, LongestType, SMT
    <3> QED
      BY <3>5, <3>6, Zenon
  <2> QED
    BY <1>2, <2>1, <2>2, Zenon
<1>13. ASSUME NEW j \in 2..Len(q) PROVE ~n.IsRunning[q[j]]
  <2>1. j \in 1..(N - 1) /\ j \in 2..N /\ j + 1 \in 2..N /\ (j < i \/ j >= i)
    BY <1>2, <1>3, <1>5, SMT
  <2> QED
    BY <1>2, <1>5, <2>1, Zenon DEF Sound
<1>14. ASSUME NEW s \in Listed(q) PROVE g[s] <= Longest
  BY <1>1, <1>7, Zenon DEF Stopped
<1> HIDE DEF g
<1>15. Counts(m, n, g)
  BY <1>1, <1>2, <1>7, <1>9, <1>12, <1>13, <1>14, Zenon DEF Counts
<1> QED
  BY <1>11, <1>15, KeptHeadFollows, Zenon DEF g

(* A timer behind the head is stopped. *)
LEMMA StopBehind ==
    ASSUME NEW m, Sound(m), m.lead = 0, m.list # <<>>, NEW i \in 2..Len(m.list), NEW n, n = StopWithin(m, i)
    PROVE  Follows(m, n, Stopped(m.list, Left(m), m.list[i]))
<1> DEFINE l == m.list
           ts == m.Timestamp
           N == Len(l)
<1>1. m \in Memory /\ l \in Seq(Timer) /\ ts \in [Timer -> Nat] /\ Distinct(l)
  BY SoundEncodes, Zenon
<1>2. N \in Nat /\ DOMAIN l = 1..N /\ \A j \in 1..N : l[j] \in Timer
  BY <1>1, ListPlaces, SMT
<1>3. i \in 1..N /\ i \in 2..N /\ (i < N => i # N) /\ (i # N => i < N /\ i + 1 \in 1..N)
  BY <1>2, SMT
<1>4. PICK q : q = SubSeq(l, 1, i - 1) \o SubSeq(l, i + 1, N)
  BY Zenon
<1>5. Removed(l, i, q) /\ q \in Seq(Timer)
  <2>1. l \in Seq(Timer) /\ i \in 1..Len(l)
    BY <1>1, <1>3, Zenon
  <2>2. Removed(l, i, q)
    BY <1>4, <2>1, RemovedWithin, SMT
  <2> QED
    BY <2>2, Zenon DEF Removed
<1>6. PICK c : c = [m EXCEPT !.list = q]
  BY Zenon
<1>7. /\ c \in Memory /\ c.list = q /\ c.Timestamp = ts /\ c.IsRunning = m.IsRunning
      /\ c.elapsed = m.elapsed /\ c.alarm = m.alarm /\ c.lead = m.lead
  BY <1>1, <1>5, UpdateList, <1>6, SMT DEF Updated
<1>8. n = IF i = N THEN c ELSE [c EXCEPT !.Timestamp[l[i + 1]] = c.Timestamp[l[i + 1]] + ts[l[i]]]
  BY <1>4, <1>6, Zenon DEF StopWithin
<1>9. CASE i = N
  BY <1>3, <1>5, <1>7, <1>8, <1>9, CutWithinFollows, Zenon DEF CutWithin
<1>10. CASE i # N
  <2>1. PICK x \in Timer : x = l[i + 1]
    BY <1>2, <1>3, <1>10, Zenon
  <2>2. PICK a, b \in Nat : a = ts[l[i]] /\ b = ts[x]
    BY <1>1, <1>2, <1>3, Zenon
  <2>3. PICK z \in Nat : z = b + a
    BY SMT
  <2>4. n = [c EXCEPT !.Timestamp[x] = z]
    BY <1>7, <1>8, <1>10, <2>1, <2>2, <2>3, Zenon
  <2>5. Updated(c, [c EXCEPT !.Timestamp[x] = z], c.list, [c.Timestamp EXCEPT ![x] = z], c.IsRunning)
    BY <1>7, UpdateTime, Zenon
  <2>6. /\ n \in Memory /\ n.list = q /\ n.Timestamp = [ts EXCEPT ![x] = z] /\ n.IsRunning = m.IsRunning
        /\ n.elapsed = m.elapsed /\ n.alarm = m.alarm /\ n.lead = m.lead
    BY <1>7, <2>4, <2>5, Zenon DEF Updated
  <2>7. n.Timestamp[x] = ts[x] + ts[l[i]] /\ \A s \in Timer : s # x => n.Timestamp[s] = ts[s]
    BY <1>1, <2>2, <2>3, <2>6, Zenon
  <2>8. CutWithin(m, n, i)
    BY <1>3, <1>5, <1>10, <2>1, <2>6, <2>7, ZenonT(60) DEF CutWithin
  <2> QED
    BY <2>8, CutWithinFollows, Zenon
<1> QED
  BY <1>9, <1>10, Zenon

LEMMA NothingFollows ==
    ASSUME NEW m, Sound(m), m.lead = 0
    PROVE  Follows(m, m, Left(m))
BY SoundEncodes, SMT DEF Encodes, Follows

(* What TimerStart and TimerStop promise of the times left. *)
AfterStart(m, t) ==
    IF t \in Listed(m.list) THEN Left(m) ELSE Started(m.list, Left(m), t, ReloadValue[t])

LEMMA StartFollows ==
    ASSUME NEW m, Sound(m), m.lead = 0, NEW t \in Timer, ReloadValue[t] \in 1..Longest
    PROVE  Follows(m, TimerStart(m, t), AfterStart(m, t))
<1>1. CASE t \in Listed(m.list)
  BY <1>1, NothingFollows, SMT DEF TimerStart, AfterStart
<1>2. CASE t \notin Listed(m.list)
  BY <1>2, StartNewHead, StartWithin, SMT DEF AfterStart
<1> QED
  BY <1>1, <1>2, Zenon

LEMMA StopFollows ==
    ASSUME NEW m, Sound(m), m.lead = 0, NEW t \in Timer
    PROVE  Follows(m, TimerStop(m, t), Stopped(m.list, Left(m), t))
<1>1. m.list \in Seq(Timer) /\ DOMAIN Left(m) = Listed(m.list) /\ Left(m) \in [Listed(m.list) -> Nat]
  BY SoundEncodes, Zenon DEF Encodes
<1>2. CASE t \notin Listed(m.list)
  BY <1>2, <1>1, NothingFollows, SMT DEF TimerStop, Stopped
<1>3. CASE t \in Listed(m.list)
  <2>1. /\ m.list # <<>> /\ Head(m.list) = m.list[1] /\ DOMAIN m.list = 1..Len(m.list) /\ Len(m.list) \in Nat
        /\ \E i \in 1..Len(m.list) : m.list[i] = t
    BY <1>1, <1>3, ListPlaces, Zenon
  <2>2. CASE t = m.list[1]
    BY <1>3, <2>1, <2>2, StopOnlyTimer, StopRunningHead, StopWaitingHead, SMT DEF TimerStop
  <2>3. CASE t # m.list[1]
    BY <2>1, <1>3, <2>3, StopBehind, SMT DEF TimerStop
  <2> QED
    BY <2>2, <2>3, Zenon
<1> QED
  BY <1>2, <1>3, Zenon

(* The end of TimerIrqHandler starts the head. *)
LEMMA EndSetsAlarm ==
    ASSUME NEW m, Sound(m), m.list # <<>>, ~m.IsRunning[m.list[1]],
           NEW n, n = TimerSetTimeout([m EXCEPT !.IsRunning[m.list[1]] = TRUE])
    PROVE  /\ Sound(n) /\ n.list = m.list /\ Runs(n) /\ n.elapsed = 0
           /\ \A t \in Listed(n.list) : n.lead <= Left(m)[t] /\ Left(n)[t] = Left(m)[t] - n.lead
           /\ m.Timestamp[m.list[1]] > 0 => OnTime(n)
<1>1. /\ m \in Memory /\ m.list \in Seq(Timer) /\ Distinct(m.list)
      /\ Encodes(m.list, m.Timestamp, HeadLeft(m), Left(m)) /\ HeadLeft(m) = Remaining(m)
      /\ \A t \in Listed(m.list) : Left(m)[t] \in Nat /\ Left(m)[t] <= Longest
  BY SoundEncodes, Zenon
<1>2. /\ Head(m.list) = m.list[1] /\ 1 \in 1..Len(m.list) /\ Len(m.list) \in Nat /\ DOMAIN m.list = 1..Len(m.list)
      /\ \A i \in 1..Len(m.list) : m.list[i] \in Timer
  BY <1>1, ListPlaces, Zenon
<1>3. PICK h \in Timer : h = m.list[1]
  BY <1>2, Zenon
<1>4. PICK b \in BOOLEAN : b = TRUE
  BY Zenon
<1>5. PICK p : p = [m EXCEPT !.IsRunning[h] = b]
  BY Zenon
<1>6. Updated(m, p, m.list, m.Timestamp, [m.IsRunning EXCEPT ![h] = b])
  BY <1>1, <1>5, UpdateFlag, Zenon
<1>7. /\ p \in Memory /\ p.list = m.list /\ p.Timestamp = m.Timestamp
      /\ p.IsRunning = [m.IsRunning EXCEPT ![h] = TRUE]
  BY <1>4, <1>6, Zenon DEF Updated
<1>8. p.IsRunning[h] /\ \A s \in Timer : s # h => p.IsRunning[s] = m.IsRunning[s]
  BY <1>1, <1>7, MemoryFields, Zenon
<1>9. ASSUME NEW i \in 2..Len(m.list) PROVE ~p.IsRunning[m.list[i]]
  BY <1>2, <1>1, <1>3, <1>8, SMT DEF Distinct, Sound
<1>10. Remaining(m) = m.Timestamp[m.list[1]]
  BY <1>2, Zenon DEF Remaining
<1>11. Ready(p, Left(m))
  BY <1>1, <1>10, <1>7, <1>3, <1>8, <1>9, SMTT(60) DEF Sound, Ready
<1>12. AlarmSet(p, n, Left(m))
  BY <1>3, <1>4, <1>5, <1>11, SetTimeoutSound, Zenon
<1> QED
  BY <1>7, <1>12, Zenon DEF AlarmSet

-----------------------------------------------------------------------------
(***************************************************************************)
(* The interrupt handler and the passing of time.                          *)
(***************************************************************************)
(* TimerIrqHandler charges the head what has elapsed. *)
Charged(m, n) ==
    /\ n \in Memory /\ n.list = m.list /\ m.list # <<>>
    /\ n.Timestamp = [m.Timestamp EXCEPT ![m.list[1]] = Remaining(m)]
    /\ n.IsRunning = [m.IsRunning EXCEPT ![m.list[1]] = FALSE]
    /\ n.elapsed = m.elapsed /\ n.alarm = m.alarm

LEMMA ChargedSound ==
    ASSUME NEW m, Sound(m), NEW n, Charged(m, n)
    PROVE  Sound(n) /\ Left(n) = Left(m) /\ ~Runs(n)
<1>1. /\ n \in Memory /\ n.list = m.list /\ m.list # <<>>
      /\ n.Timestamp = [m.Timestamp EXCEPT ![m.list[1]] = Remaining(m)]
      /\ n.IsRunning = [m.IsRunning EXCEPT ![m.list[1]] = FALSE]
      /\ n.elapsed = m.elapsed /\ n.alarm = m.alarm
  BY Zenon DEF Charged
<1>2. /\ m \in Memory /\ m.list \in Seq(Timer) /\ m.Timestamp \in [Timer -> Nat] /\ Distinct(m.list)
      /\ Encodes(m.list, m.Timestamp, Remaining(m), Left(m)) /\ Remaining(m) <= Longest
      /\ \A t \in Listed(m.list) : Left(m)[t] \in Nat /\ Left(m)[t] <= Longest
  BY <1>1, SoundEncodes, SMT
<1>3. /\ Len(m.list) \in Nat /\ DOMAIN m.list = 1..Len(m.list) /\ \A i \in 1..Len(m.list) : m.list[i] \in Timer
      /\ Head(m.list) = m.list[1] /\ 1 \in 1..Len(m.list)
  BY <1>1, <1>2, ListPlaces, Zenon
<1>4. PICK h \in Timer : h = m.list[1]
  BY <1>3, Zenon
<1>5. n.Timestamp[h] = Remaining(m) /\ ~n.IsRunning[h]
  BY <1>2, MemoryFields, <1>1, <1>4, SMT
<1>6. \A s \in Timer : s # h => n.Timestamp[s] = m.Timestamp[s] /\ n.IsRunning[s] = m.IsRunning[s]
  BY <1>2, MemoryFields, <1>1, <1>4, SMT
<1>7. Remaining(n) = Remaining(m)
  BY <1>1, <1>3, <1>4, <1>5, Zenon DEF Remaining
<1>8. ASSUME NEW i \in 2..Len(m.list) PROVE m.list[i] \in Timer /\ m.list[i] # h
  <2>1. i \in 1..Len(m.list) /\ i # 1
    BY <1>3, SMT
  <2> QED
    BY <1>2, <1>3, <1>4, <2>1, Zenon DEF Distinct
<1>9. Left(n) = Left(m)
  <2>1. \A i \in 2..Len(m.list) : n.Timestamp[m.list[i]] = m.Timestamp[m.list[i]]
    BY <1>6, <1>8, Zenon
  <2>2. Encodes(m.list, n.Timestamp, Remaining(m), Left(m))
    BY <1>2, <2>1, EncodesSame, Zenon
  <2>3. Encodes(n.list, n.Timestamp, Remaining(n), Left(m))
    BY <1>1, <1>7, <2>2, Zenon
  <2> QED
    BY <1>1, <2>3, LeftUnique, Zenon
<1>10. \A i \in 2..Len(m.list) : ~n.IsRunning[m.list[i]]
  BY <1>6, <1>8, Zenon DEF Sound
<1>11. \A s \in Timer : n.Timestamp[s] <= Longest
  BY <1>2, <1>5, <1>6, Zenon DEF Sound
<1>12. Sound(n)
  BY <1>1, <1>2, <1>9, <1>10, <1>11, SMT DEF Sound
<1>13. ~Runs(n)
  BY <1>1, <1>4, <1>5, Zenon DEF Runs
<1> QED
  BY <1>9, <1>12, <1>13, Zenon

(* A tick takes one from what is left of a running head, if anything is    *)
(* left of it, and with it from every time left.                           *)
Ticks(m, n) ==
    /\ n \in Memory /\ n.list = m.list /\ n.Timestamp = m.Timestamp /\ n.IsRunning = m.IsRunning
    /\ n.elapsed = IF Runs(m) THEN m.elapsed + 1 ELSE 0
    /\ n.elapsed <= Word - 1 /\ n.alarm <= Word - 1

PassedBy(m, n, d) ==
    /\ d \in {0, 1} /\ Sound(n) /\ (Runs(n) <=> Runs(m))
    /\ \A t \in Listed(m.list) : d <= Left(m)[t] /\ Left(n)[t] = Left(m)[t] - d
    /\ Runs(m) /\ m.elapsed < m.Timestamp[m.list[1]] => d = 1

LEMMA TicksPass ==
    ASSUME NEW m, Sound(m), NEW n, Ticks(m, n)
    PROVE  \E d : PassedBy(m, n, d)
<1> DEFINE l == m.list
           ts == m.Timestamp
           f == Left(m)
<1>1. /\ m \in Memory /\ l \in Seq(Timer) /\ ts \in [Timer -> Nat] /\ Distinct(l)
      /\ Encodes(l, ts, HeadLeft(m), f) /\ HeadLeft(m) \in Nat
      /\ \A t \in Listed(l) : f[t] \in Nat /\ f[t] <= Longest
      /\ l # <<>> => f[l[1]] = HeadLeft(m) /\ HeadLeft(m) = Remaining(m)
  BY SoundEncodes, Zenon
<1>2. /\ n \in Memory /\ n.list = l /\ n.Timestamp = ts /\ n.IsRunning = m.IsRunning
      /\ n.elapsed = IF Runs(m) THEN m.elapsed + 1 ELSE 0
      /\ n.elapsed <= Word - 1 /\ n.alarm <= Word - 1
  BY Zenon DEF Ticks
<1>3. /\ Len(l) \in Nat /\ (l # <<>> => Head(l) = l[1] /\ 1 \in 1..Len(l))
      /\ \A i \in 1..Len(l) : l[i] \in Timer /\ l[i] \in Listed(l)
      /\ \A t \in Listed(l) : \E i \in 1..Len(l) : l[i] = t
  BY <1>1, ListPlaces, Zenon
<1>4. Runs(n) <=> Runs(m)
  BY <1>2, Zenon DEF Runs
<1>5. ASSUME Left(n) \in [Listed(l) -> Nat], \A t \in Listed(l) : Left(n)[t] <= f[t]
      PROVE  Sound(n)
  <2>1. ASSUME NEW t \in Listed(l) PROVE Left(n)[t] <= Longest
    BY <1>1, <1>5, LongestType, SMT
  <2>2. /\ \A t \in Timer : ts[t] <= Longest
        /\ \A i \in 2..Len(l) : ~m.IsRunning[l[i]]
    BY Zenon DEF Sound
  <2> QED
    BY <1>1, <1>2, <2>1, <2>2, Zenon DEF Sound
<1>6. CASE ~Runs(m)
  <2>1. l # <<>> => Remaining(n) = Remaining(m)
    BY <1>2, <1>3, <1>6, Zenon DEF Remaining, Runs
  <2>2. Encodes(n.list, n.Timestamp, Remaining(n), f)
    BY <1>1, <1>2, <2>1, Zenon DEF Encodes
  <2>3. Left(n) = f
    BY <1>2, <2>2, LeftUnique, Zenon
  <2>4. f \in [Listed(l) -> Nat]
    BY <1>1, Zenon DEF Encodes
  <2>5. ASSUME NEW t \in Listed(l) PROVE f[t] <= f[t] /\ 0 <= f[t] /\ f[t] = f[t] - 0
    BY <1>1, SMT
  <2>6. Sound(n)
    BY <1>5, <2>3, <2>4, <2>5, Zenon
  <2>7. PassedBy(m, n, 0)
    BY <1>4, <1>6, <2>3, <2>5, <2>6, Zenon DEF PassedBy
  <2> QED
    BY <2>7, Zenon
<1>7. CASE Runs(m)
  <2>1. l # <<>> /\ m.IsRunning[l[1]] /\ Head(l) = l[1] /\ 1 \in 1..Len(l)
    BY <1>3, <1>7, Zenon DEF Runs
  <2>2. PICK e \in Nat : e = m.elapsed
    BY <1>1, MemoryFields, Zenon
  <2>3. PICK x \in Nat : x = ts[l[1]]
    BY <1>1, <1>3, <2>1, Zenon
  <2>4. PICK r \in Nat : r = Remaining(m)
    BY <1>1, <2>1, Zenon
  <2>5. PICK w : w = Remaining(n)
    BY Zenon
  <2>6. r = IF e > x THEN 0 ELSE x - e
    BY <2>1, <2>2, <2>3, <2>4, ZenonT(60) DEF Remaining
  <2>7. w = IF e + 1 > x THEN 0 ELSE x - (e + 1)
    BY <1>2, <1>7, <2>2, <2>1, <2>3, <2>5, SMTT(60) DEF Remaining
  <2>8. PICK d \in {0, 1} : d <= r /\ w = r - d /\ w \in Nat /\ (e < x => d = 1)
    BY <2>6, <2>7, SMT
  <2>9. f[l[1]] = r
    BY <1>1, <2>1, <2>4, Zenon
  <2>10. ASSUME NEW t \in Listed(l) PROVE d <= f[t] /\ f[t] - d \in Nat /\ f[t] - d <= f[t]
    <3>1. PICK i \in 1..Len(l) : l[i] = t
      BY <1>3, Zenon
    <3>2. 1 \in 1..i
      BY <1>3, SMT
    <3>3. f[l[1]] <= f[l[i]]
      BY <1>1, <3>2, EncodesOrdered, Zenon
    <3>4. PICK y \in Nat : y = f[t]
      BY <1>1, Zenon
    <3>5. r <= y
      BY <2>9, <3>1, <3>3, <3>4, Zenon
    <3>6. d <= y /\ y - d \in Nat /\ y - d <= y
      BY <2>8, <3>5, SMT
    <3> QED
      BY <3>4, <3>6, Zenon
  <2> DEFINE g == [t \in Listed(l) |-> f[t] - d]
  <2>11. g \in [Listed(l) -> Nat] /\ \A t \in Listed(l) : g[t] = f[t] - d
    BY <2>10, Zenon
  <2> HIDE DEF g
  <2>12. ASSUME NEW i \in 2..Len(l) PROVE g[l[i]] = g[l[i - 1]] + ts[l[i]]
    <3>1. i \in 1..Len(l) /\ i - 1 \in 1..Len(l)
      BY <1>3, SMT
    <3>2. PICK a, b, c \in Nat : a = f[l[i]] /\ b = f[l[i - 1]] /\ c = ts[l[i]]
      BY <1>1, <1>3, <3>1, Zenon
    <3>3. a = b + c
      BY <1>1, <3>2, Zenon DEF Encodes
    <3>4. a - d = (b - d) + c
      BY <2>8, <3>3, SMT
    <3>5. g[l[i]] = a - d /\ g[l[i - 1]] = b - d
      BY <1>3, <2>11, <3>1, <3>2, Zenon
    <3> QED
      BY <3>2, <3>4, <3>5, Zenon
  <2>13. g[l[1]] = w
    BY <1>3, <2>1, <2>8, <2>9, <2>11, Zenon
  <2>14. Encodes(l, ts, w, g)
    BY <2>11, <2>12, <2>13, Zenon DEF Encodes
  <2>15. Left(n) = g
    BY <1>2, <2>5, <2>14, LeftUnique, Zenon
  <2>16. Sound(n)
    BY <1>5, <2>10, <2>11, <2>15, Zenon
  <2>17. PassedBy(m, n, d)
    BY <1>4, <2>2, <2>3, <2>8, <2>10, <2>11, <2>15, <2>16, Zenon DEF PassedBy
  <2> QED
    BY <2>17, Zenon
<1> QED
  BY <1>6, <1>7, Zenon

=============================================================================
