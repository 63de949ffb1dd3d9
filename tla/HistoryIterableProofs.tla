------------------------ MODULE HistoryIterableProofs ------------------------
(***************************************************************************)
(* Theorems about HistoryIterable, for every stream of messages, queue     *)
(* limit and consumer.  Aligned(k) is the induction's idea: the first k    *)
(* calls of next() have the first k events of the stream, the queue holds  *)
(* the events that follow, and the calls that follow are parked in order   *)
(* or have been told of the end.                                           *)
(***************************************************************************)
EXTENDS HistoryAsFeed, TLAPS

Aligned(k) ==
  /\ k <= Len(answers) /\ k + Len(queue) <= Len(given)
  /\ \A i \in 1..k : answers[i] = given[i]
  /\ \A i \in 1..Len(answers) : i > k => answers[i] \in {Parked, Done, Failed}
  /\ \A j \in 1..Len(queue) : queue[j] = given[k + j]
  /\ queue # <<>> /\ ~pendingError => k = Len(answers)

\* The parked calls.
Parking(k) ==
  /\ done => resolvers = <<>> /\ \A i \in 1..Len(answers) : answers[i] # Parked
  /\ ~done =>
       /\ ~pendingError
       /\ Len(resolvers) = Len(answers) - k
       /\ \A j \in 1..Len(resolvers) : resolvers[j] = k + j
       /\ \A i \in 1..Len(answers) : i > k => answers[i] = Parked

\* How an iterable ends.
Ending(k) ==
  /\ ~done => k + Len(queue) = Len(given)
  /\ done /\ cut = {} /\ ~pendingError =>
       handled = Len(Messages) /\ k + Len(queue) = Len(given)
  /\ (\E i \in 1..Len(answers) : answers[i] = Done) => done /\ ~pendingError /\ queue = <<>>
  /\ sock = "closing" => done
  /\ sock = "connecting" => received = 0
  /\ pendingError => sock \in {"closing", "closed"}

HInv == TypeOK /\ \E k \in Nat : Aligned(k) /\ Parking(k) /\ Ending(k)

\* What the proofs use of the marks: no event is one of them.
LEMMA Marks ==
  /\ Parked \notin Events /\ Done \notin Events /\ Failed \notin Events
  /\ Parked # Done /\ Parked # Failed /\ Done # Failed
BY IterableAssumption DEF Parked, Done, Failed

\* Nothing has been given, asked or parked in an initial state.
LEMMA InitHInv == Init => HInv
<1> SUFFICES ASSUME Init PROVE HInv
  OBVIOUS
<1>1. TypeOK
  <2>1. Messages \in Seq(Seq(Events)) /\ Len(Messages) \in Nat
    BY IterableAssumption
  <2>2. received \in 0..Len(Messages) /\ handled \in 0..received /\ faults \in 0..MaxFaults
    BY <2>1, IterableAssumption DEF Init
  <2>3. /\ queue \in Seq(Events) /\ Len(queue) <= MaxQueue
        /\ resolvers \in Seq(Nat) /\ answers \in Seq(Events \cup {Parked, Done, Failed})
        /\ given \in Seq(Events)
    BY IterableAssumption DEF Init
  <2>4. done \in BOOLEAN /\ pendingError \in BOOLEAN /\ cut = {}
    BY DEF Init
  <2>5. ready \in BOOLEAN
    BY Zenon DEF Init
  <2>6. QED
    BY <2>2, <2>3, <2>4, <2>5 DEF Init, TypeOK
<1>2. Aligned(0) /\ Parking(0) /\ Ending(0)
  <2>1. queue = <<>> /\ answers = <<>> /\ resolvers = <<>> /\ given = <<>>
    BY DEF Init
  <2>2. ~done /\ ~pendingError /\ sock = "connecting" /\ received = 0
    BY DEF Init
  <2>3. QED
    BY <2>1, <2>2 DEF Aligned, Parking, Ending
<1>3. QED
  BY <1>1, <1>2 DEF HInv

-----------------------------------------------------------------------------
(* The operations.  Each lemma says what the operation does to a state     *)
(* where k events have been yielded.                                       *)

\* fail and finish, when they end the iterable with the mark a.
LEMMA ReleaseAligned ==
  ASSUME TypeOK, NEW k \in Nat, Aligned(k), Parking(k), ~done,
         NEW a \in {Done, Failed},
         done', answers' = Release(a), resolvers' = <<>>,
         UNCHANGED <<queue, given>>
  PROVE  /\ Aligned(k)' /\ Parking(k)'
         /\ answers' \in Seq(Events \cup {Parked, Done, Failed})
         /\ \A i \in 1..Len(answers') : answers'[i] = Done => a = Done /\ queue = <<>>
<1>1. answers \in Seq(Events \cup {Parked, Done, Failed}) /\ Len(answers) \in Nat
  BY DEF TypeOK
<1>2. /\ DOMAIN answers = 1..Len(answers)
      /\ answers' = [i \in 1..Len(answers) |-> IF IsParked(i) THEN a ELSE answers[i]]
  BY <1>1 DEF Release
<1>3. answers' \in Seq(Events \cup {Parked, Done, Failed}) /\ Len(answers') = Len(answers)
  BY <1>1, <1>2
<1>4. \A i \in 1..Len(answers) : IsParked(i) <=> i > k
  <2> TAKE i \in 1..Len(answers)
  <2>1. resolvers \in Seq(Nat) /\ DOMAIN resolvers = 1..Len(resolvers) /\ Len(resolvers) \in Nat
    BY DEF TypeOK
  <2>2. Len(resolvers) = Len(answers) - k /\ \A j \in 1..Len(resolvers) : resolvers[j] = k + j
    BY DEF Parking
  <2>3. ASSUME i > k PROVE IsParked(i)
    <3>1. i - k \in 1..Len(resolvers) /\ resolvers[i - k] = i
      BY <1>1, <2>2, <2>3
    <3>2. QED
      BY <2>1, <3>1 DEF IsParked
  <2>4. ASSUME IsParked(i) PROVE i > k
    BY <2>1, <2>2, <2>4 DEF IsParked
  <2>5. QED
    BY <2>3, <2>4
<1>5. \A i \in 1..Len(answers) : answers'[i] = IF i > k THEN a ELSE answers[i]
  BY <1>2, <1>4
<1>6. Aligned(k)'
  BY <1>1, <1>3, <1>5, Marks DEF Aligned, Parking
<1>7. Parking(k)'
  <2>1. \A i \in 1..Len(answers) : i <= k => answers[i] \in Events
    BY <1>1 DEF Aligned, TypeOK
  <2>2. QED
    BY <1>3, <1>5, <2>1, Marks DEF Parking
<1>8. \A i \in 1..Len(answers') : answers'[i] = Done => a = Done /\ queue = <<>>
  <2>1. \A i \in 1..Len(answers) : i <= k => answers[i] \in Events
    BY <1>1 DEF Aligned, TypeOK
  <2>2. ASSUME NEW i \in 1..Len(answers), answers'[i] = Done PROVE i > k /\ a = Done
    BY <1>5, <2>1, <2>2, Marks
  <2>3. QED
    BY <1>3, <2>2 DEF Aligned, Parking
<1>9. QED
  BY <1>3, <1>6, <1>7, <1>8

\* Finish, with or without a change: what it leaves of the calls.
LEMMA FinishAligned ==
  ASSUME TypeOK, NEW k \in Nat, Aligned(k), Parking(k), Ending(k),
         Finish, UNCHANGED <<queue, given, pendingError>>
  PROVE  /\ Aligned(k)' /\ Parking(k)' /\ done'
         /\ answers' \in Seq(Events \cup {Parked, Done, Failed})
         /\ resolvers' \in Seq(Nat)
         /\ (\E i \in 1..Len(answers') : answers'[i] = Done) => queue = <<>> /\ ~pendingError
<1>1. CASE done
  BY <1>1 DEF Finish, TypeOK, Aligned, Parking, Ending
<1>2. CASE ~done
  <2>1. done' /\ answers' = Release(Done) /\ resolvers' = <<>>
    BY <1>2 DEF Finish
  <2>2. resolvers' \in Seq(Nat) /\ ~pendingError
    BY <1>2, <2>1 DEF Parking
  <2>3. QED
    BY <1>2, <2>1, <2>2, ReleaseAligned
<1>3. QED
  BY <1>1, <1>2

\* Fail, the same.
LEMMA FailAligned ==
  ASSUME TypeOK, NEW k \in Nat, Aligned(k), Parking(k), Ending(k),
         Fail, UNCHANGED <<queue, given>>
  PROVE  /\ Aligned(k)' /\ Parking(k)' /\ done' /\ pendingError' \in BOOLEAN
         /\ ~pendingError' => done /\ ~pendingError
         /\ answers' \in Seq(Events \cup {Parked, Done, Failed})
         /\ resolvers' \in Seq(Nat)
         /\ (\E i \in 1..Len(answers') : answers'[i] = Done) => queue = <<>> /\ ~pendingError'
<1>1. CASE done
  BY <1>1 DEF Fail, TypeOK, Aligned, Parking, Ending
<1>2. CASE ~done
  <2>1. done' /\ pendingError' = TRUE /\ answers' = Release(Failed) /\ resolvers' = <<>>
    BY <1>2 DEF Fail
  <2>2. resolvers' \in Seq(Nat)
    BY <2>1
  <2>3. /\ Aligned(k)' /\ Parking(k)'
        /\ answers' \in Seq(Events \cup {Parked, Done, Failed})
        /\ \A i \in 1..Len(answers') : answers'[i] = Done => Failed = Done
    BY <1>2, <2>1, ReleaseAligned
  <2>4. QED
    BY <2>1, <2>2, <2>3, Marks
<1>3. QED
  BY <1>1, <1>2

\* Sequences that are cut and joined.
LEMMA Suffix ==
  ASSUME NEW S, NEW s \in Seq(S), NEW i \in Nat, i <= Len(s)
  PROVE  /\ SubSeq(s, i + 1, Len(s)) \in Seq(S)
         /\ Len(SubSeq(s, i + 1, Len(s))) = Len(s) - i
         /\ \A j \in 1..(Len(s) - i) : SubSeq(s, i + 1, Len(s))[j] = s[i + j]
OBVIOUS

\* What a prefix of a sequence holds, and where.
LEMMA Prefix ==
  ASSUME NEW S, NEW s \in Seq(S), NEW i \in Nat, i <= Len(s)
  PROVE  /\ SubSeq(s, 1, i) \in Seq(S) /\ Len(SubSeq(s, 1, i)) = i
         /\ \A j \in 1..i : SubSeq(s, 1, i)[j] = s[j]
OBVIOUS

\* What the concatenation of two sequences holds, and where.
LEMMA Joined ==
  ASSUME NEW S, NEW s \in Seq(S), NEW t \in Seq(S)
  PROVE  /\ s \o t \in Seq(S) /\ Len(s \o t) = Len(s) + Len(t)
         /\ \A j \in 1..Len(s) : (s \o t)[j] = s[j]
         /\ \A j \in 1..Len(t) : (s \o t)[Len(s) + j] = t[j]
OBVIOUS

\* The lesser of two numbers.
LEMMA LeastOf ==
  ASSUME NEW a \in Nat, NEW b \in Nat
  PROVE  /\ Least(a, b) \in Nat /\ Least(a, b) <= a /\ Least(a, b) <= b
         /\ Least(a, b) = a \/ Least(a, b) = b
BY DEF Least

\* push, of the events of a message that has just been handled: the parked
\* calls it serves are the next ones, and what it queues follows on.
LEMMA PushAligned ==
  ASSUME TypeOK, NEW k \in Nat, Aligned(k), Parking(k), Ending(k), ~done,
         NEW es \in Seq(Events), Push(es), given' = given \o es,
         sock # "connecting"
  PROVE  /\ queue' \in Seq(Events) /\ Len(queue') <= MaxQueue
         /\ resolvers' \in Seq(Nat)
         /\ answers' \in Seq(Events \cup {Parked, Done, Failed})
         /\ \A i \in 1..Len(answers') : answers'[i] # Done
         /\ done' = pendingError'
         /\ IF done' THEN sock' \in {"closing", "closed"} ELSE sock' = sock
         /\ \E n \in Nat :
              Aligned(n)' /\ Parking(n)' /\ (~done' => n + Len(queue') = Len(given'))
<1> DEFINE m == Least(Len(resolvers), Len(es))
           rest == SubSeq(es, m + 1, Len(es))
           q == Least(Len(rest), Room)
           room == SubSeq(rest, 1, q)
<1> HIDE DEF m, rest, q, room
<1>1. /\ queue \in Seq(Events) /\ resolvers \in Seq(Nat) /\ given \in Seq(Events)
      /\ answers \in Seq(Events \cup {Parked, Done, Failed})
      /\ Len(queue) <= MaxQueue
      /\ sock \in {"connecting", "open", "closing", "closed"}
      /\ done \in BOOLEAN /\ pendingError \in BOOLEAN
  BY DEF TypeOK
<1>2. /\ Len(queue) \in Nat /\ Len(resolvers) \in Nat /\ Len(given) \in Nat
      /\ Len(answers) \in Nat /\ Len(es) \in Nat /\ MaxQueue \in Nat
  BY <1>1, IterableAssumption
<1>3. Len(resolvers) = Len(answers) - k /\ k + Len(queue) = Len(given) /\ ~pendingError
  BY DEF Parking, Ending
<1>4. \A j \in 1..Len(resolvers) : resolvers[j] = k + j
  BY DEF Parking
<1>5. \A i \in 1..Len(answers) : i > k => answers[i] = Parked
  BY DEF Parking
<1>6. k <= Len(answers) /\ (Len(queue) > 0 => k = Len(answers))
  BY <1>1, <1>2, <1>3 DEF Aligned
<1>7. \A i \in 1..k : answers[i] = given[i]
  BY DEF Aligned
<1>8. \A j \in 1..Len(queue) : queue[j] = given[k + j]
  BY DEF Aligned
\* The events served, and those that are left.
<1>9. /\ m \in Nat /\ m <= Len(resolvers) /\ m <= Len(es)
      /\ m = Len(resolvers) \/ m = Len(es)
  BY <1>2, LeastOf DEF m
<1>10. Len(queue) > 0 => m = 0
  BY <1>2, <1>3, <1>6, <1>9
<1>11. /\ rest \in Seq(Events) /\ Len(rest) = Len(es) - m
       /\ \A j \in 1..(Len(es) - m) : rest[j] = es[m + j]
  BY <1>9, Suffix DEF rest
<1>12. Room = MaxQueue - Len(queue) /\ Room \in Nat
  BY <1>1, <1>2 DEF Room
<1>13. Len(rest) \in Nat
  BY <1>2, <1>9, <1>11
<1>14. q \in Nat /\ q <= Len(rest) /\ q <= Room /\ (q = Len(rest) \/ q = Room)
  BY <1>12, <1>13, LeastOf DEF q
<1>15. /\ room \in Seq(Events) /\ Len(room) = q
       /\ \A j \in 1..q : room[j] = rest[j]
  BY <1>11, <1>14, Prefix DEF room
<1>16. \A j \in 1..q : room[j] = es[m + j]
  <2> TAKE j \in 1..q
  <2>1. j \in 1..(Len(es) - m)
    BY <1>2, <1>9, <1>11, <1>14
  <2>2. QED
    BY <1>11, <1>15, <2>1
\* The state that follows.
<1>17. queue' = queue \o room /\ resolvers' = SubSeq(resolvers, m + 1, Len(resolvers))
  BY DEF Push, m, rest, q, room
<1>18. /\ queue' \in Seq(Events) /\ Len(queue') = Len(queue) + q
       /\ \A j \in 1..Len(queue) : queue'[j] = queue[j]
       /\ \A j \in 1..q : queue'[Len(queue) + j] = room[j]
  BY <1>1, <1>15, <1>17, Joined
<1>19. /\ given' \in Seq(Events) /\ Len(given') = Len(given) + Len(es)
       /\ \A j \in 1..Len(given) : given'[j] = given[j]
       /\ \A j \in 1..Len(es) : given'[Len(given) + j] = es[j]
  BY <1>1, Joined
<1>20. /\ resolvers' \in Seq(Nat) /\ Len(resolvers') = Len(resolvers) - m
       /\ \A j \in 1..(Len(resolvers) - m) : resolvers'[j] = resolvers[m + j]
  BY <1>1, <1>9, <1>17, Suffix
<1>21. /\ answers' \in Seq(Events \cup {Parked, Done, Failed}) /\ Len(answers') = Len(answers)
       /\ \A i \in 1..Len(answers) : i > k /\ i <= k + m => answers'[i] = es[i - k]
       /\ \A i \in 1..Len(answers) : ~(i > k /\ i <= k + m) => answers'[i] = answers[i]
  <2> DEFINE hit(i) == \E j \in 1..m : resolvers[j] = i
             at(i) == CHOOSE j \in 1..m : resolvers[j] = i
  <2>1. answers' = [i \in 1..Len(answers) |-> IF hit(i) THEN es[at(i)] ELSE answers[i]]
    <3>1. DOMAIN answers = 1..Len(answers)
      BY <1>1
    <3>2. QED
      BY <3>1 DEF Push, m
  <2>2. ASSUME NEW i \in 1..Len(answers), i > k, i <= k + m
        PROVE  hit(i) /\ at(i) = i - k
    <3>1. i - k \in 1..m /\ resolvers[i - k] = i
      BY <1>2, <1>4, <1>9, <2>2
    <3>2. ASSUME NEW j \in 1..m, resolvers[j] = i PROVE j = i - k
      <4>1. j \in 1..Len(resolvers)
        BY <1>2, <1>9
      <4>2. resolvers[j] = k + j
        BY <1>4, <4>1
      <4>3. QED
        BY <3>2, <4>2
    <3>3. QED
      BY <3>1, <3>2
  <2>3. ASSUME NEW i \in 1..Len(answers), hit(i) PROVE i > k /\ i <= k + m
    <3>1. PICK j \in 1..m : resolvers[j] = i
      BY <2>3
    <3>2. QED
      <4>1. j \in 1..Len(resolvers)
        BY <1>2, <1>9
      <4>2. resolvers[j] = k + j
        BY <1>4, <4>1
      <4>3. QED
        BY <1>9, <3>1, <4>2
  <2> HIDE DEF hit, at
  <2>4. ASSUME NEW i \in 1..Len(answers), i > k, i <= k + m PROVE answers'[i] = es[i - k]
    BY <2>1, <2>2, <2>4
  <2>5. ASSUME NEW i \in 1..Len(answers), ~(i > k /\ i <= k + m) PROVE answers'[i] = answers[i]
    BY <2>1, <2>3, <2>5
  <2>6. ASSUME NEW i \in 1..Len(answers)
        PROVE  answers'[i] \in Events \cup {Parked, Done, Failed}
    <3>1. CASE i > k /\ i <= k + m
      <4>1. i - k \in 1..Len(es)
        BY <1>2, <1>9, <3>1
      <4>2. QED
        BY <2>4, <3>1, <4>1
    <3>2. CASE ~(i > k /\ i <= k + m)
      <4>1. answers[i] \in Events \cup {Parked, Done, Failed}
        BY <1>1
      <4>2. QED
        BY <2>5, <3>2, <4>1
    <3>3. QED
      BY <3>1, <3>2
  <2>7. answers' \in Seq(Events \cup {Parked, Done, Failed}) /\ Len(answers') = Len(answers)
    <3>1. DOMAIN answers' = 1..Len(answers)
      BY <2>1
    <3>2. answers' \in [1..Len(answers) -> Events \cup {Parked, Done, Failed}]
      BY <2>1, <2>6, <3>1
    <3>3. QED
      BY <1>2, <3>2
  <2>8. QED
    BY <2>4, <2>5, <2>7
<1>22. IF Len(rest) > Room
       THEN done' = TRUE /\ pendingError' = TRUE /\ sock' = Stopped
       ELSE done' = FALSE /\ pendingError' = FALSE /\ sock' = sock
  <2>1. done = FALSE /\ pendingError = FALSE
    BY <1>1, <1>3
  <2>2. QED
    BY <2>1 DEF Push, m, rest
<1> PICK n \in Nat : n = k + m
  BY <1>9
<1>23. Aligned(n)'
  <2>1. k + m <= Len(answers')
    BY <1>2, <1>3, <1>9, <1>21
  <2>2. k + m + Len(queue') <= Len(given')
    BY <1>2, <1>3, <1>9, <1>11, <1>14, <1>18, <1>19
  <2>3. ASSUME NEW i \in 1..(k + m) PROVE answers'[i] = given'[i]
    <3>1. i \in 1..Len(answers)
      BY <1>2, <1>3, <1>9
    <3>2. CASE i <= k
      <4>1. i \in 1..k /\ i \in 1..Len(given)
        BY <1>2, <1>3, <3>1, <3>2
      <4>2. answers'[i] = answers[i]
        BY <1>21, <3>1, <3>2
      <4>3. answers[i] = given[i]
        BY <1>7, <4>1
      <4>4. given'[i] = given[i]
        BY <1>19, <4>1
      <4>5. QED
        BY <4>2, <4>3, <4>4
    <3>3. CASE i > k
      <4>1. Len(queue) = 0 /\ Len(given) = k
        BY <1>2, <1>3, <1>9, <1>10, <3>3
      <4>2. i - k \in 1..Len(es) /\ i = Len(given) + (i - k)
        BY <1>2, <1>9, <3>3, <4>1
      <4>3. answers'[i] = es[i - k]
        BY <1>21, <3>1, <3>3
      <4>4. given'[Len(given) + (i - k)] = es[i - k]
        BY <1>19, <4>2
      <4>5. QED
        BY <4>2, <4>3, <4>4
    <3>4. QED
      <4>1. i <= k \/ i > k
        BY <1>9
      <4>2. QED
        BY <3>2, <3>3, <4>1
  <2>4. ASSUME NEW i \in 1..Len(answers'), i > k + m PROVE answers'[i] = Parked
    <3>1. i \in 1..Len(answers) /\ i > k /\ ~(i <= k + m)
      BY <1>2, <1>9, <1>21, <2>4
    <3>2. QED
      BY <1>5, <1>21, <3>1
  <2>5. ASSUME NEW j \in 1..Len(queue') PROVE queue'[j] = given'[k + m + j]
    <3>1. CASE j <= Len(queue)
      <4>1. j \in 1..Len(queue)
        BY <1>2, <3>1
      <4>2. k + j \in 1..Len(given) /\ k + m + j = k + j
        <5>1. m = 0
          BY <1>2, <1>10, <4>1
        <5>2. k + j \in 1..Len(given)
          BY <1>2, <1>3, <4>1
        <5>3. QED
          BY <1>2, <4>1, <5>1, <5>2
      <4>3. queue'[j] = queue[j]
        BY <1>18, <4>1
      <4>4. queue[j] = given[k + j]
        BY <1>8, <4>1
      <4>5. given'[k + j] = given[k + j]
        BY <1>19, <4>2
      <4>6. QED
        BY <4>2, <4>3, <4>4, <4>5
    <3>2. CASE j > Len(queue)
      <4>1. PICK x \in 1..q : j = Len(queue) + x
        <5>1. j - Len(queue) \in 1..q /\ j = Len(queue) + (j - Len(queue))
          BY <1>2, <1>14, <1>18, <3>2
        <5>2. QED
          BY <5>1
      <4>2. m + x \in 1..Len(es) /\ Len(given) + (m + x) = k + m + j
        <5>1. m + x \in 1..Len(es)
          BY <1>2, <1>9, <1>11, <1>14
        <5>2. Len(given) + (m + x) = k + m + (Len(queue) + x)
          <6>1. x \in Nat
            BY <1>14
          <6>2. (k + Len(queue)) + (m + x) = k + m + (Len(queue) + x)
            BY <1>2, <1>9, <6>1
          <6>3. QED
            BY <1>3, <6>2
        <5>3. QED
          BY <4>1, <5>1, <5>2
      <4>3. queue'[Len(queue) + x] = es[m + x]
        BY <1>16, <1>18
      <4>4. given'[Len(given) + (m + x)] = es[m + x]
        BY <1>19, <4>2
      <4>5. QED
        BY <4>1, <4>2, <4>3, <4>4
    <3>3. QED
      <4>1. j <= Len(queue) \/ j > Len(queue)
        BY <1>2, <1>14, <1>18
      <4>2. QED
        BY <3>1, <3>2, <4>1
  <2>6. queue' # <<>> /\ ~pendingError' => k + m = Len(answers')
    <3> SUFFICES ASSUME Len(queue') > 0 PROVE m = Len(resolvers)
      BY <1>2, <1>3, <1>9, <1>18, <1>21
    <3>1. CASE Len(queue) > 0
      BY <1>2, <1>3, <1>6, <1>9, <1>10, <3>1
    <3>2. CASE ~(Len(queue) > 0)
      BY <1>2, <1>9, <1>11, <1>14, <1>18, <3>2
    <3>3. QED
      BY <3>1, <3>2
  <2>7. QED
    BY <2>1, <2>2, <2>3, <2>4, <2>5, <2>6 DEF Aligned
<1>24. ASSUME NEW i \in 1..Len(answers'), i <= k + m PROVE answers'[i] \in Events
  <2>1. k + m <= Len(given') /\ i \in 1..(k + m)
    BY <1>2, <1>3, <1>9, <1>19, <1>24
  <2>2. answers'[i] = given'[i] /\ i \in 1..Len(given')
    BY <1>9, <1>19, <1>23, <2>1 DEF Aligned
  <2>3. QED
    BY <1>19, <2>2
<1>25. ASSUME NEW i \in 1..Len(answers'), i > k + m PROVE answers'[i] = Parked
  <2>1. i \in 1..Len(answers) /\ i > k /\ ~(i <= k + m)
    BY <1>2, <1>9, <1>21, <1>25
  <2>2. QED
    BY <1>5, <1>21, <2>1
<1>26. Parking(n)'
  <2>1. CASE Len(rest) > Room
    <3>1. done' /\ m = Len(resolvers)
      BY <1>2, <1>9, <1>11, <1>12, <1>22, <2>1
    <3>2. resolvers' = <<>>
      BY <1>2, <1>20, <3>1
    <3>3. ASSUME NEW i \in 1..Len(answers') PROVE answers'[i] # Parked
      <4>1. i <= k + m
        BY <1>2, <1>3, <1>21, <3>1
      <4>2. QED
        BY <1>24, <4>1, Marks
    <3>4. QED
      BY <3>1, <3>2, <3>3 DEF Parking
  <2>2. CASE ~(Len(rest) > Room)
    <3>1. ~done' /\ ~pendingError'
      BY <1>22, <2>2
    <3>2. ASSUME NEW j \in 1..Len(resolvers') PROVE resolvers'[j] = k + m + j
      <4>1. j \in 1..(Len(resolvers) - m) /\ m + j \in 1..Len(resolvers)
        BY <1>2, <1>9, <1>20
      <4>2. resolvers'[j] = resolvers[m + j] /\ resolvers[m + j] = k + (m + j)
        BY <1>4, <1>20, <4>1
      <4>3. QED
        BY <1>9, <4>2
    <3>3. Len(resolvers') = Len(answers') - (k + m)
      BY <1>2, <1>3, <1>9, <1>20, <1>21
    <3>4. QED
      BY <1>25, <3>1, <3>2, <3>3 DEF Parking
  <2>3. QED
    BY <2>1, <2>2
<1>27. ASSUME NEW i \in 1..Len(answers') PROVE answers'[i] # Done
  <2>1. i <= k + m \/ i > k + m
    BY <1>2, <1>9, <1>21
  <2>2. QED
    BY <1>24, <1>25, <2>1, Marks
<1>28. ~done' => k + m + Len(queue') = Len(given')
  <2> SUFFICES ASSUME ~done' PROVE k + m + Len(queue') = Len(given')
    OBVIOUS
  <2>1. q = Len(es) - m
    BY <1>11, <1>12, <1>13, <1>14, <1>22
  <2>2. Len(queue') = Len(queue) + (Len(es) - m) /\ Len(given') = (k + Len(queue)) + Len(es)
    BY <1>3, <1>18, <1>19, <2>1
  <2>3. QED
    BY <1>2, <1>9, <2>2
<1>29. IF done' THEN sock' \in {"closing", "closed"} ELSE sock' = sock
  BY <1>1, <1>22 DEF Stopped
<1>30. done' = pendingError'
  BY <1>22
<1>31. Len(queue') <= MaxQueue /\ k + m \in Nat
  BY <1>2, <1>9, <1>12, <1>14, <1>18
<1>32. QED
  BY <1>18, <1>20, <1>21, <1>23, <1>26, <1>27, <1>28, <1>29, <1>30, <1>31

-----------------------------------------------------------------------------
(* The actions.                                                            *)

\* What a step of next() appends.
LEMMA Appended ==
  ASSUME NEW S, NEW s \in Seq(S), NEW a \in S
  PROVE  /\ Append(s, a) \in Seq(S) /\ Len(Append(s, a)) = Len(s) + 1
         /\ \A j \in 1..Len(s) : Append(s, a)[j] = s[j]
         /\ Append(s, a)[Len(s) + 1] = a
OBVIOUS

\* next() keeps the invariant: a call that takes an event takes the k+1st.
LEMMA NextCallHInv == HInv /\ NextCall => HInv'
<1> SUFFICES ASSUME HInv, NextCall PROVE HInv'
  OBVIOUS
<1> PICK k \in Nat : Aligned(k) /\ Parking(k) /\ Ending(k)
  BY DEF HInv
<1> TypeOK /\ UNCHANGED <<sock, received, handled, ready, faults, given, cut>>
  BY DEF HInv, NextCall
<1>1. /\ queue \in Seq(Events) /\ Len(queue) <= MaxQueue /\ resolvers \in Seq(Nat)
      /\ answers \in Seq(Events \cup {Parked, Done, Failed})
      /\ Len(answers) \in Nat /\ Len(queue) \in Nat /\ Len(resolvers) \in Nat
      /\ Len(given) \in Nat /\ MaxQueue \in Nat
  BY IterableAssumption DEF TypeOK
<1>2. ASSUME NEW a \in {Parked, Done, Failed}, Answered(a), UNCHANGED queue
      PROVE  /\ answers' \in Seq(Events \cup {Parked, Done, Failed})
             /\ Len(answers') = Len(answers) + 1 /\ answers'[Len(answers) + 1] = a
             /\ \A i \in 1..Len(answers) : answers'[i] = answers[i]
  <2>1. answers' = Append(answers, a) /\ a \in Events \cup {Parked, Done, Failed}
    BY <1>2 DEF Answered
  <2>2. QED
    BY <1>1, <2>1, Appended
<1>3. ASSUME NEW a \in {Parked, Done, Failed}, Answered(a), UNCHANGED <<queue, pendingError>>,
             queue = <<>> \/ pendingError
      PROVE  Aligned(k)'
  <2>1. /\ Len(answers') = Len(answers) + 1 /\ answers'[Len(answers) + 1] = a
        /\ \A i \in 1..Len(answers) : answers'[i] = answers[i]
    BY <1>2, <1>3
  <2>2. ASSUME NEW i \in 1..k PROVE answers'[i] = given'[i]
    <3>1. i \in 1..Len(answers)
      BY <1>1 DEF Aligned
    <3>2. QED
      BY <2>1, <3>1 DEF Aligned
  <2>3. ASSUME NEW i \in 1..Len(answers'), i > k PROVE answers'[i] \in {Parked, Done, Failed}
    <3>1. i = Len(answers) + 1 \/ i \in 1..Len(answers)
      BY <1>1, <2>1
    <3>2. QED
      BY <2>1, <2>3, <3>1 DEF Aligned
  <2>4. QED
    BY <1>1, <1>3, <2>1, <2>2, <2>3 DEF Aligned
<1>4. CASE NextRejects
  <2>1. Answered(Failed) /\ pendingError /\ UNCHANGED <<queue, resolvers, done, pendingError>>
    BY <1>4 DEF NextRejects
  <2>2. /\ answers' \in Seq(Events \cup {Parked, Done, Failed})
        /\ Len(answers') = Len(answers) + 1 /\ answers'[Len(answers) + 1] = Failed
        /\ \A i \in 1..Len(answers) : answers'[i] = answers[i]
    BY <1>2, <2>1
  <2>3. \A i \in 1..Len(answers') : i = Len(answers) + 1 \/ i \in 1..Len(answers)
    BY <1>1, <2>2
  <2>4. done /\ Aligned(k)'
    BY <1>3, <2>1 DEF Parking
  <2>5. Parking(k)' /\ Ending(k)'
    BY <2>1, <2>2, <2>3, <2>4, Marks DEF Parking, Ending
  <2>6. QED
    BY <2>1, <2>2, <2>4, <2>5 DEF HInv, TypeOK
<1>5. CASE NextTakes
  <2>1. /\ Answered(queue[1]) /\ queue' = Tail(queue) /\ Len(queue) > 0 /\ ~pendingError
        /\ UNCHANGED <<resolvers, done, pendingError>>
    BY <1>1, <1>5 DEF NextTakes
  <2>2. k = Len(answers) /\ k + Len(queue) <= Len(given) /\ queue[1] = given[k + 1]
        /\ queue[1] \in Events
    BY <1>1, <2>1 DEF Aligned
  <2>3. /\ answers' \in Seq(Events \cup {Parked, Done, Failed})
        /\ Len(answers') = k + 1 /\ answers'[k + 1] = queue[1]
        /\ \A i \in 1..k : answers'[i] = answers[i]
    BY <1>1, <2>1, <2>2, Appended DEF Answered
  <2>4. /\ queue' \in Seq(Events) /\ Len(queue') = Len(queue) - 1
        /\ \A j \in 1..Len(queue') : queue'[j] = queue[j + 1]
    BY <1>1, <2>1
  <2>5. ASSUME NEW i \in 1..Len(answers')
        PROVE  answers'[i] = given[i] /\ i <= k + 1
    <3>1. i \in 1..k \/ i = k + 1
      BY <2>3
    <3>2. QED
      BY <2>2, <2>3, <3>1 DEF Aligned
  <2>6. ASSUME NEW j \in 1..Len(queue') PROVE queue'[j] = given[k + 1 + j]
    <3>1. j + 1 \in 1..Len(queue) /\ k + (j + 1) = k + 1 + j
      BY <1>1, <2>4
    <3>2. QED
      BY <2>4, <3>1 DEF Aligned
  <2>7. Aligned(k + 1)'
    <3>1. k + 1 = Len(answers') /\ k + 1 + Len(queue') <= Len(given')
      BY <1>1, <2>1, <2>2, <2>3, <2>4
    <3>2. \A i \in 1..(k + 1) : answers'[i] = given'[i]
      BY <2>3, <2>5
    <3>3. \A i \in 1..Len(answers') :
            i > k + 1 => answers'[i] \in {Parked, Done, Failed}
      BY <2>3
    <3>4. \A j \in 1..Len(queue') : queue'[j] = given'[k + 1 + j]
      BY <2>6
    <3>5. k + 1 <= Len(answers') /\ (queue' # <<>> /\ ~pendingError' => k + 1 = Len(answers'))
      BY <2>3
    <3>6. QED
      BY <3>1, <3>2, <3>3, <3>4, <3>5 DEF Aligned
  <2>8. ASSUME NEW i \in 1..Len(answers') PROVE answers'[i] \in Events
    <3>1. i \in 1..Len(given)
      BY <1>1, <2>1, <2>2, <2>3
    <3>2. given \in Seq(Events)
      BY DEF TypeOK
    <3>3. given[i] \in Events
      BY <3>1, <3>2
    <3>4. QED
      BY <2>5, <3>3
  <2>9. Parking(k + 1)'
    BY <1>1, <2>1, <2>2, <2>3, <2>8, Marks DEF Parking
  <2>10. Ending(k + 1)'
    BY <1>1, <2>1, <2>4, <2>8, Marks DEF Ending
  <2>11. QED
    BY <1>1, <2>1, <2>3, <2>4, <2>7, <2>9, <2>10 DEF HInv, TypeOK
<1>6. CASE NextEnds
  <2>1. /\ Answered(Done) /\ queue = <<>> /\ done /\ ~pendingError
        /\ UNCHANGED <<queue, resolvers, done, pendingError>>
    BY <1>6 DEF NextEnds
  <2>2. /\ answers' \in Seq(Events \cup {Parked, Done, Failed})
        /\ Len(answers') = Len(answers) + 1 /\ answers'[Len(answers) + 1] = Done
        /\ \A i \in 1..Len(answers) : answers'[i] = answers[i]
    BY <1>2, <2>1
  <2>3. \A i \in 1..Len(answers') : i = Len(answers) + 1 \/ i \in 1..Len(answers)
    BY <1>1, <2>2
  <2>4. Aligned(k)'
    BY <1>3, <2>1
  <2>5. Parking(k)' /\ Ending(k)'
    BY <2>1, <2>2, <2>3, Marks DEF Parking, Ending
  <2>6. QED
    BY <2>1, <2>2, <2>4, <2>5 DEF HInv, TypeOK
<1>7. CASE NextParks
  <2>1. /\ Answered(Parked) /\ queue = <<>> /\ ~done /\ ~pendingError
        /\ resolvers' = Append(resolvers, Len(answers) + 1)
        /\ UNCHANGED <<queue, done, pendingError>>
    BY <1>7 DEF NextParks
  <2>2. /\ answers' \in Seq(Events \cup {Parked, Done, Failed})
        /\ Len(answers') = Len(answers) + 1 /\ answers'[Len(answers) + 1] = Parked
        /\ \A i \in 1..Len(answers) : answers'[i] = answers[i]
    BY <1>2, <2>1
  <2>3. \A i \in 1..Len(answers') : i = Len(answers) + 1 \/ i \in 1..Len(answers)
    BY <1>1, <2>2
  <2>4. Aligned(k)'
    BY <1>3, <2>1
  <2>5. /\ resolvers' \in Seq(Nat) /\ Len(resolvers') = Len(resolvers) + 1
        /\ \A j \in 1..Len(resolvers) : resolvers'[j] = resolvers[j]
        /\ resolvers'[Len(resolvers) + 1] = Len(answers) + 1
    <3>1. Len(answers) + 1 \in Nat
      BY <1>1
    <3>2. QED
      BY <1>1, <2>1, <3>1, Appended
  <2>6. Parking(k)'
    <3>1. Len(resolvers) = Len(answers) - k
      BY <2>1 DEF Parking
    <3>2. ASSUME NEW j \in 1..Len(resolvers') PROVE resolvers'[j] = k + j
      <4>1. j \in 1..Len(resolvers) \/ j = Len(resolvers) + 1
        BY <1>1, <2>5
      <4>2. QED
        BY <1>1, <2>1, <2>5, <3>1, <4>1 DEF Parking
    <3>3. ASSUME NEW i \in 1..Len(answers'), i > k PROVE answers'[i] = Parked
      BY <2>1, <2>2, <2>3, <3>3 DEF Parking
    <3>4. QED
      BY <1>1, <2>1, <2>2, <2>5, <3>1, <3>2, <3>3 DEF Parking
  <2>7. Ending(k)'
    BY <2>1, <2>2, <2>3, Marks DEF Ending
  <2>8. QED
    BY <2>1, <2>2, <2>4, <2>5, <2>6, <2>7 DEF HInv, TypeOK
<1>8. QED
  BY <1>4, <1>5, <1>6, <1>7 DEF NextCall

\* return() keeps the invariant.
LEMMA ReturnHInv == HInv /\ Return => HInv'
<1> SUFFICES ASSUME HInv, Return PROVE HInv'
  OBVIOUS
<1> PICK k \in Nat : Aligned(k) /\ Parking(k) /\ Ending(k)
  BY DEF HInv
<1>1. TypeOK /\ cut' = cut \cup {"return"} /\ sock' = Stopped /\ Finish
      /\ UNCHANGED <<queue, pendingError, received, handled, ready, faults, given>>
  BY DEF HInv, Return
<1>2. /\ Aligned(k)' /\ Parking(k)' /\ done'
      /\ answers' \in Seq(Events \cup {Parked, Done, Failed}) /\ resolvers' \in Seq(Nat)
      /\ (\E i \in 1..Len(answers') : answers'[i] = Done) => queue = <<>> /\ ~pendingError
  BY <1>1, FinishAligned
<1>3. done' \in BOOLEAN
  BY <1>1 DEF Finish, TypeOK
<1>4. Ending(k)'
  BY <1>1, <1>2 DEF Ending, Stopped
<1>5. TypeOK'
  BY <1>1, <1>2, <1>3 DEF TypeOK, Stopped
<1>6. QED
  BY <1>2, <1>4, <1>5 DEF HInv

\* An error of the stream keeps the invariant.
LEMMA StreamErrorHInv == HInv /\ StreamError => HInv'
<1> SUFFICES ASSUME HInv, StreamError PROVE HInv'
  OBVIOUS
<1> PICK k \in Nat : Aligned(k) /\ Parking(k) /\ Ending(k)
  BY DEF HInv
<1>1. TypeOK /\ sock # "closed" /\ faults < MaxFaults /\ faults' = faults + 1 /\ Fail
      /\ UNCHANGED <<queue, received, handled, ready, given, cut>>
  BY DEF HInv, StreamError
<1>2. /\ Aligned(k)' /\ Parking(k)' /\ done' /\ pendingError' \in BOOLEAN
      /\ ~pendingError' => done /\ ~pendingError
      /\ answers' \in Seq(Events \cup {Parked, Done, Failed}) /\ resolvers' \in Seq(Nat)
      /\ (\E i \in 1..Len(answers') : answers'[i] = Done) => queue = <<>> /\ ~pendingError'
  BY <1>1, FailAligned
<1>3. done' \in BOOLEAN /\ sock' \in {"open", "closing"}
      /\ (pendingError' => sock' = "closing")
  BY <1>1 DEF Fail, TypeOK, Ending, Stopped
<1>4. Ending(k)'
  BY <1>1, <1>2, <1>3 DEF Ending
<1>5. faults' \in 0..MaxFaults
  BY <1>1, IterableAssumption DEF TypeOK
<1>6. TypeOK'
  BY <1>1, <1>2, <1>3, <1>5 DEF TypeOK
<1>7. QED
  BY <1>2, <1>4, <1>6 DEF HInv

\* The onclose handler: what it needs of the two ways a socket closes is that
\* a close that leaves cut empty finds the whole window handled.
LEMMA OnCloseHInv ==
  ASSUME HInv, OnClose, faults' \in 0..MaxFaults,
         cut' \subseteq {"return", "network", "schemas"}, cut \subseteq cut',
         cut' = {} /\ ~done => handled = Len(Messages)
  PROVE  HInv'
<1> PICK k \in Nat : Aligned(k) /\ Parking(k) /\ Ending(k)
  BY DEF HInv
<1>1. TypeOK /\ sock' = "closed" /\ Finish
      /\ UNCHANGED <<queue, pendingError, received, handled, ready, given>>
  BY DEF HInv, OnClose
<1>2. /\ Aligned(k)' /\ Parking(k)' /\ done'
      /\ answers' \in Seq(Events \cup {Parked, Done, Failed}) /\ resolvers' \in Seq(Nat)
      /\ (\E i \in 1..Len(answers') : answers'[i] = Done) => queue = <<>> /\ ~pendingError
  BY <1>1, FinishAligned
<1>3. done' \in BOOLEAN
  BY <1>1 DEF Finish, TypeOK
<1>4. Ending(k)'
  <2>1. cut' = {} /\ ~pendingError => handled = Len(Messages) /\ k + Len(queue) = Len(given)
    <3> SUFFICES ASSUME cut' = {}, ~pendingError
                 PROVE  handled = Len(Messages) /\ k + Len(queue) = Len(given)
      OBVIOUS
    <3>1. cut = {}
      OBVIOUS
    <3>2. QED
      BY <3>1 DEF Ending
  <2>2. QED
    BY <1>1, <1>2, <2>1 DEF Ending
<1>5. TypeOK'
  BY <1>1, <1>2, <1>3 DEF TypeOK
<1>6. QED
  BY <1>2, <1>4, <1>5 DEF HInv

\* A close by the participant keeps the invariant.
LEMMA ServerClosesHInv == HInv /\ ServerCloses => HInv'
<1> SUFFICES ASSUME HInv, ServerCloses PROVE HInv'
  OBVIOUS
<1> PICK k \in Nat : Ending(k)
  BY DEF HInv
<1>1. TypeOK
  BY DEF HInv
<1>2. /\ (sock = "open" /\ received = Len(Messages)) \/ sock = "closing"
      /\ cut' = IF handled < received THEN cut \cup {"schemas"} ELSE cut
      /\ OnClose /\ UNCHANGED faults
  BY DEF ServerCloses
<1>3. cut' = {} /\ ~done => handled = Len(Messages)
  <2> SUFFICES ASSUME cut' = {}, ~done PROVE handled = Len(Messages)
    OBVIOUS
  <2>1. received = Len(Messages)
    BY <1>2 DEF Ending
  <2>2. ~(handled < received)
    BY <1>2
  <2>3. handled \in 0..received /\ received \in Nat
    BY <1>1 DEF TypeOK
  <2>4. QED
    BY <2>1, <2>2, <2>3
<1>4. QED
  BY <1>1, <1>2, <1>3, OnCloseHInv DEF TypeOK

\* A broken connection keeps the invariant.
LEMMA ConnectionBreaksHInv == HInv /\ ConnectionBreaks => HInv'
<1> SUFFICES ASSUME HInv, ConnectionBreaks PROVE HInv'
  OBVIOUS
<1>1. TypeOK /\ OnClose /\ faults < MaxFaults /\ faults' = faults + 1
      /\ cut' = cut \cup {"network"}
  BY DEF HInv, ConnectionBreaks
<1>2. faults' \in 0..MaxFaults
  BY <1>1, IterableAssumption DEF TypeOK
<1>3. QED
  BY <1>1, <1>2, OnCloseHInv DEF TypeOK

\* So do the steps of the socket that touch no call.
LEMMA SocketHInv == HInv /\ (Opens \/ Receive \/ SchemasLoad) => HInv'
<1> SUFFICES ASSUME HInv, Opens \/ Receive \/ SchemasLoad PROVE HInv'
  OBVIOUS
<1> PICK k \in Nat : Aligned(k) /\ Parking(k) /\ Ending(k)
  BY DEF HInv
<1>1. /\ TypeOK /\ UNCHANGED <<client, handled, faults, given, cut>>
      /\ \/ sock' = sock
         \/ sock' = "open" /\ sock = "connecting"
      /\ \/ received' = received
         \/ received' = received + 1 /\ received < Len(Messages) /\ sock # "connecting"
      /\ ready' \in BOOLEAN
  BY DEF HInv, Opens, Receive, SchemasLoad, TypeOK
<1>2. Aligned(k)' /\ Parking(k)' /\ Ending(k)'
  BY <1>1 DEF client, Aligned, Parking, Ending
<1>3. received' \in 0..Len(Messages) /\ handled' \in 0..received'
  BY <1>1, IterableAssumption DEF TypeOK
<1>4. TypeOK'
  BY <1>1, <1>3 DEF client, TypeOK
<1>5. QED
  BY <1>2, <1>4 DEF HInv

\* onMessage keeps the invariant: it serves the calls that are next in turn.
LEMMA HandleMessageHInv == HInv /\ HandleMessage => HInv'
<1> SUFFICES ASSUME HInv, HandleMessage PROVE HInv'
  OBVIOUS
<1> PICK k \in Nat : Aligned(k) /\ Parking(k) /\ Ending(k)
  BY DEF HInv
<1> DEFINE es == Messages[handled']
<1>1. TypeOK /\ handled < received /\ handled' = handled + 1 /\ given' = given \o es
      /\ UNCHANGED <<received, ready, faults, cut>>
      /\ (IF done \/ es = <<>> THEN UNCHANGED <<client, sock>> ELSE Push(es))
  BY DEF HInv, HandleMessage
<1>2. handled' \in 1..Len(Messages) /\ handled' \in 0..received /\ sock # "connecting"
  BY SMTT(20), <1>1, IterableAssumption DEF TypeOK, Ending
<1>3. PICK fs \in Seq(Events) : fs = es
  BY <1>2, IterableAssumption
<1>4. given \in Seq(Events) /\ Len(given) \in Nat /\ Len(queue) \in Nat
  BY <1>1 DEF TypeOK
<1>5. /\ given' \in Seq(Events) /\ Len(given') = Len(given) + Len(fs) /\ Len(fs) \in Nat
      /\ \A j \in 1..Len(given) : given'[j] = given[j]
  BY <1>1, <1>3, <1>4, Joined
<1>6. CASE done \/ fs = <<>>
  <2>1. UNCHANGED <<queue, resolvers, done, pendingError, answers, sock>>
    BY <1>1, <1>3, <1>6 DEF client
  <2>2. Aligned(k)'
    <3>1. k <= Len(answers') /\ k + Len(queue') <= Len(given')
      BY <1>4, <1>5, <2>1 DEF Aligned
    <3>2. ASSUME NEW i \in 1..k PROVE answers'[i] = given'[i]
      <4>1. i \in 1..Len(given)
        BY <1>4 DEF Aligned
      <4>2. QED
        BY <1>5, <2>1, <4>1 DEF Aligned
    <3>3. ASSUME NEW j \in 1..Len(queue') PROVE queue'[j] = given'[k + j]
      <4>1. k + j \in 1..Len(given)
        BY <1>4, <2>1 DEF Aligned
      <4>2. QED
        BY <1>5, <2>1, <4>1 DEF Aligned
    <3>4. QED
      BY <2>1, <3>1, <3>2, <3>3 DEF Aligned
  <2>3. Parking(k)'
    BY <2>1 DEF Parking
  <2>4. ~done => Len(given') = Len(given)
    BY <1>4, <1>5, <1>6
  <2>5. handled # Len(Messages)
    BY <1>1, <1>2 DEF TypeOK
  <2>6. Ending(k)'
    BY <1>1, <2>1, <2>4, <2>5 DEF Ending
  <2>7. TypeOK'
    BY <1>1, <1>2, <1>5, <2>1 DEF TypeOK
  <2>8. QED
    BY <2>2, <2>3, <2>6, <2>7 DEF HInv
<1>7. CASE ~done /\ fs # <<>>
  <2>1. Push(fs) /\ given' = given \o fs
    BY <1>1, <1>3, <1>7
  <2>2. /\ queue' \in Seq(Events) /\ Len(queue') <= MaxQueue
        /\ resolvers' \in Seq(Nat)
        /\ answers' \in Seq(Events \cup {Parked, Done, Failed})
        /\ \A i \in 1..Len(answers') : answers'[i] # Done
        /\ done' = pendingError'
        /\ IF done' THEN sock' \in {"closing", "closed"} ELSE sock' = sock
        /\ \E n \in Nat :
             Aligned(n)' /\ Parking(n)' /\ (~done' => n + Len(queue') = Len(given'))
    BY <1>1, <1>2, <1>7, <2>1, PushAligned
  <2>3. PICK n \in Nat :
          Aligned(n)' /\ Parking(n)' /\ (~done' => n + Len(queue') = Len(given'))
    BY <2>2
  <2>4. Ending(n)'
    BY <1>1, <1>2, <1>7, <2>2, <2>3 DEF Ending
  <2>5. done' \in BOOLEAN /\ pendingError' \in BOOLEAN
    BY <1>1, <2>1 DEF Push, TypeOK
  <2>6. sock' \in {"connecting", "open", "closing", "closed"}
    BY <1>1, <2>2 DEF TypeOK
  <2>7. TypeOK'
    BY <1>1, <1>2, <1>5, <2>2, <2>5, <2>6 DEF TypeOK
  <2>8. QED
    BY <2>3, <2>4, <2>7 DEF HInv
<1>8. QED
  BY <1>6, <1>7

\* Every step, and every stutter, keeps the invariant.
LEMMA NextHInv == HInv /\ [Next]_vars => HInv'
<1> SUFFICES ASSUME HInv, [Next]_vars PROVE HInv'
  OBVIOUS
<1>1. CASE Next
  BY <1>1, NextCallHInv, ReturnHInv, SocketHInv, HandleMessageHInv, ServerClosesHInv,
     StreamErrorHInv, ConnectionBreaksHInv DEF Next, System
<1>2. CASE UNCHANGED vars
  BY <1>2 DEF vars, client, HInv, TypeOK, Aligned, Parking, Ending
<1>3. QED
  BY <1>1, <1>2

\* The invariant holds in every reachable state.
LEMMA Invariant == Spec => []HInv
BY InitHInv, NextHInv, PTL DEF Spec

-----------------------------------------------------------------------------
(* The theorems.                                                           *)

\* Every reachable state is well typed: in particular the queue never holds
\* more than MaxQueue events, whatever a message brings.
THEOREM TypeCorrect == Spec => []TypeOK
<1>1. HInv => TypeOK
  BY DEF HInv
<1>2. QED
  BY <1>1, Invariant, PTL

\* The n-th call that gets an event gets the n-th event of the stream, for
\* every stream and every schedule of calls (push and next).
THEOREM CallsAreServedInOrder == Spec => []NthCallNthEvent
<1>1. HInv => NthCallNthEvent
  <2> SUFFICES ASSUME HInv, NEW i \in DOMAIN answers, answers[i] \in Events
               PROVE  i <= Len(given) /\ answers[i] = given[i]
    BY DEF NthCallNthEvent
  <2> PICK k \in Nat : Aligned(k)
    BY DEF HInv
  <2>1. /\ answers \in Seq(Events \cup {Parked, Done, Failed}) /\ i \in 1..Len(answers)
        /\ Len(given) \in Nat /\ Len(queue) \in Nat
    BY DEF HInv, TypeOK
  <2>2. i <= k
    BY <2>1, Marks DEF Aligned
  <2>3. QED
    BY <2>1, <2>2 DEF Aligned
<1>2. QED
  BY <1>1, Invariant, PTL

\* No call is parked beside an event, or after the end (push, fail, finish).
THEOREM NoCallIsStranded == Spec => []NoStrandedCall
<1>1. HInv => NoStrandedCall
  <2> SUFFICES ASSUME HInv, NEW i \in DOMAIN answers, answers[i] = Parked
               PROVE  queue = <<>> /\ ~done /\ IsParked(i)
    BY DEF NoStrandedCall
  <2> PICK k \in Nat : Aligned(k) /\ Parking(k)
    BY DEF HInv
  <2>1. /\ answers \in Seq(Events \cup {Parked, Done, Failed}) /\ i \in 1..Len(answers)
        /\ given \in Seq(Events) /\ Len(given) \in Nat /\ Len(answers) \in Nat
        /\ resolvers \in Seq(Nat) /\ queue \in Seq(Events) /\ Len(queue) \in Nat
    BY DEF HInv, TypeOK
  <2>2. ~done
    BY <2>1 DEF Parking
  <2>3. i > k
    <3> SUFFICES ASSUME i <= k PROVE FALSE
      BY <2>1
    <3>1. i \in 1..k /\ i \in 1..Len(given)
      BY <2>1 DEF Aligned
    <3>2. answers[i] = given[i] /\ given[i] \in Events
      BY <2>1, <3>1 DEF Aligned
    <3>3. QED
      BY <3>2, Marks
  <2>4. queue = <<>>
    BY <2>1, <2>2, <2>3 DEF Aligned, Parking
  <2>5. i - k \in 1..Len(resolvers) /\ resolvers[i - k] = i
    <3>1. Len(resolvers) = Len(answers) - k
      BY <2>2 DEF Parking
    <3>2. i - k \in 1..Len(resolvers)
      BY <2>1, <2>3, <3>1
    <3>3. resolvers[i - k] = k + (i - k)
      BY <2>2, <3>2 DEF Parking
    <3>4. QED
      BY <2>1, <3>2, <3>3
  <2>6. QED
    BY <2>1, <2>2, <2>4, <2>5 DEF IsParked
<1>2. QED
  BY <1>1, Invariant, PTL

\* An error is sticky and leaves no socket open (fail and next).
THEOREM FailureStays == Spec => FailureIsFinal
<1>1. HInv /\ [Next]_vars =>
        [pendingError =>
           /\ pendingError' /\ sock' # "open"
           /\ Len(answers') > Len(answers) => answers'[Len(answers')] = Failed]_vars
  <2> SUFFICES ASSUME HInv, Next, pendingError
               PROVE  /\ pendingError' /\ sock' # "open"
                      /\ Len(answers') > Len(answers) => answers'[Len(answers')] = Failed
    OBVIOUS
  <2> PICK k \in Nat : Parking(k) /\ Ending(k)
    BY DEF HInv
  <2>1. done /\ sock \in {"closing", "closed"} /\ TypeOK
    BY DEF HInv, Parking, Ending
  <2>2. Len(answers) \in Nat /\ answers \in Seq(Events \cup {Parked, Done, Failed})
    BY <2>1 DEF TypeOK
  <2>3. CASE NextCall
    <3>1. NextRejects /\ UNCHANGED sock
      BY <2>3 DEF NextCall, NextRejects, NextTakes, NextEnds, NextParks
    <3>2. pendingError' /\ answers' = Append(answers, Failed)
      BY <3>1 DEF NextRejects, Answered
    <3>3. answers'[Len(answers')] = Failed
      BY <2>2, <3>2, Appended
    <3>4. QED
      BY <2>1, <3>1, <3>2, <3>3
  <2>4. CASE Return
    BY <2>1, <2>2, <2>4 DEF Return, Finish, Stopped
  <2>5. CASE StreamError
    BY <2>1, <2>2, <2>5 DEF StreamError, Fail
  <2>6. CASE ConnectionBreaks \/ ServerCloses
    <3>1. sock' = "closed" /\ UNCHANGED pendingError /\ Finish
      BY <2>6 DEF ConnectionBreaks, ServerCloses, OnClose
    <3>2. QED
      BY <2>1, <2>2, <3>1 DEF Finish
  <2>7. CASE Opens \/ Receive \/ SchemasLoad
    <3>1. UNCHANGED <<answers, pendingError>> /\ (sock' = sock \/ sock = "connecting")
      BY <2>7 DEF Opens, Receive, SchemasLoad, client
    <3>2. QED
      BY <2>1, <2>2, <3>1
  <2>8. CASE HandleMessage
    BY <2>1, <2>2, <2>8 DEF HandleMessage, client
  <2>9. QED
    BY <2>3, <2>4, <2>5, <2>6, <2>7, <2>8 DEF Next, System
<1>2. QED
  BY <1>1, Invariant, PTL DEF Spec, FailureIsFinal

\* A replay that nothing cut short and that tells a call it is done has
\* yielded every event of the window (push, finish and onclose).
THEOREM ReplayCompletesWhenReady == Spec => []CompleteWhenReady
<1>1. HInv => CompleteWhenReady
  <2> SUFFICES ASSUME HInv, NEW i \in DOMAIN answers, answers[i] = Done, cut = {}
               PROVE  Complete
    BY DEF CompleteWhenReady
  <2> PICK k \in Nat : Aligned(k) /\ Ending(k)
    BY DEF HInv
  <2>1. /\ i \in 1..Len(answers) /\ given \in Seq(Events) /\ Len(given) \in Nat
        /\ answers \in Seq(Events \cup {Parked, Done, Failed}) /\ Len(answers) \in Nat
    BY DEF HInv, TypeOK
  <2>2. done /\ ~pendingError /\ queue = <<>>
    BY <2>1 DEF Ending
  <2>3. handled = Len(Messages) /\ k = Len(given)
    BY <2>2 DEF Ending
  <2>4. ASSUME NEW j \in DOMAIN given PROVE j \in DOMAIN answers /\ answers[j] \in Events
    <3>1. j \in 1..k /\ given[j] \in Events
      BY <2>1, <2>3
    <3>2. j \in 1..Len(answers) /\ answers[j] = given[j]
      BY <2>1, <3>1 DEF Aligned
    <3>3. QED
      BY <2>1, <3>1, <3>2
  <2>5. QED
    BY <2>3, <2>4 DEF Complete
<1>2. QED
  BY <1>1, Invariant, PTL

-----------------------------------------------------------------------------
(* The iterator implements HistoryFeed.                                    *)

\* What was handled is what the window begins with, and only a failed iterator
\* has rejected a call.
FInv ==
  /\ Len(given) = Ends[handled]
  /\ \A i \in 1..Len(given) : given[i] = Window[i]
  /\ \A i \in 1..Len(answers) : answers[i] = Failed => pendingError

\* A step gives no call an event.
NoNew ==
  \A i \in 1..Len(answers') :
    answers'[i] \in Events => i <= Len(answers) /\ answers'[i] = answers[i]

\* What a step may do to the answers: no promise settles twice, a rejection comes
\* alone, and after the end or an error there are no events.
Answering ==
  /\ Len(answers) <= Len(answers') /\ cut \subseteq cut'
  /\ \A i \in 1..Len(answers) : answers[i] # Parked => answers'[i] = answers[i]
  /\ (\E i \in 1..Len(answers') :
        answers'[i] = Failed /\ (i <= Len(answers) => answers[i] # Failed))
       => pendingError' /\ NoNew
  /\ pendingError \/ (done /\ queue = <<>>) => NoNew
  /\ pendingError => pendingError'
  /\ done /\ ~pendingError => ~pendingError'

\* A step that leaves answers and error alone.
LEMMA AnswersAlone ==
  ASSUME TypeOK, UNCHANGED <<answers, pendingError>>, cut \subseteq cut'
  PROVE  Answering
BY DEF Answering, NoNew, TypeOK

\* finish and fail: every parked call gets the mark a.
LEMMA ReleaseAnswers ==
  ASSUME TypeOK, NEW k \in Nat, Parking(k), ~done, NEW a \in {Done, Failed},
         answers' = Release(a), cut \subseteq cut',
         pendingError' = (a = Failed)
  PROVE  Answering
<1>1. answers \in Seq(Events \cup {Parked, Done, Failed}) /\ Len(answers) \in Nat
      /\ DOMAIN answers = 1..Len(answers)
  BY DEF TypeOK
<1>2. answers' = [i \in 1..Len(answers) |-> IF IsParked(i) THEN a ELSE answers[i]]
  BY <1>1 DEF Release
<1>3. Len(answers') = Len(answers)
  BY <1>1, <1>2
<1>4. ASSUME NEW i \in 1..Len(answers), IsParked(i) PROVE answers[i] = Parked
  <2>1. PICK j \in 1..Len(resolvers) : resolvers[j] = i
    BY <1>4 DEF IsParked, TypeOK
  <2>2. i = k + j /\ j \in Nat /\ j >= 1
    BY <2>1 DEF Parking, TypeOK
  <2>3. QED
    BY <2>2 DEF Parking
<1>5. \A i \in 1..Len(answers) : answers[i] # Parked => answers'[i] = answers[i]
  BY <1>2, <1>4
<1>6. NoNew
  BY <1>2, <1>3, Marks DEF NoNew
<1>7. a # Failed => \A i \in 1..Len(answers') : answers'[i] = Failed => answers[i] = Failed
  BY <1>2, <1>3
<1>8. ~pendingError
  BY DEF Parking
<1>9. ASSUME NEW i \in 1..Len(answers'), answers'[i] = Failed,
             i <= Len(answers) => answers[i] # Failed
      PROVE  pendingError'
  <2>1. a = Failed
    BY <1>3, <1>7, <1>9
  <2>2. QED
    BY <2>1
<1>10. QED
  BY <1>1, <1>3, <1>5, <1>6, <1>8, <1>9 DEF Answering

\* finish, whether or not it ends the iterator.
LEMMA FinishAnswers ==
  ASSUME HInv, Finish, UNCHANGED pendingError, cut \subseteq cut'
  PROVE  Answering
<1> PICK k \in Nat : Parking(k)
  BY DEF HInv
<1>1. TypeOK
  BY DEF HInv
<1>2. CASE done
  BY <1>1, <1>2, AnswersAlone DEF Finish
<1>3. CASE ~done
  <2>1. answers' = Release(Done) /\ pendingError' = FALSE
    BY <1>1, <1>3 DEF Finish, Parking, TypeOK
  <2>2. pendingError' = (Done = Failed)
    BY <2>1, Marks
  <2>3. QED
    BY <1>1, <1>3, <2>1, <2>2, ReleaseAnswers
<1>4. QED
  BY <1>2, <1>3

\* fail.
LEMMA FailAnswers ==
  ASSUME HInv, Fail, UNCHANGED cut
  PROVE  Answering
<1> PICK k \in Nat : Parking(k)
  BY DEF HInv
<1>1. TypeOK
  BY DEF HInv
<1>2. CASE done
  BY <1>1, <1>2, AnswersAlone DEF Fail
<1>3. CASE ~done
  <2>1. answers' = Release(Failed) /\ pendingError' = TRUE
    BY <1>3 DEF Fail
  <2>2. QED
    BY <1>1, <1>3, <2>1, ReleaseAnswers
<1>4. QED
  BY <1>2, <1>3

\* push, which serves the parked calls with events.
LEMMA PushAnswers ==
  ASSUME HInv, NEW es \in Seq(Events), Push(es), ~done, UNCHANGED cut
  PROVE  Answering
<1> PICK k \in Nat : Parking(k)
  BY DEF HInv
<1> DEFINE m == Least(Len(resolvers), Len(es))
           Served(i) == \E j \in 1..m : resolvers[j] = i
<1>1. /\ answers \in Seq(Events \cup {Parked, Done, Failed}) /\ Len(answers) \in Nat
      /\ DOMAIN answers = 1..Len(answers) /\ resolvers \in Seq(Nat) /\ Len(resolvers) \in Nat
      /\ pendingError \in BOOLEAN
  BY DEF HInv, TypeOK
<1>2. answers' = [i \in 1..Len(answers) |->
                    IF Served(i) THEN es[CHOOSE j \in 1..m : resolvers[j] = i] ELSE answers[i]]
  BY <1>1 DEF Push
<1>3. m \in Nat /\ m <= Len(resolvers) /\ m <= Len(es) /\ Len(es) \in Nat
  BY <1>1 DEF Least
<1> HIDE DEF m
<1>4. Len(answers') = Len(answers)
  BY <1>1, <1>2
<1>5. ASSUME NEW i \in 1..Len(answers), Served(i)
      PROVE  answers[i] = Parked /\ answers'[i] \in Events
  <2>1. PICK j \in 1..m : resolvers[j] = i
    BY <1>5
  <2>2. j \in 1..Len(resolvers) /\ i = k + j
    BY <1>3, <2>1 DEF Parking
  <2>3. answers[i] = Parked
    BY <2>2 DEF Parking
  <2>4. (CHOOSE l \in 1..m : resolvers[l] = i) \in 1..Len(es)
    BY <1>3, <2>1
  <2>5. QED
    BY <1>2, <1>5, <2>3, <2>4
<1>6. \A i \in 1..Len(answers) : answers[i] # Parked => answers'[i] = answers[i]
  BY <1>2, <1>5
<1>7. \A i \in 1..Len(answers') : answers'[i] = Failed => answers[i] = Failed
  <2> SUFFICES ASSUME NEW i \in 1..Len(answers'), answers'[i] = Failed
               PROVE  answers[i] = Failed
    OBVIOUS
  <2>1. i \in 1..Len(answers)
    BY <1>4
  <2>2. CASE Served(i)
    BY <1>5, <2>1, <2>2, Marks
  <2>3. CASE ~Served(i)
    BY <1>2, <2>1, <2>3
  <2>4. QED
    BY <2>2, <2>3
<1>8. ~pendingError
  BY DEF Parking
<1>9. QED
  BY <1>1, <1>4, <1>6, <1>7, <1>8 DEF Answering

\* next(), which appends one answer.
LEMMA NextCallAnswers == HInv /\ NextCall => Answering
<1> SUFFICES ASSUME HInv, NextCall PROVE Answering
  OBVIOUS
<1>1. /\ answers \in Seq(Events \cup {Parked, Done, Failed}) /\ Len(answers) \in Nat
      /\ queue \in Seq(Events) /\ pendingError \in BOOLEAN /\ UNCHANGED cut
  BY DEF HInv, TypeOK, NextCall
<1>2. ASSUME NEW a \in Events \cup {Parked, Done, Failed}, Answered(a),
             UNCHANGED pendingError, a = Failed => pendingError,
             a \in Events => ~pendingError /\ queue # <<>>
      PROVE  Answering
  <2>1. /\ Len(answers') = Len(answers) + 1 /\ answers'[Len(answers) + 1] = a
        /\ \A i \in 1..Len(answers) : answers'[i] = answers[i]
    BY <1>1, <1>2, Appended DEF Answered
  <2>2. \A i \in 1..Len(answers') : i \in 1..Len(answers) \/ i = Len(answers) + 1
    BY <1>1, <2>1
  <2>3. a \notin Events => NoNew
    BY <1>1, <2>1, <2>2 DEF NoNew
  <2>4. QED
    BY <1>1, <1>2, <2>1, <2>2, <2>3, Marks DEF Answering
<1>3. CASE NextRejects
  BY <1>2, <1>3, Marks DEF NextRejects
<1>4. CASE NextTakes
  <2>1. queue # <<>> /\ Head(queue) \in Events /\ ~pendingError
    BY <1>1, <1>4 DEF NextTakes
  <2>2. QED
    BY <1>2, <1>4, <2>1, Marks DEF NextTakes
<1>5. CASE NextEnds
  BY <1>2, <1>5, Marks DEF NextEnds
<1>6. CASE NextParks
  BY <1>2, <1>6, Marks DEF NextParks
<1>7. QED
  BY <1>3, <1>4, <1>5, <1>6 DEF NextCall

\* Every step answers so.
LEMMA StepAnswers == HInv /\ [Next]_vars => Answering
<1> SUFFICES ASSUME HInv, [Next]_vars PROVE Answering
  OBVIOUS
<1>1. TypeOK
  BY DEF HInv
<1>2. CASE Return
  BY <1>2, FinishAnswers DEF Return
<1>3. CASE Opens \/ Receive \/ SchemasLoad
  BY <1>1, <1>3, AnswersAlone DEF Opens, Receive, SchemasLoad, client
<1>4. CASE HandleMessage
  <2>1. CASE done \/ Messages[handled'] = <<>>
    BY <1>1, <1>4, <2>1, AnswersAlone DEF HandleMessage, client
  <2>2. CASE ~(done \/ Messages[handled'] = <<>>)
    <3>1. Messages[handled'] \in Seq(Events)
      BY <1>1, <1>4, IterableAssumption DEF HandleMessage, TypeOK
    <3>2. QED
      BY <1>4, <2>2, <3>1, PushAnswers DEF HandleMessage
  <2>3. QED
    BY <2>1, <2>2
<1>5. CASE ServerCloses
  BY <1>5, FinishAnswers DEF ServerCloses, OnClose
<1>6. CASE StreamError
  BY <1>6, FailAnswers DEF StreamError
<1>7. CASE ConnectionBreaks
  BY <1>7, FinishAnswers DEF ConnectionBreaks, OnClose
<1>8. CASE UNCHANGED vars
  BY <1>1, <1>8, AnswersAlone DEF vars, client
<1>9. QED
  BY <1>2, <1>3, <1>4, <1>5, <1>6, <1>7, <1>8, NextCallAnswers DEF Next, System

\* Nothing is handled in an initial state.
LEMMA InitFInv == Init => FInv
BY WindowAssumption DEF Init, FInv

\* A step handles the next message or none, and rejects only with the error set.
LEMMA NextFInv == HInv /\ FInv /\ [Next]_vars => FInv'
<1> SUFFICES ASSUME HInv, FInv, [Next]_vars PROVE FInv'
  OBVIOUS
<1>1. Answering /\ TypeOK
  BY StepAnswers DEF HInv
<1>2. Len(answers) \in Nat /\ Len(answers') \in Nat
  <2>1. TypeOK'
    BY NextHInv DEF HInv
  <2>2. QED
    BY <1>1, <2>1 DEF TypeOK
<1>3. ASSUME NEW i \in 1..Len(answers'), answers'[i] = Failed PROVE pendingError'
  <2>1. CASE i <= Len(answers) /\ answers[i] = Failed
    BY <1>1, <1>2, <2>1 DEF FInv, Answering
  <2>2. CASE i <= Len(answers) => answers[i] # Failed
    BY <1>1, <1>3, <2>2 DEF Answering
  <2>3. QED
    BY <2>1, <2>2
<1>4. Len(given') = Ends[handled'] /\ \A i \in 1..Len(given') : given'[i] = Window[i]
  <2>1. CASE UNCHANGED <<given, handled>>
    BY <2>1 DEF FInv
  <2>2. CASE HandleMessage
    <3> DEFINE es == Messages[handled']
    <3>1. handled' = handled + 1 /\ handled' \in 1..Len(Messages) /\ handled = handled' - 1
          /\ given' = given \o es
      BY <1>1, <2>2, IterableAssumption DEF HandleMessage, TypeOK
    <3>2. es \in Seq(Events) /\ given \in Seq(Events)
      BY <1>1, <3>1, IterableAssumption DEF TypeOK
    <3>3. /\ Len(given') = Len(given) + Len(es) /\ Len(given) \in Nat /\ Len(es) \in Nat
          /\ \A j \in 1..Len(given) : given'[j] = given[j]
          /\ \A j \in 1..Len(es) : given'[Len(given) + j] = es[j]
      BY <3>1, <3>2
    <3>4. /\ Ends[handled'] = Ends[handled] + Len(es)
          /\ \A j \in 1..Len(es) : Window[Ends[handled] + j] = es[j]
      BY <3>1, WindowAssumption
    <3>5. ASSUME NEW i \in 1..Len(given') PROVE given'[i] = Window[i]
      <4>1. CASE i \in 1..Len(given)
        BY <3>3, <4>1 DEF FInv
      <4>2. CASE i \notin 1..Len(given)
        <5>1. i - Len(given) \in 1..Len(es) /\ i = Len(given) + (i - Len(given))
          BY <3>3, <4>2
        <5>2. QED
          BY <3>3, <3>4, <5>1 DEF FInv
      <4>3. QED
        BY <4>1, <4>2
    <3>6. QED
      BY <3>3, <3>4, <3>5 DEF FInv
  <2>3. QED
    BY <2>1, <2>2 DEF Next, NextCall, Return, System, Opens, Receive, SchemasLoad,
       ServerCloses, StreamError, ConnectionBreaks, OnClose, vars
<1>5. QED
  BY <1>3, <1>4 DEF FInv

\* The events that were given are the first k of the window.
LEMMA YieldedIs ==
  ASSUME TypeOK, FInv, NEW k \in Nat, Aligned(k)
  PROVE  Yielded = 1..k /\ k <= Len(Window)
<1>1. /\ answers \in Seq(Events \cup {Parked, Done, Failed}) /\ Len(answers) \in Nat
      /\ DOMAIN answers = 1..Len(answers) /\ Len(given) \in Nat /\ Len(queue) \in Nat
  BY DEF TypeOK
<1>2. Window \in Seq(Events) /\ Len(Window) \in Nat /\ DOMAIN Window = 1..Len(Window)
  BY WindowAssumption
<1>3. Len(given) <= Len(Window)
  <2>1. handled \in 0..Len(Messages)
    BY IterableAssumption DEF TypeOK
  <2>2. QED
    BY <1>2, <2>1, WindowAssumption DEF FInv
<1>4. k <= Len(given) /\ k <= Len(Window) /\ k <= Len(answers)
  <2>1. k <= Len(answers) /\ k + Len(queue) <= Len(given)
    BY DEF Aligned
  <2>2. QED
    BY <1>1, <1>2, <1>3, <2>1
<1>5. ASSUME NEW i \in 1..k PROVE answers[i] = Window[i]
  <2>1. answers[i] = given[i]
    BY DEF Aligned
  <2>2. i \in 1..Len(given)
    BY <1>1, <1>4
  <2>3. QED
    BY <2>1, <2>2 DEF FInv
<1>6. ASSUME NEW n \in 1..Len(Window), Has(Window[n]) PROVE n \in 1..k
  <2>1. PICK i \in 1..Len(answers) : answers[i] = Window[n]
    BY <1>1, <1>6 DEF Has
  <2>2. Window[n] \in Events
    BY <1>2
  <2>3. i <= k
    <3>1. i > k => answers[i] \in {Parked, Done, Failed}
      BY <2>1 DEF Aligned
    <3>2. QED
      BY <1>1, <2>1, <2>2, <3>1, Marks
  <2>4. i \in 1..k /\ Window[i] = Window[n]
    BY <1>5, <2>1, <2>3
  <2>5. i \in 1..Len(Window)
    BY <1>2, <1>4, <2>4
  <2>6. i = n
    BY <2>4, <2>5, WindowAssumption
  <2>7. QED
    BY <2>4, <2>6
<1>7. ASSUME NEW n \in 1..k PROVE Has(Window[n])
  BY <1>1, <1>4, <1>5 DEF Has
<1>8. 1..k \subseteq 1..Len(Window)
  BY <1>2, <1>4
<1>9. QED
  BY <1>2, <1>4, <1>6, <1>7, <1>8 DEF Yielded

\* What the feed's variables are: the first events of the window were given, all
\* of them when the consumer was told of an end that nothing has brought forward.
FeedState ==
  \E k \in Nat :
    /\ Yielded = 1..k /\ k <= Len(Window)
    /\ Has(Done) /\ cut = {} => k = Len(Window)

\* The invariants of the iterator say so.
LEMMA FeedStateHolds == HInv /\ FInv => FeedState
<1> SUFFICES ASSUME HInv, FInv PROVE FeedState
  OBVIOUS
<1> PICK k \in Nat : Aligned(k) /\ Ending(k)
  BY DEF HInv
<1>1. TypeOK /\ Yielded = 1..k /\ k <= Len(Window)
  BY YieldedIs DEF HInv
<1>2. ASSUME Has(Done), cut = {} PROVE k = Len(Window)
  <2>1. \E i \in 1..Len(answers) : answers[i] = Done
    BY <1>1, <1>2 DEF Has, TypeOK
  <2>2. done /\ ~pendingError /\ queue = <<>>
    BY <2>1 DEF Ending
  <2>3. handled = Len(Messages) /\ k + Len(queue) = Len(given)
    BY <1>2, <2>2 DEF Ending
  <2>4. Len(given) = Len(Window)
    BY <2>3, WindowAssumption DEF FInv
  <2>5. QED
    BY <2>2, <2>3, <2>4
<1>3. QED
  BY <1>1, <1>2 DEF FeedState

\* An initial state is one of a feed that is open.
LEMMA FeedInit == Init => Feed!Init
<1> SUFFICES ASSUME Init PROVE Feed!Init
  OBVIOUS
<1>1. answers = <<>> /\ cut = {}
  BY DEF Init
<1>2. ~Has(Failed) /\ ~Has(Done) /\ Yielded = {}
  BY <1>1 DEF Has, Yielded
<1>3. DOMAIN Window \subseteq Nat
  BY WindowAssumption
<1>4. QED
  BY <1>1, <1>2, <1>3 DEF Feed!Init, Told

\* Every step is one of the feed, or a stutter.
LEMMA FeedStep ==
  ASSUME HInv, FInv, HInv', FInv', FeedState, FeedState', [Next]_vars
  PROVE  [Feed!Next]_(Feed!vars)
<1>1. Answering /\ TypeOK /\ TypeOK'
  BY StepAnswers DEF HInv
<1>2. /\ DOMAIN answers = 1..Len(answers) /\ DOMAIN answers' = 1..Len(answers')
      /\ Len(answers) \in Nat /\ Len(answers') \in Nat
  BY <1>1 DEF TypeOK
<1>3. ASSUME NEW a, a # Parked, Has(a) PROVE Has(a)'
  <2>1. PICK i \in 1..Len(answers) : answers[i] = a
    BY <1>2, <1>3 DEF Has
  <2>2. i \in 1..Len(answers') /\ answers'[i] = a
    BY <1>1, <1>2, <1>3, <2>1 DEF Answering
  <2>3. QED
    BY <1>2, <2>2 DEF Has
<1>4. Yielded \subseteq Yielded'
  <2> SUFFICES ASSUME NEW n \in DOMAIN Window, Has(Window[n]) PROVE Has(Window[n])'
    BY DEF Yielded
  <2>1. Window[n] # Parked
    BY WindowAssumption, Marks
  <2>2. QED
    BY <1>3, <2>1
<1>5. NoNew => Yielded' = Yielded
  <2> SUFFICES ASSUME NoNew, NEW n \in DOMAIN Window, Has(Window[n])' PROVE Has(Window[n])
    BY <1>4 DEF Yielded
  <2>1. PICK i \in 1..Len(answers') : answers'[i] = Window[n]
    BY <1>2 DEF Has
  <2>2. Window[n] \in Events
    BY WindowAssumption
  <2>3. i \in 1..Len(answers) /\ answers[i] = Window[n]
    BY <1>2, <2>1, <2>2 DEF NoNew
  <2>4. QED
    BY <1>2, <2>3 DEF Has
<1>6. Has(Failed) => pendingError
  BY <1>2 DEF Has, FInv
<1>7. Has(Failed)' => pendingError'
  BY <1>2 DEF Has, FInv
<1>8. Has(Done) => done /\ ~pendingError /\ queue = <<>>
  BY <1>2 DEF HInv, Ending, Has
<1>9. Has(Failed)' /\ ~Has(Failed) => NoNew
  <2> SUFFICES ASSUME Has(Failed)', ~Has(Failed) PROVE NoNew
    OBVIOUS
  <2>1. PICK i \in 1..Len(answers') : answers'[i] = Failed
    BY <1>2 DEF Has
  <2>2. i <= Len(answers) => answers[i] # Failed
    BY <1>2 DEF Has
  <2>3. QED
    BY <1>1, <2>1, <2>2 DEF Answering
<1>10. (cut # {}) => (cut' # {})
  BY <1>1 DEF Answering
<1>11. CASE Told = "failed"
  <2>1. Has(Failed)
    BY <1>11 DEF Told
  <2>2. Told' = Told /\ Yielded' = Yielded
    BY <1>1, <1>3, <1>5, <1>6, <2>1, Marks DEF Told, Answering
  <2>3. QED
    BY <1>10, <2>2 DEF Feed!Next, Feed!Cut, Feed!vars
<1>12. CASE Told = "done"
  <2>1. ~Has(Failed) /\ Has(Done)
    BY <1>12 DEF Told
  <2>2. ~Has(Failed)' /\ Has(Done)'
    BY <1>1, <1>3, <1>7, <1>8, <2>1, Marks DEF Answering
  <2>3. Told' = Told /\ Yielded' = Yielded
    BY <1>1, <1>5, <1>8, <2>1, <2>2 DEF Told, Answering
  <2>4. QED
    BY <1>10, <2>3 DEF Feed!Next, Feed!Cut, Feed!vars
<1>13. CASE Told = "open" /\ Told' = "failed"
  <2>1. ~Has(Failed) /\ Has(Failed)'
    BY <1>13 DEF Told
  <2>2. QED
    BY <1>5, <1>9, <1>13, <2>1 DEF Feed!Next, Feed!Fail
<1>14. CASE Told = "open" /\ Told' = "done"
  <2>1. Has(Done)'
    BY <1>14 DEF Told
  <2>2. Yielded' \subseteq DOMAIN Window
    BY DEF Yielded
  <2>3. cut' # {} \/ Yielded' = DOMAIN Window
    BY <2>1, WindowAssumption DEF FeedState
  <2>4. QED
    BY <1>4, <1>14, <2>2, <2>3 DEF Feed!Next, Feed!Done
<1>15. CASE Told = "open" /\ Told' = "open"
  <2>1. PICK k \in Nat : Yielded' = 1..k /\ k <= Len(Window)
    BY DEF FeedState
  <2>2. CASE k = 0
    <3>1. Yielded' = Yielded
      BY <1>4, <2>1, <2>2
    <3>2. QED
      BY <1>10, <1>15, <3>1 DEF Feed!Next, Feed!Cut, Feed!vars
  <2>3. CASE k # 0
    <3>1. k \in Yielded' /\ Yielded' = {i \in DOMAIN Window : i <= k}
      BY <2>1, <2>3, WindowAssumption
    <3>2. Feed!Deliver
      BY <1>4, <1>10, <1>15, <3>1 DEF Feed!Deliver
    <3>3. QED
      BY <3>2 DEF Feed!Next
  <2>4. QED
    BY <2>2, <2>3
<1>16. Told \in {"open", "done", "failed"} /\ Told' \in {"open", "done", "failed"}
  BY DEF Told
<1>17. QED
  BY <1>11, <1>12, <1>13, <1>14, <1>15, <1>16

\* The iterator implements HistoryFeed: for every window and its messages, every
\* consumer and every fault, what the calls of next() are answered is a read of
\* the update history as the abstract specification has it.
THEOREM IterableIsAFeed == Spec => ImplementsFeed
<1>1. Init => HInv /\ FInv /\ Feed!Init
  BY InitHInv, InitFInv, FeedInit
<1>2. HInv /\ FInv /\ [Next]_vars => (HInv /\ FInv)'
  BY NextHInv, NextFInv
<1>3. HInv /\ FInv => FeedState
  BY FeedStateHolds
<1>4. HInv /\ FInv /\ (HInv /\ FInv)' /\ FeedState /\ FeedState' /\ [Next]_vars
        => [Feed!Next]_(Feed!vars)
  BY FeedStep
<1>5. QED
  BY <1>1, <1>2, <1>3, <1>4, PTL DEF Spec, ImplementsFeed, Feed!Spec
=============================================================================
