------------------------- MODULE JournalWatchProofs -------------------------
(***************************************************************************)
(* The journal watches, for any journal, any limits and any number of      *)
(* restarts: what the scanners find in the lines they are given, that the  *)
(* saved position is never ahead of the work, that an entry becomes a      *)
(* problem once, and the throttling of the core watch.                     *)
(***************************************************************************)
EXTENDS JournalWatch, WellFoundedInduction, SequenceTheorems, TLAPS

-----------------------------------------------------------------------------
(***************************************************************************)
(* Induction over the turns of a loop: the least number out of a set of    *)
(* numbers is a counterexample to the step.                                *)
(***************************************************************************)
LEMMA Least ==
  ASSUME NEW T, T \subseteq Nat, T # {}
  PROVE  \E x \in T : \A y \in T : x <= y
<1> DEFINE R == OpToRel(<, Nat)
<1>1. IsWellFoundedOn(R, Nat)
  BY NatLessThanWellFounded, Zenon
<1>2. \A x, y \in Nat : <<y, x>> \in R <=> y < x
  BY DEF OpToRel
<1> HIDE DEF R
<1>3. PICK x \in T : \A y \in T : <<y, x>> \notin R
  BY <1>1, WFMin
<1>4. \A y \in T : x <= y
  <2> TAKE y \in T
  <2>1. x \in Nat /\ y \in Nat /\ <<y, x>> \notin R
    BY <1>3
  <2>2. ~(y < x)
    BY <1>2, <2>1
  <2> QED
    BY <2>1, <2>2
<1> QED
  BY <1>4

\* Induction over the natural numbers, for a set.
LEMMA Induction ==
  ASSUME NEW T, 0 \in T, \A n \in Nat : n \in T => n + 1 \in T
  PROVE  Nat \subseteq T
<1> DEFINE C == Nat \ T
<1> SUFFICES ASSUME C # {} PROVE FALSE
  OBVIOUS
<1>1. PICK x \in C : \A y \in C : x <= y
  BY Least
<1>2. x - 1 \in Nat /\ x - 1 \in T
  BY <1>1
<1> QED
  BY <1>1, <1>2

\* A loop whose turns map the states in S to states in S.
IsLoop(f, S, s0, step) ==
  f \in [Nat -> S] /\ f[0] = s0 /\ \A n \in Nat : n # 0 => f[n] = step[f[n - 1]]

\* A loop over the states of S has a state after every number of turns.
LEMMA Iterates ==
  ASSUME NEW S, NEW s0 \in S, NEW step \in [S -> S]
  PROVE  \E f : IsLoop(f, S, s0, step)
<1> DEFINE G(n, g) == g \in [0..n -> S] /\ g[0] = s0 /\ \A m \in 0..n : m # 0 => g[m] = step[g[m - 1]]
           T == {n \in Nat : \E g \in [0..n -> S] : G(n, g)}
<1>1. Nat \subseteq T
  <2>1. 0 \in T
    <3> DEFINE g == [m \in 0..0 |-> s0]
    <3>1. G(0, g)
      OBVIOUS
    <3> QED
      BY <3>1
  <2>2. ASSUME NEW n \in Nat, n \in T PROVE n + 1 \in T
    <3>1. PICK g \in [0..n -> S] : G(n, g)
      BY <2>2
    <3> DEFINE h == [m \in 0..(n + 1) |-> IF m = n + 1 THEN step[g[n]] ELSE g[m]]
    <3>2. G(n + 1, h)
      BY <3>1
    <3> QED
      BY <3>2
  <2> HIDE DEF T
  <2> QED
    BY <2>1, <2>2, Induction
<1> DEFINE pick(n) == CHOOSE g \in [0..n -> S] : G(n, g)
           f == [n \in Nat |-> pick(n)[n]]
<1>2. \A n \in Nat : G(n, pick(n))
  BY <1>1
<1> HIDE DEF pick
<1>3. ASSUME NEW n \in Nat PROVE \A m \in 0..n : pick(n + 1)[m] = pick(n)[m]
  <2> DEFINE g == pick(n)  h == pick(n + 1)
             U == {m \in Nat : m <= n => h[m] = g[m]}
  <2>0. G(n, g) /\ G(n + 1, h)
    BY <1>2
  <2> HIDE DEF g, h
  <2>1. 0 \in U
    BY <2>0
  <2>2. \A m \in Nat : m \in U => m + 1 \in U
    BY <2>0
  <2>3. Nat \subseteq U
    <3> HIDE DEF U
    <3> QED
      BY <2>1, <2>2, Induction
  <2> QED
    BY <2>3 DEF g, h
<1>4. f \in [Nat -> S]
  BY <1>2
<1>5. f[0] = s0
  BY <1>2
<1>6. ASSUME NEW n \in Nat, n # 0 PROVE f[n] = step[f[n - 1]]
  <2>1. pick(n)[n] = step[pick(n)[n - 1]]
    BY <1>2, <1>6
  <2>2. n - 1 \in Nat /\ (n - 1) + 1 = n /\ n - 1 \in 0..(n - 1)
    BY <1>6
  <2>3. pick(n)[n - 1] = pick(n - 1)[n - 1]
    BY <1>3, <2>2
  <2> QED
    BY <2>1, <2>2, <2>3
<1> HIDE DEF f
<1>7. IsLoop(f, S, s0, step)
  BY <1>4, <1>5, <1>6 DEF IsLoop
<1> QED
  BY <1>7

\* A set of numbers that is not empty has a least one, and Min is it.
LEMMA MinIs ==
  ASSUME NEW T, T \subseteq Nat, T # {}
  PROVE  Min(T) \in T /\ \A y \in T : Min(T) <= y
BY Least DEF Min

OopsState(i, st, bt, prev, list) == [i |-> i, st |-> st, bt |-> bt, prev |-> prev, found |-> list]

\* A line that a call trace goes on with and that starts no other oops.
Traced(l) == Continues(l) /\ ~suspicious_line(l)

\* What one turn of the loop does.
Turn(text, s, p, t) ==
  \/ /\ s.st = 0 /\ ~suspicious_line(text[s.i])
     /\ t = OopsState(s.i + 1, 0, FALSE, p, s.found)
  \/ /\ s.st = 0 /\ suspicious_line(text[s.i]) /\ Markers(text, s.i) # {}
     /\ t = OopsState(Min(Markers(text, s.i)) + 1, 0, FALSE, p,
                      record_oops(text, s.found, s.i, Min(Markers(text, s.i)) - 1))
  \/ /\ s.st = 0 /\ suspicious_line(text[s.i]) /\ Markers(text, s.i) = {}
     /\ \E bt \in BOOLEAN : t = OopsState(s.i + 1, s.i, bt, p, s.found)
  \/ /\ s.st # 0 /\ s.bt
     /\ t = OopsState(s.i + 1, 0, FALSE, p, record_oops(text, s.found, s.st, s.i - 1))
  \/ /\ s.st # 0 /\ s.bt /\ ~suspicious_line(text[s.i])
     /\ t = OopsState(s.i + 1, 0, FALSE, p, record_oops(text, s.found, s.st, s.i))
  \/ /\ s.st # 0 /\ s.bt /\ Traced(text[s.i])
     /\ IF s.i + 1 - s.st > TooLong
        THEN t = OopsState(s.i + 1, 0, FALSE, p, s.found)
        ELSE t = OopsState(s.i + 1, s.st, TRUE, p, s.found)
  \/ /\ s.st # 0 /\ ~s.bt
     /\ IF s.i + 1 - s.st > TooLong
        THEN t = OopsState(s.i + 1, 0, FALSE, p, s.found)
        ELSE IF Begins(text[s.i]) THEN t = OopsState(s.i + 1, s.st, TRUE, p, s.found)
        ELSE IF s.i + 1 - s.st > OneLine
        THEN t = OopsState(s.i + 1, 0, FALSE, p, record_oops(text, s.found, s.st, s.st))
        ELSE t = OopsState(s.i + 1, s.st, FALSE, p, s.found)

\* record_oops() adds at most one range to the list.
LEMMA RecordType ==
  ASSUME NEW text, NEW list \in Ranges, NEW a \in Nat, NEW b \in Nat
  PROVE  record_oops(text, list, a, b) \in Ranges
BY DEF record_oops, Ranges

\* The end markers that the look-ahead of the scan reaches.
LEMMA MarkersAre ==
  ASSUME NEW L, NEW text \in Seq(L), NEW i \in Nat
  PROVE  /\ Markers(text, i) = {k \in (i + 1)..Len(text) : k <= i + LookAhead /\ text[k] = "end"}
         /\ Markers(text, i) \subseteq Nat
<1>1. Len(text) \in Nat /\ i + LookAhead \in Nat
  BY KoopsAssumption
<1>2. Min({Len(text), i + LookAhead}) \in {Len(text), i + LookAhead}
      /\ \A y \in {Len(text), i + LookAhead} : Min({Len(text), i + LookAhead}) <= y
  BY <1>1, MinIs
<1> DEFINE m == Min({Len(text), i + LookAhead})
<1> HIDE DEF m
<1>3. m \in {Len(text), i + LookAhead} /\ m <= Len(text) /\ m <= i + LookAhead
  BY <1>2 DEF m
<1>4. Markers(text, i) = {k \in (i + 1)..m : text[k] = "end"}
  BY DEF Markers, m
<1> QED
  BY <1>1, <1>3, <1>4

\* What a line does to the scan is one of the turns.
LEMMA LineIsTurn ==
  ASSUME NEW text, NEW s \in OopsStates
  PROVE  \E p \in 0..1 : Turn(text, s, p, oops_line(text, s))
<1> DEFINE starts == s.st = 0 /\ suspicious_line(text[s.i])
           ends   == IF starts THEN Markers(text, s.i) ELSE {}
           at     == IF ends = {} THEN s.i ELSE Min(ends)
           first  == IF starts THEN s.i ELSE s.st
           inside == s.bt \/ ends # {}
           level  == Level(text[at])
           over   == first # 0 /\ inside /\ Over(text[s.i], level, s.prev)
           upto   == IF Inclusive(text[s.i], level, s.prev) THEN at ELSE at - 1
           enters == first # 0 /\ ~inside /\ Begins(text[s.i])
           st2    == IF over THEN 0 ELSE first
           bt2    == ~over /\ (inside \/ enters)
           after  == AfterLine(at + 1, st2, bt2)
           found2 == IF over THEN record_oops(text, s.found, first, upto)
                     ELSE IF after = "one_line" THEN record_oops(text, s.found, st2, st2)
                     ELSE s.found
<1>1. oops_line(text, s) = OopsState(at + 1, IF after = "go_on" THEN st2 ELSE 0,
                                      after = "go_on" /\ bt2, level, found2)
  BY Zenon DEF oops_line, OopsState
<1>2. s.i \in Nat \ {0} /\ s.st \in Nat /\ s.bt \in BOOLEAN /\ (s.st = 0 => ~s.bt)
  BY DEF OopsStates
<1>3. level \in 0..1
  BY DEF Level
<1>4. OneLine \in Nat /\ TooLong \in Nat /\ 1 < OneLine /\ 1 < TooLong
  BY KoopsAssumption
<1>5. Inclusive(text[s.i], level, s.prev) => ~suspicious_line(text[s.i])
  BY DEF Inclusive, suspicious_line
<1> SUFFICES Turn(text, s, level, oops_line(text, s))
  BY <1>3
<1> HIDE DEF level
<1>6. CASE s.st = 0 /\ ~starts
  <2>1. /\ ends = {} /\ at = s.i /\ first = 0 /\ ~over /\ ~enters /\ st2 = 0 /\ bt2 = FALSE
    BY <1>2, <1>6
  <2>2. after = "go_on"
    BY <2>1 DEF AfterLine
  <2>3. found2 = s.found
    BY <2>1, <2>2
  <2> HIDE DEF at, after, bt2, st2, found2
  <2>4. oops_line(text, s) = OopsState(s.i + 1, 0, FALSE, level, s.found)
    BY <1>1, <2>1, <2>2, <2>3
  <2> QED
    BY <1>6, <2>4 DEF Turn
<1>7. CASE starts /\ Markers(text, s.i) # {}
  <2>1. ends = Markers(text, s.i) /\ at = Min(Markers(text, s.i)) /\ first = s.i /\ inside
    BY <1>7
  <2>2. over /\ st2 = 0 /\ bt2 = FALSE
    BY <1>2, <1>7, <2>1 DEF Over
  <2>3. after = "go_on"
    BY <2>2 DEF AfterLine
  <2>4. found2 = record_oops(text, s.found, s.i, Min(Markers(text, s.i)) - 1)
    BY <1>5, <1>7, <2>1, <2>2
  <2> HIDE DEF at, after, bt2, st2, found2
  <2>5. oops_line(text, s) = OopsState(Min(Markers(text, s.i)) + 1, 0, FALSE, level,
                                        record_oops(text, s.found, s.i, Min(Markers(text, s.i)) - 1))
    BY <1>1, <2>1, <2>2, <2>3, <2>4
  <2> QED
    BY <1>7, <2>5 DEF Turn
<1>8. CASE starts /\ Markers(text, s.i) = {}
  <2>1. ends = {} /\ at = s.i /\ first = s.i /\ ~inside
    BY <1>2, <1>8
  <2>2. ~over /\ st2 = s.i /\ bt2 \in BOOLEAN
    BY <1>2, <1>8, <2>1
  <2>3. after = "go_on"
    <3> HIDE DEF at, st2, bt2
    <3>1. ~(at + 1 - st2 > TooLong) /\ ~(at + 1 - st2 > OneLine)
      BY <1>2, <1>4, <2>1, <2>2
    <3> QED
      BY <1>2, <1>4, <2>1, <2>2, <3>1 DEF AfterLine
  <2>4. found2 = s.found
    BY <2>2, <2>3
  <2> HIDE DEF at, after, bt2, st2, found2
  <2>5. oops_line(text, s) = OopsState(s.i + 1, s.i, bt2, level, s.found)
    BY <1>1, <2>1, <2>2, <2>3, <2>4
  <2> QED
    BY <1>8, <2>2, <2>5 DEF Turn
<1>9. CASE s.st # 0
  <2>1. ends = {} /\ at = s.i /\ first = s.st /\ (inside <=> s.bt)
    BY <1>2, <1>9
  <2>2. CASE over
    <3>1. st2 = 0 /\ bt2 = FALSE /\ s.bt
      BY <2>1, <2>2
    <3>2. after = "go_on"
      BY <3>1 DEF AfterLine
    <3>3. found2 = record_oops(text, s.found, s.st, upto)
      BY <2>1, <2>2
    <3>4. upto = s.i - 1 \/ (upto = s.i /\ ~suspicious_line(text[s.i]))
      BY <1>5, <2>1
    <3> HIDE DEF at, after, bt2, st2, found2, upto
    <3>5. oops_line(text, s) = OopsState(s.i + 1, 0, FALSE, level, record_oops(text, s.found, s.st, upto))
      BY <1>1, <2>1, <3>1, <3>2, <3>3
    <3> QED
      BY <1>9, <3>1, <3>4, <3>5 DEF Turn
  <2>3. CASE ~over /\ (s.bt \/ Begins(text[s.i]))
    <3>0. st2 = s.st /\ bt2 = TRUE
      BY <1>9, <2>1, <2>3
    <3>1. after = AfterLine(s.i + 1, s.st, TRUE)
      BY <2>1, <3>0
    <3>2. found2 = IF after = "one_line" THEN record_oops(text, s.found, s.st, s.st) ELSE s.found
      BY <2>3, <3>0
    <3>3. s.bt => Traced(text[s.i])
      BY <1>9, <2>1, <2>3 DEF Over, Breaks, Traced
    <3> HIDE DEF at, after, bt2, st2, found2, over
    <3>4. s.i + 1 \in Nat /\ s.st \in Nat \ {0}
      BY <1>2, <1>9
    <3>5. CASE s.i + 1 - s.st > TooLong
      <4>0. AfterLine(s.i + 1, s.st, TRUE) = "cancel"
        BY <1>2, <1>4, <3>4, <3>5 DEF AfterLine
      <4>1. after = "cancel"
        BY <3>1, <4>0
      <4>2. oops_line(text, s) = OopsState(s.i + 1, 0, FALSE, level, s.found)
        BY <1>1, <2>1, <3>2, <4>1
      <4> QED
        BY <1>9, <1>2, <2>3, <3>3, <3>5, <4>2 DEF Turn
    <3>6. CASE ~(s.i + 1 - s.st > TooLong)
      <4>0. AfterLine(s.i + 1, s.st, TRUE) = "go_on"
        BY <1>2, <1>4, <3>4, <3>6 DEF AfterLine
      <4>1. after = "go_on"
        BY <3>1, <4>0
      <4>2. oops_line(text, s) = OopsState(s.i + 1, s.st, TRUE, level, s.found)
        BY <1>1, <2>1, <3>0, <3>2, <4>1
      <4> QED
        BY <1>9, <1>2, <2>3, <3>3, <3>6, <4>2 DEF Turn
    <3> QED
      BY <3>5, <3>6
  <2>4. CASE ~over /\ ~(s.bt \/ Begins(text[s.i]))
    <3>0. st2 = s.st /\ bt2 = FALSE
      BY <1>9, <2>1, <2>4
    <3>1. after = AfterLine(s.i + 1, s.st, FALSE)
      BY <2>1, <3>0
    <3>2. found2 = IF after = "one_line" THEN record_oops(text, s.found, s.st, s.st) ELSE s.found
      BY <2>4, <3>0
    <3>3. ~s.bt
      BY <2>4
    <3> HIDE DEF at, after, bt2, st2, found2, over
    <3>4. s.i + 1 \in Nat /\ s.st \in Nat \ {0}
      BY <1>2, <1>9
    <3>5. CASE s.i + 1 - s.st > TooLong
      <4>0. AfterLine(s.i + 1, s.st, FALSE) = "cancel"
        BY <1>2, <1>4, <3>4, <3>5 DEF AfterLine
      <4>1. after = "cancel"
        BY <3>1, <4>0
      <4>2. oops_line(text, s) = OopsState(s.i + 1, 0, FALSE, level, s.found)
        BY <1>1, <2>1, <3>2, <4>1
      <4> QED
        BY <1>9, <1>2, <2>4, <3>3, <3>5, <4>2 DEF Turn
    <3>6. CASE ~(s.i + 1 - s.st > TooLong) /\ s.i + 1 - s.st > OneLine
      <4>0. AfterLine(s.i + 1, s.st, FALSE) = "one_line"
        BY <1>2, <1>4, <3>4, <3>6 DEF AfterLine
      <4>1. after = "one_line"
        BY <3>1, <4>0
      <4>2. oops_line(text, s) = OopsState(s.i + 1, 0, FALSE, level, record_oops(text, s.found, s.st, s.st))
        BY <1>1, <2>1, <3>2, <4>1
      <4> QED
        BY <1>9, <2>4, <3>3, <3>6, <4>2 DEF Turn
    <3>7. CASE ~(s.i + 1 - s.st > TooLong) /\ ~(s.i + 1 - s.st > OneLine)
      <4>0. AfterLine(s.i + 1, s.st, FALSE) = "go_on"
        BY <1>2, <1>4, <3>4, <3>7 DEF AfterLine
      <4>1. after = "go_on"
        BY <3>1, <4>0
      <4>2. oops_line(text, s) = OopsState(s.i + 1, s.st, FALSE, level, s.found)
        BY <1>1, <2>1, <3>0, <3>2, <4>1
      <4> QED
        BY <1>9, <2>4, <3>3, <3>7, <4>2 DEF Turn
    <3> QED
      BY <3>5, <3>6, <3>7
  <2> QED
    BY <2>2, <2>3, <2>4
<1> QED
  BY <1>6, <1>7, <1>8, <1>9

\* The look-ahead stops at the first end marker.
LEMMA FirstMarker ==
  ASSUME NEW L, NEW text \in Seq(L), NEW i \in Nat \ {0}, Markers(text, i) # {}
  PROVE  LET at == Min(Markers(text, i)) IN
         /\ at \in Nat /\ i < at /\ at <= Len(text) /\ at <= i + LookAhead /\ text[at] = "end"
         /\ \A k \in i + 1..at - 1 : text[k] # "end"
<1> DEFINE at == Min(Markers(text, i))
<1>1. at \in Markers(text, i) /\ \A y \in Markers(text, i) : at <= y
  BY MarkersAre, MinIs
<1> HIDE DEF at
<1>2. /\ at \in Nat /\ i < at /\ at <= Len(text) /\ at <= i + LookAhead /\ text[at] = "end"
  BY <1>1, MarkersAre, KoopsAssumption
<1>3. ASSUME NEW k \in i + 1..at - 1 PROVE text[k] # "end"
  <2>1. k \in Nat /\ i + 1 <= k /\ k < at
    BY <1>2
  <2>2. k \notin Markers(text, i)
    BY <1>1, <1>2, <2>1
  <2>3. k \in (i + 1)..Len(text) /\ k <= i + LookAhead
    BY <1>2, <2>1, KoopsAssumption
  <2> QED
    BY <2>2, <2>3, MarkersAre
<1> QED
  BY <1>2, <1>3 DEF at

\* A turn goes forward, and not past the line behind the last.
LEMMA TurnType ==
  ASSUME NEW L, NEW text \in Seq(L), NEW s \in OopsStates, NEW p \in 0..1, NEW t, Turn(text, s, p, t)
  PROVE  t \in OopsStates /\ s.i < t.i /\ (s.i <= Len(text) => t.i <= Len(text) + 1)
<1>1. s.i \in Nat \ {0} /\ s.st \in Nat /\ s.found \in Ranges /\ Len(text) \in Nat
  BY DEF OopsStates
<1>2. ASSUME NEW i \in Nat \ {0}, NEW st \in Nat, NEW bt \in BOOLEAN, NEW list \in Ranges, st = 0 => ~bt,
             t = OopsState(i, st, bt, p, list)
      PROVE  t \in OopsStates /\ t.i = i
  BY <1>2 DEF OopsState, OopsStates
<1>3. CASE s.st = 0 /\ suspicious_line(text[s.i]) /\ Markers(text, s.i) # {}
  <2> DEFINE at == Min(Markers(text, s.i))
  <2>1. at \in Nat /\ s.i < at /\ at <= Len(text)
    BY <1>1, <1>3, FirstMarker
  <2>2. t = OopsState(at + 1, 0, FALSE, p, record_oops(text, s.found, s.i, at - 1))
    BY <1>3 DEF Turn
  <2> HIDE DEF at
  <2>3. record_oops(text, s.found, s.i, at - 1) \in Ranges
    BY <1>1, <2>1, RecordType
  <2>4. at + 1 \in Nat \ {0} /\ s.i < at + 1 /\ at + 1 <= Len(text) + 1
    BY <1>1, <2>1
  <2>5. t \in OopsStates /\ t.i = at + 1
    BY <1>2, <2>2, <2>3, <2>4
  <2> QED
    BY <2>4, <2>5
<1>4. CASE ~(s.st = 0 /\ suspicious_line(text[s.i]) /\ Markers(text, s.i) # {})
  <2>1. \E st \in Nat, bt \in BOOLEAN, list \in Ranges : (st = 0 => ~bt) /\ t = OopsState(s.i + 1, st, bt, p, list)
    <3>1. /\ record_oops(text, s.found, s.st, s.i - 1) \in Ranges /\ record_oops(text, s.found, s.st, s.i) \in Ranges
          /\ record_oops(text, s.found, s.st, s.st) \in Ranges
      BY <1>1, RecordType
    <3> QED
      BY <1>1, <1>4, <3>1 DEF Turn
  <2> QED
    BY <1>1, <1>2, <2>1
<1> QED
  BY <1>3, <1>4

\* A turn behind the last line changes nothing.
LEMMA StepType ==
  ASSUME NEW L, NEW text \in Seq(L), NEW s \in OopsStates
  PROVE  oops_step(text, s) \in OopsStates
BY LineIsTurn, TurnType DEF oops_step

\* The loop of the scan, turn by turn.
LEMMA OopsLoop ==
  ASSUME NEW L, NEW text \in Seq(L)
  PROVE  /\ oops_loop(text)[0] = NoOops
         /\ \A k \in Nat : oops_loop(text)[k + 1] = oops_step(text, oops_loop(text)[k])
<1> DEFINE step == [s \in OopsStates |-> oops_step(text, s)]
<1>1. NoOops \in OopsStates
  BY DEF NoOops, OopsStates, Ranges
<1>2. step \in [OopsStates -> OopsStates]
  BY StepType
<1>3. PICK f : IsLoop(f, OopsStates, NoOops, step)
  <2> HIDE DEF step
  <2> QED
    BY <1>1, <1>2, Iterates, Zenon
<1>4. f = [k \in Nat |-> IF k = 0 THEN NoOops ELSE step[f[k - 1]]]
  BY <1>3 DEF IsLoop
<1> DEFINE g == oops_loop(text)
<1>5. g = [k \in Nat |-> IF k = 0 THEN NoOops ELSE step[g[k - 1]]]
  BY <1>4, Zenon DEF oops_loop
<1> HIDE DEF g
<1>6. g[0] = NoOops
  BY <1>5
<1>7. ASSUME NEW k \in Nat PROVE g[k + 1] = step[g[k]]
  <2>1. k + 1 \in Nat /\ k + 1 # 0 /\ (k + 1) - 1 = k
    OBVIOUS
  <2> HIDE DEF step
  <2> QED
    BY <1>5, <2>1
<1> DEFINE T == {k \in Nat : g[k] \in OopsStates}
<1>8. 0 \in T
  BY <1>1, <1>6
<1>9. ASSUME NEW k \in Nat, k \in T PROVE k + 1 \in T
  <2>1. g[k] \in OopsStates
    BY <1>9
  <2>2. step[g[k]] \in OopsStates
    <3> HIDE DEF step
    <3> QED
      BY <1>2, <2>1
  <2>3. g[k + 1] \in OopsStates
    BY <1>7, <2>2, Zenon
  <2> QED
    BY <2>3
<1>10. Nat \subseteq T
  <2> HIDE DEF T
  <2> QED
    BY <1>8, <1>9, Induction
<1>11. \A k \in Nat : g[k + 1] = oops_step(text, g[k])
  BY <1>7, <1>10
<1> QED
  BY <1>6, <1>11 DEF g

-----------------------------------------------------------------------------
(***************************************************************************)
(* koops_extract_oopses_from_lines(): the invariant of its loop.  What was *)
(* found is sound, in the order of the log and before the line that is     *)
(* being read, and every suspicious line before it is accounted for.       *)
(***************************************************************************)
LEMMA MaxOfTwo ==
  ASSUME NEW x \in Int, NEW y \in Int
  PROVE  Max({x, y}) = IF x >= y THEN x ELSE y
<1> DEFINE m == IF x >= y THEN x ELSE y
<1>1. m \in {x, y} /\ \A z \in {x, y} : m >= z
  OBVIOUS
<1>2. \A k \in {x, y} : (\A z \in {x, y} : k >= z) => k = m
  OBVIOUS
<1>3. Max({x, y}) \in {x, y} /\ \A z \in {x, y} : Max({x, y}) >= z
  BY <1>1 DEF Max
<1> QED
  BY <1>2, <1>3

\* The lines up to which all is decided.
Edge(s) == IF s.st = 0 THEN s.i ELSE s.st

SoundRange(text, r) ==
  /\ r[1] \in 1..Len(text) /\ r[2] \in r[1]..Len(text)
  /\ suspicious_line(text[r[1]])
  /\ r[2] - r[1] <= Max({TooLong, LookAhead})
  /\ \A j \in r[1]..r[2] : text[j] # "end" \/ j - r[1] > LookAhead

\* What was found is sound, in order, and before line e.
FoundUpTo(text, list, e) ==
  /\ list \in Ranges
  /\ \A k \in 1..Len(list) : SoundRange(text, list[k]) /\ list[k][2] < e
  /\ \A k, l \in 1..Len(list) : k < l => list[k][2] < list[l][1]

Explained(text, list, j) ==
  \/ ~suspicious_line(text[j])
  \/ \E k \in 1..Len(list) : list[k][1] <= j /\ j <= list[k][2]
  \/ text[j] = "brief"
  \/ \E k \in 1..Len(list) : list[k][2] = j - 1
  \/ \E c \in 1..(j - 1) : c >= j - OneLine /\ suspicious_line(text[c])
  \/ /\ j + TooLong <= Len(text)
     /\ \A m \in (j + OneLine + 1)..(j + TooLong) : Continues(text[m])

\* An oops that is being read.
Reading(text, s) ==
  /\ s.st < s.i /\ suspicious_line(text[s.st]) /\ Markers(text, s.st) = {}
  /\ s.i - s.st <= TooLong
  /\ ~s.bt => s.i - s.st <= OneLine
  /\ s.bt => \A m \in (s.st + OneLine + 1)..(s.i - 1) : Traced(text[m])

OopsInv(text, s) ==
  /\ s \in OopsStates /\ s.i <= Len(text) + 1
  /\ FoundUpTo(text, s.found, Edge(s))
  /\ s.st # 0 => Reading(text, s)
  /\ \A j \in 1..(Edge(s) - 1) : Explained(text, s.found, j)

\* Recording a sound oops behind the others keeps them in order.
LEMMA RecordKeeps ==
  ASSUME NEW L, NEW text \in Seq(L), NEW list, NEW a \in 1..Len(text), NEW b \in a..Len(text),
         NEW e \in Nat, b < e,
         FoundUpTo(text, list, a), SoundRange(text, <<a, b>>)
  PROVE  LET r == record_oops(text, list, a, b) IN
         /\ FoundUpTo(text, r, e)
         /\ \A j \in 1..Len(text) : Explained(text, list, j) => Explained(text, r, j)
         /\ \A j \in a..b : Explained(text, r, j)
         /\ \/ b <= a + 1
            \/ \E k \in 1..Len(r) : r[k][1] = a /\ r[k][2] = b
<1> DEFINE r == record_oops(text, list, a, b)
<1>0. list \in Seq(Nat \X Nat) /\ Len(list) \in Nat /\ Len(text) \in Nat
  BY DEF FoundUpTo, Ranges
<1>1. ASSUME NEW k \in 1..Len(list)
      PROVE  /\ SoundRange(text, list[k])
             /\ list[k][2] \in Nat /\ list[k][2] < a /\ list[k][2] < e
  <2>1. SoundRange(text, list[k]) /\ list[k][2] < a
    BY DEF FoundUpTo
  <2>2. list[k] \in Nat \X Nat
    BY <1>0
  <2>3. list[k][2] \in Nat
    BY <2>2
  <2> QED
    BY <1>0, <2>1, <2>3
<1>1a. \A k, l \in 1..Len(list) : k < l => list[k][2] < list[l][1]
  BY DEF FoundUpTo
<1>2. CASE TooShort(text, a, b)
  <2>1. r = list
    BY <1>2 DEF record_oops
  <2>2. FoundUpTo(text, list, e)
    BY <1>0, <1>1, <1>1a DEF FoundUpTo, Ranges
  <2>3. \A j \in a..b : Explained(text, list, j)
    BY <1>2 DEF TooShort, Explained, suspicious_line
  <2>4. b <= a + 1
    BY <1>2 DEF TooShort
  <2> QED
    BY <2>1, <2>2, <2>3, <2>4
<1>3. CASE ~TooShort(text, a, b)
  <2>1. r = Append(list, <<a, b>>)
    BY <1>3 DEF record_oops
  <2> HIDE DEF r
  <2>2. r \in Ranges /\ Len(r) = Len(list) + 1 /\ r[Len(list) + 1] = <<a, b>>
        /\ \A k \in 1..Len(list) : r[k] = list[k]
    BY <1>0, <2>1 DEF Ranges
  <2>3. \A k \in 1..Len(r) : SoundRange(text, r[k]) /\ r[k][2] < e
    <3> TAKE k \in 1..Len(r)
    <3>1. CASE k \in 1..Len(list)
      <4>1. r[k] = list[k]
        BY <2>2, <3>1
      <4> QED
        BY <1>1, <3>1, <4>1
    <3>2. CASE k = Len(list) + 1
      <4>1. r[k] = <<a, b>>
        BY <2>2, <3>2
      <4>2. SoundRange(text, r[k])
        BY <4>1
      <4>3. r[k][2] = b
        BY <4>1
      <4> QED
        BY <4>2, <4>3
    <3>3. k \in 1..Len(list) \/ k = Len(list) + 1
      BY <1>0, <2>2
    <3> QED
      BY <3>1, <3>2, <3>3
  <2>4. ASSUME NEW k \in 1..Len(r), NEW l \in 1..Len(r), k < l PROVE r[k][2] < r[l][1]
    <3>1. k \in 1..Len(list) /\ (l \in 1..Len(list) \/ l = Len(list) + 1)
      <4>1. Len(list) \in Nat /\ Len(r) = Len(list) + 1
        BY <1>0, <2>2
      <4>2. k \in 1..(Len(list) + 1) /\ l \in 1..(Len(list) + 1)
        BY <4>1
      <4> QED
        BY <2>4, <4>1, <4>2
    <3>2. r[k] = list[k]
      BY <2>2, <3>1
    <3>3. CASE l = Len(list) + 1
      <4>1. r[l][1] = a
        BY <2>2, <3>3
      <4> QED
        BY <1>1, <3>1, <3>2, <4>1
    <3>4. CASE l \in 1..Len(list)
      <4>1. r[l] = list[l]
        BY <2>2, <3>4
      <4> QED
        BY <1>1a, <2>4, <3>1, <3>2, <3>4, <4>1
    <3> QED
      BY <3>1, <3>3, <3>4
  <2>5. FoundUpTo(text, r, e)
    BY <2>2, <2>3, <2>4 DEF FoundUpTo
  <2>6. Len(list) + 1 \in 1..Len(r) /\ r[Len(list) + 1][1] = a /\ r[Len(list) + 1][2] = b
    BY <1>0, <2>2
  <2>7. \A k \in 1..Len(list) : k \in 1..Len(r) /\ r[k] = list[k]
    BY <1>0, <2>2
  <2>8. ASSUME NEW j \in 1..Len(text), Explained(text, list, j) PROVE Explained(text, r, j)
    BY <2>7, <2>8 DEF Explained
  <2>9. ASSUME NEW j \in a..b PROVE Explained(text, r, j)
    <3>1. r[Len(list) + 1][1] <= j /\ j <= r[Len(list) + 1][2]
      BY <2>6
    <3> QED
      BY <2>6, <3>1 DEF Explained
  <2> QED
    BY <2>5, <2>6, <2>8, <2>9 DEF r
<1> QED
  BY <1>2, <1>3

\* A suspicious line right behind another one belongs to that one.
LEMMA NearIsExplained ==
  ASSUME NEW L, NEW text \in Seq(L), NEW list, NEW c \in 1..Len(text), suspicious_line(text[c]),
         NEW j \in (c + 1)..(c + OneLine)
  PROVE  Explained(text, list, j)
<1>1. c \in 1..(j - 1) /\ c >= j - OneLine
  BY KoopsAssumption
<1> QED
  BY <1>1 DEF Explained

\* The limits of the scan are numbers, in the order the code has them.
LEMMA Limits == /\ TooLong \in Nat /\ LookAhead \in Nat /\ OneLine \in Nat /\ OneLine >= 2 /\ LookAhead >= 1 /\ OneLine < TooLong
         /\ Max({TooLong, LookAhead}) \in Nat
         /\ Max({TooLong, LookAhead}) >= TooLong /\ Max({TooLong, LookAhead}) >= LookAhead
<1>1. TooLong \in Nat /\ LookAhead \in Nat /\ OneLine \in Nat /\ OneLine >= 2 /\ LookAhead >= 1 /\ OneLine < TooLong
  BY KoopsAssumption
<1> QED
  BY <1>1, MaxOfTwo

\* The oops that is being read, up to line b.
LEMMA ReadIsSound ==
  ASSUME NEW L, NEW text \in Seq(L), NEW s \in OopsStates, s.st # 0, Reading(text, s), s.i <= Len(text) + 1,
         NEW b \in s.st..s.i, b <= Len(text)
  PROVE  s.st \in 1..Len(text) /\ b \in s.st..Len(text) /\ SoundRange(text, <<s.st, b>>)
<1>0. s.st \in Nat /\ s.i \in Nat /\ Len(text) \in Nat /\ s.st < s.i
  BY DEF OopsStates, Reading
<1>1. s.st \in 1..Len(text) /\ b \in s.st..Len(text)
  BY <1>0
<1>2. b - s.st <= Max({TooLong, LookAhead})
  BY <1>0, Limits DEF Reading
<1>3. ASSUME NEW j \in s.st..b PROVE text[j] # "end" \/ j - s.st > LookAhead
  <2>1. CASE j = s.st
    BY <2>1 DEF Reading, suspicious_line
  <2>2. CASE j # s.st /\ j <= s.st + LookAhead
    <3>1. j \in (s.st + 1)..Len(text)
      BY <1>0, <1>1, <2>2
    <3>2. j \notin Markers(text, s.st)
      BY DEF Reading
    <3> QED
      BY <1>0, <3>1, <3>2, <2>2, MarkersAre
  <2> QED
    BY <1>0, <2>1, <2>2, Limits
<1> DEFINE r == <<s.st, b>>
<1>4. r[1] = s.st /\ r[2] = b
  OBVIOUS
<1> HIDE DEF r
<1>5. SoundRange(text, r)
  BY <1>1, <1>2, <1>3, <1>4 DEF SoundRange, Reading
<1> QED
  BY <1>1, <1>5 DEF r

\* A turn after which no oops is being read: all lines up to the next are decided.
LEMMA TurnEnds ==
  ASSUME NEW L, NEW text \in Seq(L), NEW t \in OopsStates, t.st = 0, t.i <= Len(text) + 1,
         FoundUpTo(text, t.found, t.i), \A j \in 1..(t.i - 1) : Explained(text, t.found, j)
  PROVE  OopsInv(text, t)
BY DEF OopsInv, Edge

\* Every turn keeps the invariant of the scan.
LEMMA TurnKeeps ==
  ASSUME NEW L, NEW text \in Seq(L), NEW s, OopsInv(text, s), s.i <= Len(text),
         NEW p \in 0..1, NEW t, Turn(text, s, p, t)
  PROVE  OopsInv(text, t)
<1>0. /\ s \in OopsStates /\ s.i \in Nat \ {0} /\ s.st \in Nat /\ Len(text) \in Nat
      /\ FoundUpTo(text, s.found, Edge(s))
      /\ \A j \in 1..(Edge(s) - 1) : Explained(text, s.found, j)
  BY DEF OopsInv, OopsStates
<1>1. t \in OopsStates /\ t.i <= Len(text) + 1 /\ t.i \in Nat
  BY <1>0, TurnType DEF OopsStates
<1>2. CASE s.st = 0
  <2>1. FoundUpTo(text, s.found, s.i) /\ \A j \in 1..(s.i - 1) : Explained(text, s.found, j)
    BY <1>0, <1>2 DEF Edge
  <2>2. CASE ~suspicious_line(text[s.i])
    <3>1. t = OopsState(s.i + 1, 0, FALSE, p, s.found)
      BY <1>2, <2>2 DEF Turn
    <3>2. t.i = s.i + 1 /\ t.st = 0 /\ t.found = s.found
      BY <3>1 DEF OopsState
    <3>3. FoundUpTo(text, s.found, s.i + 1)
      <4>1. \A k \in 1..Len(s.found) : s.found[k][2] < s.i + 1
        BY <1>0, <2>1 DEF FoundUpTo, SoundRange
      <4> QED
        BY <2>1, <4>1 DEF FoundUpTo
    <3>4. Explained(text, s.found, s.i)
      BY <2>2 DEF Explained
    <3>5. \A j \in 1..s.i : j \in 1..(s.i - 1) \/ j = s.i
      BY <1>0
    <3>6. \A j \in 1..((s.i + 1) - 1) : Explained(text, s.found, j)
      BY <1>0, <2>1, <3>4, <3>5
    <3> QED
      BY <1>1, <3>2, <3>3, <3>6, TurnEnds
  <2>3. CASE suspicious_line(text[s.i]) /\ Markers(text, s.i) # {}
    <3> DEFINE at == Min(Markers(text, s.i))
               r == record_oops(text, s.found, s.i, at - 1)
    <3>1. /\ at \in Nat /\ s.i < at /\ at <= Len(text) /\ at <= s.i + LookAhead /\ text[at] = "end"
          /\ \A k \in s.i + 1..at - 1 : text[k] # "end"
      BY <1>0, <2>3, FirstMarker
    <3>2. t = OopsState(at + 1, 0, FALSE, p, r)
      BY <1>2, <2>3 DEF Turn
    <3> HIDE DEF at
    <3>3. t.i = at + 1 /\ t.st = 0 /\ t.found = r
      BY <3>2 DEF OopsState
    <3>4. s.i \in 1..Len(text) /\ at - 1 \in s.i..Len(text) /\ at + 1 \in Nat /\ at - 1 < at + 1
      BY <1>0, <3>1
    <3>5. SoundRange(text, <<s.i, at - 1>>)
      <4> DEFINE q == <<s.i, at - 1>>
      <4>1. q[1] = s.i /\ q[2] = at - 1
        OBVIOUS
      <4> HIDE DEF q
      <4>2. (at - 1) - s.i <= Max({TooLong, LookAhead})
        BY <1>0, <3>1, Limits
      <4>3. \A j \in s.i..(at - 1) : text[j] # "end"
        <5> TAKE j \in s.i..(at - 1)
        <5>1. CASE j = s.i
          BY <2>3, <5>1 DEF suspicious_line
        <5>2. CASE j # s.i
          BY <1>0, <3>1, <5>2
        <5> QED
          BY <5>1, <5>2
      <4>4. SoundRange(text, q)
        BY <2>3, <3>4, <4>1, <4>2, <4>3 DEF SoundRange
      <4> QED
        BY <4>4 DEF q
    <3>6. /\ FoundUpTo(text, r, at + 1)
          /\ \A j \in 1..Len(text) : Explained(text, s.found, j) => Explained(text, r, j)
          /\ \A j \in s.i..(at - 1) : Explained(text, r, j)
      BY <2>1, <3>4, <3>5, RecordKeeps
    <3> HIDE DEF r
    <3>7. Explained(text, r, at)
      BY <3>1 DEF Explained, suspicious_line
    <3>8. ASSUME NEW j \in 1..((at + 1) - 1) PROVE Explained(text, r, j)
      <4>1. j \in 1..(s.i - 1) \/ j \in s.i..(at - 1) \/ j = at
        BY <1>0, <3>1
      <4>2. j \in 1..Len(text)
        BY <1>0, <3>1
      <4> QED
        BY <2>1, <3>6, <3>7, <4>1, <4>2
    <3> QED
      BY <1>1, <3>3, <3>6, <3>8, TurnEnds
  <2>4. CASE suspicious_line(text[s.i]) /\ Markers(text, s.i) = {}
    <3>1. PICK bt \in BOOLEAN : t = OopsState(s.i + 1, s.i, bt, p, s.found)
      BY <1>2, <2>4 DEF Turn
    <3>2. t.i = s.i + 1 /\ t.st = s.i /\ t.found = s.found
      BY <3>1 DEF OopsState
    <3>3. Edge(t) = s.i
      BY <1>0, <3>2 DEF Edge
    <3>4. Reading(text, t)
      BY <1>0, <2>4, <3>2, Limits DEF Reading
    <3> QED
      BY <1>1, <2>1, <3>2, <3>3, <3>4 DEF OopsInv
  <2> QED
    BY <2>2, <2>3, <2>4
<1>3. CASE s.st # 0
  <2>1. FoundUpTo(text, s.found, s.st) /\ \A j \in 1..(s.st - 1) : Explained(text, s.found, j)
    BY <1>0, <1>3 DEF Edge
  <2>2. Reading(text, s) /\ s.st < s.i /\ s.i - s.st <= TooLong /\ suspicious_line(text[s.st])
    BY <1>3 DEF OopsInv, Reading
  <2>3. s.st \in 1..Len(text)
    BY <1>0, <1>3, <2>2
  \* goes on
  <2>4. ASSUME NEW bt \in BOOLEAN, t = OopsState(s.i + 1, s.st, bt, p, s.found), (s.i + 1) - s.st <= TooLong,
               ~bt => (s.i + 1) - s.st <= OneLine,
               bt => \A m \in (s.st + OneLine + 1)..s.i : Traced(text[m])
        PROVE  OopsInv(text, t)
    <3>1. t.i = s.i + 1 /\ t.st = s.st /\ t.bt = bt /\ t.found = s.found
      BY <2>4 DEF OopsState
    <3>2. Edge(t) = s.st
      BY <1>3, <3>1 DEF Edge
    <3>3. s.i = (s.i + 1) - 1
      BY <1>0
    <3>4. Reading(text, t)
      BY <1>0, <2>2, <2>4, <3>1, <3>3 DEF Reading
    <3> QED
      BY <1>1, <2>1, <3>1, <3>2, <3>4 DEF OopsInv
  <2>5. ASSUME NEW b \in s.st..s.i, t = OopsState(s.i + 1, 0, FALSE, p, record_oops(text, s.found, s.st, b)),
               b = s.i - 1 \/ b = s.i \/ s.i - s.st <= OneLine
        PROVE  OopsInv(text, t)
    <3> DEFINE r == record_oops(text, s.found, s.st, b)
    <3>1. t.i = s.i + 1 /\ t.st = 0 /\ t.found = r
      BY <2>5 DEF OopsState
    <3>2. b \in s.st..Len(text) /\ SoundRange(text, <<s.st, b>>) /\ b < s.i + 1 /\ s.i + 1 \in Nat
      <4>1. b <= Len(text) /\ b < s.i + 1 /\ s.i + 1 \in Nat /\ s.i <= Len(text) + 1
        BY <1>0, <2>3
      <4> QED
        BY <1>0, <1>3, <2>2, <4>1, ReadIsSound
    <3>3. /\ FoundUpTo(text, r, s.i + 1)
          /\ \A j \in 1..Len(text) : Explained(text, s.found, j) => Explained(text, r, j)
          /\ \A j \in s.st..b : Explained(text, r, j)
          /\ \/ b <= s.st + 1
             \/ \E k \in 1..Len(r) : r[k][2] = b
      BY <2>1, <2>3, <3>2, RecordKeeps
    <3> HIDE DEF r
    <3>4. \A j \in (s.st + 1)..(s.st + OneLine) : Explained(text, r, j)
      BY <2>2, <2>3, NearIsExplained
    <3>5. ASSUME b = s.i - 1 PROVE Explained(text, r, s.i)
      <4>1. CASE b <= s.st + 1
        <5>1. s.i \in (s.st + 1)..(s.st + OneLine)
          BY <1>0, <2>2, <3>5, <4>1, Limits, SMTT(30)
        <5> QED
          BY <3>4, <5>1
      <4>2. CASE \E k \in 1..Len(r) : r[k][2] = b
        BY <3>5, <4>2 DEF Explained
      <4> QED
        BY <3>3, <4>1, <4>2
    <3>6. ASSUME NEW j \in 1..((s.i + 1) - 1) PROVE Explained(text, r, j)
      <4>0. j \in 1..Len(text)
        BY <1>0
      <4>1. CASE j < s.st
        BY <1>0, <2>1, <3>3, <4>0, <4>1
      <4>2. CASE j \in s.st..b
        BY <3>3, <4>2
      <4>3. CASE j > b /\ b = s.i - 1
        <5>1. j = s.i
          BY <1>0, <4>3
        <5> QED
          BY <3>5, <4>3, <5>1
      <4>4. CASE j > b /\ s.i - s.st <= OneLine
        <5>1. j \in (s.st + 1)..(s.st + OneLine)
          BY <1>0, <2>3, <4>4, Limits, SMTT(30)
        <5> QED
          BY <3>4, <5>1
      <4>5. j <= s.i
        BY <1>0
      <4> QED
        BY <1>0, <2>5, <4>1, <4>2, <4>3, <4>4, <4>5
    <3> QED
      BY <1>1, <3>1, <3>3, <3>6, TurnEnds
  <2>6. ASSUME t = OopsState(s.i + 1, 0, FALSE, p, s.found), (s.i + 1) - s.st > TooLong, s.bt, Traced(text[s.i])
        PROVE  OopsInv(text, t)
    <3>1. t.i = s.i + 1 /\ t.st = 0 /\ t.found = s.found
      BY <2>6 DEF OopsState
    <3>2. s.i = s.st + TooLong
      <4>1. s.i \in Nat /\ s.st \in Nat /\ TooLong \in Nat /\ s.i - s.st <= TooLong /\ (s.i + 1) - s.st > TooLong
        BY <1>0, <2>2, <2>6, Limits
      <4> HIDE <2>6
      <4> QED
        BY <4>1
    <3>3. FoundUpTo(text, s.found, s.i + 1)
      <4>1. \A k \in 1..Len(s.found) : s.found[k][2] < s.i + 1
        BY <1>0, <2>1, <2>2, SMTT(30) DEF FoundUpTo, SoundRange
      <4> QED
        BY <2>1, <4>1 DEF FoundUpTo
    <3>4. \A m \in (s.st + OneLine + 1)..(s.st + TooLong) : Traced(text[m])
      <4> TAKE m \in (s.st + OneLine + 1)..(s.st + TooLong)
      <4>1. m = s.i \/ m \in (s.st + OneLine + 1)..(s.i - 1)
        BY <1>0, <3>2, Limits, SMTT(30)
      <4> QED
        BY <2>2, <2>6, <4>1 DEF Reading
    <3>5. Explained(text, s.found, s.st)
      BY <1>0, <3>2, <3>4 DEF Explained, Traced
    <3>6. \A j \in (s.st + 1)..(s.st + OneLine) : Explained(text, s.found, j)
      BY <2>2, <2>3, NearIsExplained
    <3>7. \A j \in (s.st + OneLine + 1)..s.i : Explained(text, s.found, j)
      <4> TAKE j \in (s.st + OneLine + 1)..s.i
      <4>1. Traced(text[j])
        BY <3>2, <3>4
      <4> QED
        BY <4>1 DEF Explained, Traced
    <3>8. ASSUME NEW j \in 1..((s.i + 1) - 1) PROVE Explained(text, s.found, j)
      <4>1. \/ j \in 1..(s.st - 1) \/ j = s.st \/ j \in (s.st + 1)..(s.st + OneLine)
            \/ j \in (s.st + OneLine + 1)..s.i
        BY <1>0, Limits, SMTT(30)
      <4> QED
        BY <2>1, <3>5, <3>6, <3>7, <4>1
    <3> QED
      BY <1>1, <3>1, <3>3, <3>8, TurnEnds
  <2>7. s.i + 1 - s.st = (s.i + 1) - s.st /\ s.i - 1 \in s.st..s.i /\ s.i \in s.st..s.i /\ s.st \in s.st..s.i
    BY <1>0, <2>2
  <2>8. CASE s.bt /\ t = OopsState(s.i + 1, 0, FALSE, p, record_oops(text, s.found, s.st, s.i - 1))
    BY <2>5, <2>7, <2>8
  <2>8a. CASE s.bt /\ t = OopsState(s.i + 1, 0, FALSE, p, record_oops(text, s.found, s.st, s.i))
    BY <2>5, <2>7, <2>8a
  <2>9. CASE s.bt /\ Traced(text[s.i]) /\ s.i + 1 - s.st > TooLong /\ t = OopsState(s.i + 1, 0, FALSE, p, s.found)
    BY <2>6, <2>7, <2>9
  <2>10. CASE s.bt /\ Traced(text[s.i]) /\ ~(s.i + 1 - s.st > TooLong) /\ t = OopsState(s.i + 1, s.st, TRUE, p, s.found)
    <3>1. (s.i + 1) - s.st <= TooLong
      BY <1>0, <2>10, Limits
    <3>2. \A m \in (s.st + OneLine + 1)..s.i : Traced(text[m])
      <4> TAKE m \in (s.st + OneLine + 1)..s.i
      <4>1. m = s.i \/ m \in (s.st + OneLine + 1)..(s.i - 1)
        BY <1>0, Limits
      <4> QED
        BY <2>2, <2>10, <4>1 DEF Reading
    <3> QED
      BY <2>4, <2>10, <3>1, <3>2
  <2>11. CASE ~s.bt
    <3>1. s.i - s.st <= OneLine
      BY <2>2, <2>11 DEF Reading
    <3>2. ~(s.i + 1 - s.st > TooLong) /\ (s.i + 1) - s.st <= TooLong
      BY <1>0, <3>1, Limits
    <3>3. CASE Begins(text[s.i])
      <4>1. t = OopsState(s.i + 1, s.st, TRUE, p, s.found)
        BY <1>3, <2>11, <3>2, <3>3 DEF Turn
      <4>2. \A m \in (s.st + OneLine + 1)..s.i : Traced(text[m])
        BY <1>0, <3>1, Limits
      <4> QED
        BY <2>4, <3>2, <4>1, <4>2
    <3>4. CASE ~Begins(text[s.i]) /\ s.i + 1 - s.st > OneLine
      <4>1. t = OopsState(s.i + 1, 0, FALSE, p, record_oops(text, s.found, s.st, s.st))
        BY <1>3, <2>11, <3>2, <3>4 DEF Turn
      <4> QED
        BY <2>5, <2>7, <3>1, <4>1
    <3>5. CASE ~Begins(text[s.i]) /\ ~(s.i + 1 - s.st > OneLine)
      <4>1. t = OopsState(s.i + 1, s.st, FALSE, p, s.found)
        BY <1>3, <2>11, <3>2, <3>5 DEF Turn
      <4>2. (s.i + 1) - s.st <= OneLine
        BY <1>0, <3>5, Limits, SMTT(30)
      <4> QED
        BY <2>4, <3>2, <4>1, <4>2
    <3> QED
      BY <3>3, <3>4, <3>5
  <2> QED
    BY <1>3, <2>8, <2>8a, <2>9, <2>10, <2>11 DEF Turn
<1> QED
  BY <1>2, <1>3

\* After as many turns as there are lines the scan is at the end.
LEMMA LoopInv ==
  ASSUME NEW L, NEW text \in Seq(L)
  PROVE  LET s == oops_loop(text)[Len(text)] IN OopsInv(text, s) /\ s.i = Len(text) + 1
<1> DEFINE f == oops_loop(text)
           T == {k \in Nat : OopsInv(text, f[k]) /\ (k < f[k].i \/ Len(text) < f[k].i)}
<1>0. Len(text) \in Nat /\ f[0] = NoOops /\ \A k \in Nat : f[k + 1] = oops_step(text, f[k])
  BY OopsLoop
<1> HIDE DEF f
<1>1. 0 \in T
  <2>1. NoOops \in OopsStates /\ NoOops.i = 1 /\ NoOops.st = 0 /\ NoOops.found = <<>>
    BY DEF NoOops, OopsStates, Ranges
  <2>2. FoundUpTo(text, NoOops.found, 1)
    <3>1. NoOops.found \in Ranges /\ Len(NoOops.found) = 0
      BY <2>1 DEF Ranges
    <3> QED
      BY <3>1 DEF FoundUpTo
  <2>3. OopsInv(text, NoOops)
    <3>1. NoOops.i <= Len(text) + 1 /\ FoundUpTo(text, NoOops.found, NoOops.i)
      BY <1>0, <2>1, <2>2
    <3>2. \A j \in 1..(NoOops.i - 1) : Explained(text, NoOops.found, j)
      BY <2>1
    <3> QED
      BY <2>1, <3>1, <3>2, TurnEnds
  <2> QED
    BY <1>0, <2>1, <2>3
<1>2. ASSUME NEW k \in Nat, k \in T PROVE k + 1 \in T
  <2> DEFINE s == f[k]
  <2>1. OopsInv(text, s) /\ (k < s.i \/ Len(text) < s.i) /\ s \in OopsStates /\ s.i \in Nat
    BY <1>2 DEF OopsInv, OopsStates
  <2>2. f[k + 1] = oops_step(text, s)
    BY <1>0
  <2> HIDE DEF s
  <2>3. CASE s.i > Len(text)
    <3>1. f[k + 1] = s
      BY <2>2, <2>3 DEF oops_step
    <3>2. Len(text) < f[k + 1].i
      BY <1>0, <2>1, <2>3, <3>1
    <3> QED
      BY <2>1, <3>1, <3>2
  <2>4. CASE ~(s.i > Len(text))
    <3>0. s.i <= Len(text) /\ k < s.i
      BY <1>0, <2>1, <2>4, SMTT(30)
    <3>1. f[k + 1] = oops_line(text, s) /\ s.i <= Len(text) /\ k < s.i
      BY <2>2, <2>4, <3>0 DEF oops_step
    <3>2. PICK p \in 0..1 : Turn(text, s, p, f[k + 1])
      BY <2>1, <3>1, LineIsTurn
    <3>3. OopsInv(text, f[k + 1])
      BY <2>1, <3>1, <3>2, TurnKeeps
    <3>4. s.i < f[k + 1].i /\ f[k + 1].i \in Nat
      BY <2>1, <3>2, TurnType DEF OopsStates
    <3>5. k + 1 < f[k + 1].i
      BY <2>1, <3>1, <3>4
    <3> QED
      BY <3>3, <3>5
  <2> QED
    BY <2>3, <2>4
<1>3. Nat \subseteq T
  <2> HIDE DEF T
  <2> QED
    BY <1>1, <1>2, Induction
<1>4. OopsInv(text, f[Len(text)]) /\ (Len(text) < f[Len(text)].i \/ Len(text) < f[Len(text)].i)
  BY <1>0, <1>3
<1>5. f[Len(text)].i \in Nat /\ f[Len(text)].i <= Len(text) + 1
  BY <1>4 DEF OopsInv, OopsStates
<1>6. f[Len(text)].i = Len(text) + 1
  BY <1>0, <1>4, <1>5, SMTT(30)
<1> QED
  BY <1>4, <1>6 DEF f

\* What the scan returns.
LEMMA Extracted ==
  ASSUME NEW L, NEW text \in Seq(L)
  PROVE  LET r == koops_extract_oopses_from_lines(text) IN
         /\ FoundUpTo(text, r, Len(text) + 1)
         /\ \A j \in 1..Len(text) : Explained(text, r, j)
<1> DEFINE s == oops_loop(text)[Len(text)]
           r == koops_extract_oopses_from_lines(text)
<1>1. OopsInv(text, s) /\ s.i = Len(text) + 1 /\ Len(text) \in Nat
  BY LoopInv
<1>2. r = IF s.st = 0 THEN s.found ELSE record_oops(text, s.found, s.st, IF s.bt THEN Len(text) ELSE s.st)
  BY DEF koops_extract_oopses_from_lines
<1> HIDE DEF s, r
<1>3. /\ s \in OopsStates /\ s.st \in Nat
      /\ FoundUpTo(text, s.found, Edge(s)) /\ \A j \in 1..(Edge(s) - 1) : Explained(text, s.found, j)
  BY <1>1 DEF OopsInv, OopsStates
<1>4. CASE s.st = 0
  <2>1. r = s.found /\ Edge(s) = Len(text) + 1 /\ (Len(text) + 1) - 1 = Len(text)
    BY <1>1, <1>2, <1>4 DEF Edge
  <2> QED
    BY <1>3, <2>1 DEF r
<1>5. CASE s.st # 0
  <2> DEFINE b == IF s.bt THEN Len(text) ELSE s.st
  <2>1. r = record_oops(text, s.found, s.st, b) /\ Edge(s) = s.st
    BY <1>2, <1>5 DEF Edge
  <2>2. Reading(text, s) /\ s.st < s.i /\ suspicious_line(text[s.st]) /\ (~s.bt => s.i - s.st <= OneLine)
    BY <1>1, <1>5 DEF OopsInv, Reading
  <2>3. s.st \in 1..Len(text) /\ b \in s.st..(s.i - 1) /\ s.i <= Len(text) + 1 /\ (s.bt => b = Len(text))
    BY <1>1, <1>3, <1>5, <2>2
  <2> HIDE DEF b
  <2>4. b \in s.st..Len(text) /\ SoundRange(text, <<s.st, b>>) /\ b < Len(text) + 1 /\ Len(text) + 1 \in Nat
    <3>1. b \in s.st..s.i /\ b <= Len(text)
      BY <1>1, <1>3, <2>3
    <3> QED
      BY <1>1, <1>3, <1>5, <2>2, <2>3, <3>1, ReadIsSound
  <2>5. /\ FoundUpTo(text, r, Len(text) + 1)
        /\ \A j \in 1..Len(text) : Explained(text, s.found, j) => Explained(text, r, j)
        /\ \A j \in s.st..b : Explained(text, r, j)
    BY <1>3, <2>1, <2>3, <2>4, RecordKeeps
  <2>6. ASSUME NEW j \in 1..Len(text) PROVE Explained(text, r, j)
    <3>1. CASE j \in 1..(s.st - 1)
      BY <1>3, <2>1, <2>5, <3>1
    <3>2. CASE j \in s.st..b
      BY <2>5, <3>2
    <3>3. CASE j > b /\ ~s.bt
      <4>1. j \in (s.st + 1)..(s.st + OneLine)
        BY <1>1, <1>3, <2>2, <2>3, <3>3, Limits
      <4> QED
        BY <2>2, <2>3, <4>1, NearIsExplained
    <3>4. j \in 1..(s.st - 1) \/ j \in s.st..b \/ (j > b /\ ~s.bt)
      BY <1>3, <2>3
    <3> QED
      BY <3>1, <3>2, <3>3, <3>4
  <2> QED
    BY <2>5, <2>6 DEF r
<1> QED
  BY <1>4, <1>5

\* koops_extract_oopses_from_lines(), on any lines: the oopses are in order, do not
\* overlap, start at a suspicious line and end where they should, and no suspicious line
\* is passed over but for a reason the loop states.
THEOREM OopsesExtracted ==
  ASSUME NEW L, NEW text \in Seq(L)
  PROVE  /\ KoopsSound(text, koops_extract_oopses_from_lines(text))
         /\ KoopsComplete(text, koops_extract_oopses_from_lines(text))
<1> DEFINE r == koops_extract_oopses_from_lines(text)
<1>1. FoundUpTo(text, r, Len(text) + 1) /\ \A j \in 1..Len(text) : Explained(text, r, j)
  BY Extracted
<1> HIDE DEF r
<1>2. KoopsSound(text, r)
  <2>1. \A k \in 1..Len(r) : SoundRange(text, r[k])
    BY <1>1 DEF FoundUpTo
  <2>2. \A k \in 1..(Len(r) - 1) : r[k][2] < r[k + 1][1]
    <3>1. Len(r) \in Nat /\ \A k, l \in 1..Len(r) : k < l => r[k][2] < r[l][1]
      BY <1>1 DEF FoundUpTo, Ranges
    <3>2. \A k \in 1..(Len(r) - 1) : k \in 1..Len(r) /\ k + 1 \in 1..Len(r) /\ k < k + 1
      BY <3>1
    <3> QED
      BY <3>1, <3>2, Zenon
  <2>3. ASSUME NEW k \in 1..Len(r)
        PROVE  /\ r[k][1] <= r[k][2] /\ suspicious_line(text[r[k][1]])
               /\ r[k][2] - r[k][1] <= Max({TooLong, LookAhead})
               /\ \A j \in r[k][1]..r[k][2] : text[j] # "end" \/ j - r[k][1] > LookAhead
    <3>1. SoundRange(text, r[k])
      BY <2>1
    <3>2. r[k][1] \in 1..Len(text) /\ r[k][2] \in r[k][1]..Len(text)
      BY <3>1 DEF SoundRange
    <3>3. r[k][1] <= r[k][2]
      BY <3>2
    <3> QED
      BY <3>1, <3>3, Zenon DEF SoundRange
  <2> QED
    BY <2>2, <2>3 DEF KoopsSound
<1>3. ASSUME NEW j \in 1..Len(text), suspicious_line(text[j]), j \notin Covered(r), text[j] # "brief",
             ~\E k \in 1..Len(r) : r[k][2] = j - 1
      PROVE  \/ \E c \in Max({1, j - OneLine})..(j - 1) : suspicious_line(text[c])
             \/ /\ j + TooLong <= Len(text)
                /\ \A m \in (j + OneLine + 1)..(j + TooLong) : Continues(text[m])
  <2>0. r \in Ranges /\ Len(r) \in Nat
    BY <1>1 DEF FoundUpTo, Ranges
  <2>1. ~\E k \in 1..Len(r) : r[k][1] <= j /\ j <= r[k][2]
    <3> SUFFICES ASSUME NEW k \in 1..Len(r), r[k][1] <= j, j <= r[k][2] PROVE FALSE
      OBVIOUS
    <3>1. r[k] \in Nat \X Nat
      BY <2>0 DEF Ranges
    <3>2. r[k][1] \in Nat /\ r[k][2] \in Nat
      BY <3>1
    <3>3. j \in r[k][1]..r[k][2]
      BY <3>2
    <3> QED
      BY <1>3, <3>3 DEF Covered
  <2>2. CASE \E c \in 1..(j - 1) : c >= j - OneLine /\ suspicious_line(text[c])
    <3>1. PICK c \in 1..(j - 1) : c >= j - OneLine /\ suspicious_line(text[c])
      BY <2>2
    <3>2. Max({1, j - OneLine}) = IF 1 >= j - OneLine THEN 1 ELSE j - OneLine
      BY MaxOfTwo, Limits
    <3>3. c \in Max({1, j - OneLine})..(j - 1)
      BY <3>1, <3>2, Limits
    <3> QED
      BY <3>1, <3>3
  <2> QED
    BY <1>1, <1>3, <2>1, <2>2 DEF Explained
<1>4. KoopsComplete(text, r)
  BY <1>3 DEF KoopsComplete
<1> QED
  BY <1>2, <1>4 DEF r

-----------------------------------------------------------------------------
(***************************************************************************)
(* process_xorg_bt(): the same for the backtraces of the X server.         *)
(***************************************************************************)
XorgState(i, h, k, list) == [i |-> i, h |-> h, k |-> k, found |-> list]

\* What one turn does.
XorgTurn(text, s, t) ==
  \/ s.h = 0 /\ text[s.i] # "head" /\ t = XorgState(s.i + 1, 0, s.k, s.found)
  \/ s.h = 0 /\ text[s.i] = "head" /\ t = XorgState(s.i + 1, s.i, 0, s.found)
  \/ s.h # 0 /\ text[s.i] = "blank" /\ t = XorgState(s.i + 1, s.h, s.k, s.found)
  \/ s.h # 0 /\ text[s.i] = "frame" /\ t = XorgState(s.i + 1, s.h, s.k + 1, s.found)
  \/ /\ s.h # 0 /\ text[s.i] # "blank" /\ (text[s.i] = "frame" => s.k # 0)
     /\ \E frames \in Nat :
          (s.k > 0 => frames > 0) /\ (text[s.i] # "frame" => frames = s.k)
          /\ t = XorgState(s.i + 1, 0, 0, xorg_crash(s, frames, s.i))

\* xorg_crash() adds at most one range to the list.
LEMMA XorgCrashType ==
  ASSUME NEW s \in XorgStates, NEW frames, NEW end \in Nat
  PROVE  xorg_crash(s, frames, end) \in Ranges
BY DEF xorg_crash, XorgStates, Ranges

\* What a line does to the scan is one of the turns.
LEMMA XorgLineIsTurn ==
  ASSUME NEW text, NEW s \in XorgStates
  PROVE  XorgTurn(text, s, xorg_line(text, s))
<1> DEFINE t == xorg_line(text, s)
<1>0. s = XorgState(s.i, s.h, s.k, s.found) /\ s.k \in Nat /\ s.i \in Nat
  BY DEF XorgState, XorgStates
<1>1. CASE s.h = 0 /\ text[s.i] # "head"
  <2>1. t = XorgState(s.i + 1, 0, s.k, s.found)
    BY <1>0, <1>1 DEF xorg_line, XorgState, XorgStates
  <2> QED
    BY <1>1, <2>1 DEF XorgTurn
<1>2. CASE s.h = 0 /\ text[s.i] = "head"
  <2>1. t = XorgState(s.i + 1, s.i, 0, s.found)
    BY <1>0, <1>2 DEF xorg_line, XorgState, XorgStates
  <2> QED
    BY <1>2, <2>1 DEF XorgTurn
<1>3. CASE s.h # 0 /\ text[s.i] = "blank"
  <2>1. t = XorgState(s.i + 1, s.h, s.k, s.found)
    BY <1>0, <1>3 DEF xorg_line, XorgState, XorgStates
  <2> QED
    BY <1>3, <2>1 DEF XorgTurn
<1>4. CASE s.h # 0 /\ text[s.i] = "frame" /\ s.k < MaxFrames
  <2>1. t = XorgState(s.i + 1, s.h, s.k + 1, s.found)
    BY <1>0, <1>4 DEF xorg_line, XorgState, XorgStates
  <2> QED
    BY <1>4, <2>1 DEF XorgTurn
<1>5. CASE s.h # 0 /\ text[s.i] # "blank" /\ ~(text[s.i] = "frame" /\ s.k < MaxFrames)
  <2> DEFINE frames == IF text[s.i] = "frame" THEN s.k + 1 ELSE s.k
  <2>1. t = [i |-> s.i + 1, h |-> 0, k |-> 0, found |-> xorg_crash(s, frames, s.i)]
    BY <1>5 DEF xorg_line
  <2>2. frames \in Nat /\ (s.k > 0 => frames > 0) /\ (text[s.i] # "frame" => frames = s.k)
    BY <1>0
  <2>3. text[s.i] = "frame" => s.k # 0
    BY <1>0, <1>5, KoopsAssumption
  <2> HIDE DEF frames
  <2>4. t = XorgState(s.i + 1, 0, 0, xorg_crash(s, frames, s.i))
    BY <2>1 DEF XorgState
  <2> QED
    BY <1>5, <2>2, <2>3, <2>4 DEF XorgTurn
<1> QED
  BY <1>1, <1>2, <1>3, <1>4, <1>5

\* A turn takes one line.
LEMMA XorgTurnType ==
  ASSUME NEW text, NEW s \in XorgStates, NEW t, XorgTurn(text, s, t)
  PROVE  t \in XorgStates /\ t.i = s.i + 1
<1>1. s.i \in Nat \ {0} /\ s.h \in Nat /\ s.k \in Nat /\ s.found \in Ranges
  BY DEF XorgStates
<1>2. \A frames : xorg_crash(s, frames, s.i) \in Ranges
  BY <1>1, XorgCrashType
<1>3. \E h \in Nat, k \in Nat, list \in Ranges : t = XorgState(s.i + 1, h, k, list)
  BY <1>1, <1>2 DEF XorgTurn
<1> QED
  BY <1>1, <1>3 DEF XorgState, XorgStates

\* The loop of the scan, turn by turn.
LEMMA XorgLoop ==
  ASSUME NEW text
  PROVE  /\ xorg_loop(text)[0] = NoXorgBt
         /\ \A k \in Nat : xorg_loop(text)[k + 1] = xorg_step(text, xorg_loop(text)[k])
<1> DEFINE step == [s \in XorgStates |-> xorg_step(text, s)]
<1>1. NoXorgBt \in XorgStates
  BY DEF NoXorgBt, XorgStates, Ranges
<1>2. step \in [XorgStates -> XorgStates]
  BY XorgLineIsTurn, XorgTurnType DEF xorg_step
<1>3. PICK f : IsLoop(f, XorgStates, NoXorgBt, step)
  <2> HIDE DEF step
  <2> QED
    BY <1>1, <1>2, Iterates, Zenon
<1>4. f = [k \in Nat |-> IF k = 0 THEN NoXorgBt ELSE step[f[k - 1]]]
  BY <1>3 DEF IsLoop
<1> DEFINE g == xorg_loop(text)
<1>5. g = [k \in Nat |-> IF k = 0 THEN NoXorgBt ELSE step[g[k - 1]]]
  BY <1>4, Zenon DEF xorg_loop
<1> HIDE DEF g
<1>6. g[0] = NoXorgBt
  BY <1>5
<1>7. ASSUME NEW k \in Nat PROVE g[k + 1] = step[g[k]]
  <2>1. k + 1 \in Nat /\ k + 1 # 0 /\ (k + 1) - 1 = k
    OBVIOUS
  <2> HIDE DEF step
  <2> QED
    BY <1>5, <2>1
<1> DEFINE T == {k \in Nat : g[k] \in XorgStates}
<1>8. 0 \in T
  BY <1>1, <1>6
<1>9. ASSUME NEW k \in Nat, k \in T PROVE k + 1 \in T
  <2>1. g[k] \in XorgStates
    BY <1>9
  <2>2. step[g[k]] \in XorgStates
    <3> HIDE DEF step
    <3> QED
      BY <1>2, <2>1
  <2>3. g[k + 1] \in XorgStates
    BY <1>7, <2>2, Zenon
  <2> QED
    BY <2>3
<1>10. Nat \subseteq T
  <2> HIDE DEF T
  <2> QED
    BY <1>8, <1>9, Induction
<1>11. \A k \in Nat : g[k + 1] = xorg_step(text, g[k])
  BY <1>7, <1>10
<1> QED
  BY <1>6, <1>11 DEF g

XorgEdge(s) == IF s.h = 0 THEN s.i ELSE s.h

\* Crashes come in the order of the log, do not overlap and end before line e.
CrashesUpTo(text, list, e) ==
  /\ list \in Ranges
  /\ \A k \in 1..Len(list) :
       list[k][1] \in 1..Len(text) /\ list[k][2] \in list[k][1]..Len(text) /\ list[k][2] < e
  /\ \A k, l \in 1..Len(list) : k < l => list[k][2] < list[l][1]

\* A backtrace began at line h, and nothing but empty lines is between h and j.
OnlyBlanks(text, list, h, j) ==
  /\ text[h] = "head" /\ \A k \in 1..Len(list) : list[k][2] # h
  /\ \A m \in (h + 1)..(j - 1) : text[m] = "blank"

XorgExplained(text, list, j) ==
  text[j] = "head" /\ text[j + 1] = "frame" =>
    \/ \E k \in 1..Len(list) : list[k][1] = j
    \/ \E k \in 1..Len(list) : list[k][2] = j
    \/ \E h \in 1..(j - 1) : OnlyBlanks(text, list, h, j)

\* A backtrace that is being read.
XorgReading(text, s) ==
  /\ s.h < s.i /\ text[s.h] = "head"
  /\ \A m \in (s.h + 1)..(s.i - 1) : text[m] = "blank" \/ (text[m] = "frame" /\ s.k > 0)

XorgInv(text, s) ==
  /\ s \in XorgStates /\ s.i <= Len(text) + 1
  /\ CrashesUpTo(text, s.found, XorgEdge(s))
  /\ s.h # 0 => XorgReading(text, s)
  /\ \A j \in 1..(XorgEdge(s) - 1) : j < Len(text) => XorgExplained(text, s.found, j)

HeadsExplained(text, list, n) == \A j \in 1..(n - 1) : j < Len(text) => XorgExplained(text, list, j)
FrameCounted(text, h, frames) == h + 1 <= Len(text) /\ text[h + 1] = "frame" => frames > 0
OneEndsAt(list, end) == \E k \in 1..Len(list) : list[k][2] = end

\* A backtrace that ends is recorded if it has a frame, and its head is accounted for.
LEMMA CrashKeeps ==
  ASSUME NEW L, NEW text \in Seq(L), NEW s \in XorgStates, s.h # 0, XorgReading(text, s), s.i <= Len(text) + 1,
         CrashesUpTo(text, s.found, s.h), HeadsExplained(text, s.found, s.h),
         NEW frames \in Nat, NEW end \in s.h..Len(text), NEW e \in Nat, end < e,
         FrameCounted(text, s.h, frames)
  PROVE  /\ CrashesUpTo(text, xorg_crash(s, frames, end), e)
         /\ HeadsExplained(text, xorg_crash(s, frames, end), s.i)
         /\ frames > 0 => OneEndsAt(xorg_crash(s, frames, end), end)
<1> DEFINE r == xorg_crash(s, frames, end)
<1> SUFFICES /\ CrashesUpTo(text, r, e)
             /\ \A j \in 1..(s.i - 1) : j < Len(text) => XorgExplained(text, r, j)
             /\ frames > 0 => \E k \in 1..Len(r) : r[k][2] = end
  BY DEF HeadsExplained, OneEndsAt
<1>a. /\ \A j \in 1..(s.h - 1) : j < Len(text) => XorgExplained(text, s.found, j)
      /\ s.h + 1 <= Len(text) /\ text[s.h + 1] = "frame" => frames > 0
  BY DEF HeadsExplained, FrameCounted
<1>0. s.found \in Seq(Nat \X Nat) /\ Len(s.found) \in Nat /\ Len(text) \in Nat /\ s.h \in Nat /\ s.i \in Nat
      /\ s.h < s.i
  BY DEF XorgStates, Ranges, XorgReading
<1>1. ASSUME NEW k \in 1..Len(s.found)
      PROVE  /\ s.found[k][1] \in 1..Len(text) /\ s.found[k][2] \in s.found[k][1]..Len(text)
             /\ s.found[k][2] < s.h /\ s.found[k][2] < e
  <2>1. s.found[k][1] \in 1..Len(text) /\ s.found[k][2] \in s.found[k][1]..Len(text) /\ s.found[k][2] < s.h
    BY DEF CrashesUpTo
  <2>2. s.found[k][2] \in Int /\ end \in Int /\ s.h <= end
    BY <1>0, <2>1, SMTT(30)
  <2>3. s.found[k][2] < e
    BY <1>0, <2>1, <2>2, SMTT(30)
  <2> QED
    BY <2>1, <2>3
<1>2. \A k, l \in 1..Len(s.found) : k < l => s.found[k][2] < s.found[l][1]
  BY DEF CrashesUpTo
<1>3. ASSUME NEW j \in (s.h + 1)..(s.i - 1) PROVE XorgExplained(text, r, j)
  BY DEF XorgReading, XorgExplained
<1>4. CASE frames = 0
  <2>1. r = s.found
    BY <1>4 DEF xorg_crash
  <2>2. CrashesUpTo(text, r, e)
    BY <1>0, <1>1, <1>2, <2>1 DEF CrashesUpTo, Ranges
  <2>3. ASSUME NEW j \in 1..(s.i - 1), j < Len(text) PROVE XorgExplained(text, r, j)
    <3>1. CASE j = s.h
      BY <1>a, <1>0, <1>4, <2>3, <3>1 DEF XorgExplained
    <3>2. CASE j \in 1..(s.h - 1)
      BY <1>a, <2>1, <2>3, <3>2
    <3> QED
      BY <1>0, <1>3, <3>1, <3>2
  <2> QED
    BY <1>4, <2>2, <2>3
<1>5. CASE frames > 0
  <2>1. r = Append(s.found, <<s.h, end>>)
    BY <1>5 DEF xorg_crash
  <2> HIDE DEF r
  <2>2. r \in Ranges /\ Len(r) = Len(s.found) + 1 /\ r[Len(s.found) + 1] = <<s.h, end>>
        /\ \A k \in 1..Len(s.found) : r[k] = s.found[k]
    BY <1>0, <2>1 DEF Ranges
  <2>3. Len(s.found) + 1 \in 1..Len(r) /\ r[Len(s.found) + 1][1] = s.h /\ r[Len(s.found) + 1][2] = end
    BY <1>0, <2>2
  <2>4. ASSUME NEW k \in 1..Len(r)
        PROVE  r[k][1] \in 1..Len(text) /\ r[k][2] \in r[k][1]..Len(text) /\ r[k][2] < e
    <3>1. CASE k \in 1..Len(s.found)
      <4>1. r[k] = s.found[k]
        BY <2>2, <3>1
      <4> QED
        BY <1>1, <3>1, <4>1
    <3>2. CASE k = Len(s.found) + 1
      <4>1. s.h \in 1..Len(text)
        BY <1>0
      <4>2. r[k][1] = s.h /\ r[k][2] = end
        BY <2>3, <3>2
      <4> QED
        BY <4>1, <4>2
    <3> QED
      BY <1>0, <2>2, <3>1, <3>2
  <2>5. ASSUME NEW k \in 1..Len(r), NEW l \in 1..Len(r), k < l PROVE r[k][2] < r[l][1]
    <3>0. Len(s.found) \in Nat /\ Len(r) = Len(s.found) + 1
      BY <1>0, <2>2
    <3>1. k \in 1..Len(s.found) /\ (l \in 1..Len(s.found) \/ l = Len(s.found) + 1)
      BY <2>5, <3>0
    <3>2. r[k] = s.found[k]
      BY <2>2, <3>1
    <3>3. CASE l = Len(s.found) + 1
      <4>1. r[l][1] = s.h
        BY <2>2, <3>3
      <4> QED
        BY <1>1, <3>1, <3>2, <4>1
    <3>4. CASE l \in 1..Len(s.found)
      <4>1. r[l] = s.found[l]
        BY <2>2, <3>4
      <4> QED
        BY <1>2, <2>5, <3>1, <3>2, <3>4, <4>1
    <3> QED
      BY <3>1, <3>3, <3>4
  <2>6. CrashesUpTo(text, r, e)
    BY <2>2, <2>4, <2>5 DEF CrashesUpTo
  <2>7. ASSUME NEW j \in 1..(s.i - 1), j < Len(text) PROVE XorgExplained(text, r, j)
    <3>1. CASE j = s.h
      BY <2>3, <3>1 DEF XorgExplained
    <3>2. CASE j \in 1..(s.h - 1)
      <4>1. XorgExplained(text, s.found, j)
        BY <1>a, <2>7, <3>2
      <4>2. \A k \in 1..Len(s.found) : k \in 1..Len(r) /\ r[k] = s.found[k]
        BY <1>0, <2>2
      <4>3. ASSUME NEW h \in 1..(j - 1), OnlyBlanks(text, s.found, h, j) PROVE OnlyBlanks(text, r, h, j)
        <5>1. end # h
          BY <1>0, <3>2
        <5>2. \A k \in 1..Len(r) : k \in 1..Len(s.found) \/ k = Len(s.found) + 1
          BY <1>0, <2>2
        <5>3. \A k \in 1..Len(r) : r[k][2] # h
          BY <2>2, <2>3, <4>3, <5>1, <5>2 DEF OnlyBlanks
        <5> QED
          BY <4>3, <5>3 DEF OnlyBlanks
      <4> QED
        BY <4>1, <4>2, <4>3 DEF XorgExplained
    <3> QED
      BY <1>0, <1>3, <3>1, <3>2
  <2> QED
    BY <2>3, <2>6, <2>7 DEF r
<1> QED
  BY <1>4, <1>5

\* Every turn keeps the invariant of the scan.
LEMMA XorgTurnKeeps ==
  ASSUME NEW L, NEW text \in Seq(L), NEW s, XorgInv(text, s), s.i <= Len(text),
         NEW t, XorgTurn(text, s, t)
  PROVE  XorgInv(text, t)
<1>0. /\ s \in XorgStates /\ s.i \in Nat \ {0} /\ s.h \in Nat /\ s.k \in Nat /\ s.found \in Ranges /\ Len(text) \in Nat
      /\ CrashesUpTo(text, s.found, XorgEdge(s))
      /\ \A j \in 1..(XorgEdge(s) - 1) : j < Len(text) => XorgExplained(text, s.found, j)
      /\ s.h # 0 => XorgReading(text, s)
  BY DEF XorgInv, XorgStates
<1>1. t \in XorgStates /\ t.i = s.i + 1 /\ t.i <= Len(text) + 1 /\ t.i - 1 = s.i
  BY <1>0, XorgTurnType
<1>2. CASE s.h = 0
  <2>1. CrashesUpTo(text, s.found, s.i) /\ \A j \in 1..(s.i - 1) : j < Len(text) => XorgExplained(text, s.found, j)
    BY <1>0, <1>2 DEF XorgEdge
  <2>2. CASE text[s.i] # "head" /\ t = XorgState(s.i + 1, 0, s.k, s.found)
    <3>1. t.h = 0 /\ t.found = s.found
      BY <2>2 DEF XorgState
    <3>2. XorgEdge(t) = s.i + 1
      BY <1>1, <3>1 DEF XorgEdge
    <3>3. \A k \in 1..Len(s.found) : s.found[k][2] < s.i + 1
      <4> TAKE k \in 1..Len(s.found)
      <4>1. s.found[k][1] \in 1..Len(text) /\ s.found[k][2] \in s.found[k][1]..Len(text) /\ s.found[k][2] < s.i
        BY <2>1 DEF CrashesUpTo
      <4> QED
        BY <1>0, <4>1
    <3>4. CrashesUpTo(text, s.found, s.i + 1)
      BY <2>1, <3>3 DEF CrashesUpTo
    <3>5. ASSUME NEW j \in 1..s.i, j < Len(text) PROVE XorgExplained(text, s.found, j)
      <4>1. CASE j = s.i
        BY <2>2, <4>1 DEF XorgExplained
      <4>2. CASE j # s.i
        BY <1>0, <2>1, <3>5, <4>2
      <4> QED
        BY <4>1, <4>2
    <3> QED
      BY <1>1, <3>1, <3>2, <3>4, <3>5 DEF XorgInv
  <2>3. CASE text[s.i] = "head" /\ t = XorgState(s.i + 1, s.i, 0, s.found)
    <3>1. t.h = s.i /\ t.found = s.found /\ t.k = 0
      BY <2>3 DEF XorgState
    <3>2. XorgEdge(t) = s.i
      BY <1>0, <3>1 DEF XorgEdge
    <3>3. XorgReading(text, t)
      BY <1>0, <1>1, <2>3, <3>1 DEF XorgReading
    <3> QED
      BY <1>1, <2>1, <3>1, <3>2, <3>3 DEF XorgInv
  <2> QED
    BY <1>2, <2>2, <2>3 DEF XorgTurn
<1>3. CASE s.h # 0
  <2>1. /\ CrashesUpTo(text, s.found, s.h) /\ XorgReading(text, s) /\ s.h < s.i
        /\ \A j \in 1..(s.h - 1) : j < Len(text) => XorgExplained(text, s.found, j)
    BY <1>0, <1>3 DEF XorgEdge, XorgReading
  <2>2. CASE \E k \in Nat : /\ t = XorgState(s.i + 1, s.h, k, s.found)
                            /\ (text[s.i] = "blank" /\ k = s.k) \/ (text[s.i] = "frame" /\ k = s.k + 1)
    <3>1. PICK k \in Nat : /\ t = XorgState(s.i + 1, s.h, k, s.found)
                           /\ (text[s.i] = "blank" /\ k = s.k) \/ (text[s.i] = "frame" /\ k = s.k + 1)
      BY <2>2
    <3>2. t.h = s.h /\ t.found = s.found /\ t.k = k
      BY <3>1 DEF XorgState
    <3>3. XorgEdge(t) = s.h
      BY <1>3, <3>2 DEF XorgEdge
    <3>4. ASSUME NEW m \in (s.h + 1)..s.i PROVE text[m] = "blank" \/ (text[m] = "frame" /\ k > 0)
      <4>1. CASE m = s.i
        BY <1>0, <3>1, <4>1
      <4>2. CASE m \in (s.h + 1)..(s.i - 1)
        BY <1>0, <2>1, <3>1, <4>2 DEF XorgReading
      <4> QED
        BY <1>0, <4>1, <4>2
    <3>5. XorgReading(text, t)
      <4>1. t.h < t.i
        BY <1>0, <1>1, <2>1, <3>2
      <4>2. text[t.h] = "head"
        BY <2>1, <3>2 DEF XorgReading
      <4> QED
        BY <1>1, <3>2, <3>4, <4>1, <4>2 DEF XorgReading
    <3> QED
      BY <1>1, <2>1, <3>2, <3>3, <3>5 DEF XorgInv
  <2>3. CASE /\ text[s.i] # "blank" /\ (text[s.i] = "frame" => s.k # 0)
             /\ \E frames \in Nat :
                  (s.k > 0 => frames > 0) /\ (text[s.i] # "frame" => frames = s.k)
                  /\ t = XorgState(s.i + 1, 0, 0, xorg_crash(s, frames, s.i))
    <3>1. PICK frames \in Nat :
                  (s.k > 0 => frames > 0) /\ (text[s.i] # "frame" => frames = s.k)
                  /\ t = XorgState(s.i + 1, 0, 0, xorg_crash(s, frames, s.i))
      BY <2>3
    <3> DEFINE r == xorg_crash(s, frames, s.i)
    <3>2. t.h = 0 /\ t.found = r
      BY <3>1 DEF XorgState
    <3>3. XorgEdge(t) = s.i + 1
      BY <1>1, <3>2 DEF XorgEdge
    <3>4. s.h + 1 <= Len(text) /\ text[s.h + 1] = "frame" => frames > 0
      <4>1. CASE s.i = s.h + 1
        BY <1>0, <2>3, <3>1, <4>1
      <4>2. CASE s.i # s.h + 1
        <5>1. s.h + 1 \in (s.h + 1)..(s.i - 1)
          BY <1>0, <2>1, <4>2
        <5> QED
          BY <2>1, <3>1, <5>1 DEF XorgReading
      <4> QED
        BY <4>1, <4>2
    <3>5. s.i \in s.h..Len(text) /\ s.i + 1 \in Nat /\ s.i < s.i + 1 /\ s.i <= Len(text) + 1
      BY <1>0, <2>1
    <3>6. /\ CrashesUpTo(text, r, s.i + 1)
          /\ \A j \in 1..(s.i - 1) : j < Len(text) => XorgExplained(text, r, j)
          /\ frames > 0 => \E k \in 1..Len(r) : r[k][2] = s.i
      <4>1. /\ s \in XorgStates /\ s.h # 0 /\ XorgReading(text, s) /\ CrashesUpTo(text, s.found, s.h)
            /\ HeadsExplained(text, s.found, s.h) /\ FrameCounted(text, s.h, frames)
        BY <1>0, <1>3, <2>1, <3>4 DEF HeadsExplained, FrameCounted
      <4>2. CrashesUpTo(text, r, s.i + 1) /\ HeadsExplained(text, r, s.i) /\ (frames > 0 => OneEndsAt(r, s.i))
        BY <3>5, <4>1, CrashKeeps, Zenon
      <4> HIDE DEF r
      <4> QED
        BY <4>2 DEF HeadsExplained, OneEndsAt
    <3> HIDE DEF r
    <3>7. XorgExplained(text, r, s.i)
      <4>1. CASE frames > 0
        BY <3>6, <4>1 DEF XorgExplained
      <4>2. CASE frames = 0 /\ text[s.i] = "head"
        <5>1. s.k = 0
          BY <3>1, <4>2
        <5>2. r = s.found /\ ~(s.k > 0)
          BY <4>2, <5>1 DEF r, xorg_crash
        <5>3. \A k \in 1..Len(s.found) : s.found[k][2] # s.h
          BY <1>0, <2>1 DEF CrashesUpTo
        <5>4. OnlyBlanks(text, r, s.h, s.i)
          BY <2>1, <5>2, <5>3 DEF OnlyBlanks, XorgReading
        <5>5. s.h \in 1..(s.i - 1)
          BY <1>0, <1>3, <2>1
        <5> QED
          BY <5>4, <5>5 DEF XorgExplained
      <4>3. CASE text[s.i] # "head"
        BY <4>3 DEF XorgExplained
      <4> QED
        BY <4>1, <4>2, <4>3
    <3>8. ASSUME NEW j \in 1..s.i, j < Len(text) PROVE XorgExplained(text, r, j)
      <4>1. j = s.i \/ j \in 1..(s.i - 1)
        BY <1>0
      <4> QED
        BY <3>6, <3>7, <3>8, <4>1
    <3> QED
      BY <1>1, <3>2, <3>3, <3>6, <3>8 DEF XorgInv
  <2>4. CASE text[s.i] = "blank" /\ t = XorgState(s.i + 1, s.h, s.k, s.found)
    <3>1. s.k \in Nat
      BY <1>0
    <3>2. \E k \in Nat : /\ t = XorgState(s.i + 1, s.h, k, s.found)
                         /\ (text[s.i] = "blank" /\ k = s.k) \/ (text[s.i] = "frame" /\ k = s.k + 1)
      BY <2>4, <3>1, Zenon
    <3> QED
      BY <2>2, <3>2
  <2>5. CASE text[s.i] = "frame" /\ t = XorgState(s.i + 1, s.h, s.k + 1, s.found)
    <3>1. s.k + 1 \in Nat
      BY <1>0
    <3>2. \E k \in Nat : /\ t = XorgState(s.i + 1, s.h, k, s.found)
                         /\ (text[s.i] = "blank" /\ k = s.k) \/ (text[s.i] = "frame" /\ k = s.k + 1)
      BY <2>5, <3>1, Zenon
    <3> QED
      BY <2>2, <3>2
  <2> QED
    BY <1>3, <2>3, <2>4, <2>5 DEF XorgTurn
<1> QED
  BY <1>2, <1>3

\* After as many turns as there are lines the scan is at the end.
LEMMA XorgLoopInv ==
  ASSUME NEW L, NEW text \in Seq(L)
  PROVE  LET s == xorg_loop(text)[Len(text)] IN XorgInv(text, s) /\ s.i = Len(text) + 1
<1> DEFINE f == xorg_loop(text)
           T == {k \in Nat : k <= Len(text) => XorgInv(text, f[k]) /\ f[k].i = k + 1}
<1>0. Len(text) \in Nat /\ f[0] = NoXorgBt /\ \A k \in Nat : f[k + 1] = xorg_step(text, f[k])
  BY XorgLoop
<1> HIDE DEF f
<1>1. 0 \in T
  <2>1. NoXorgBt \in XorgStates /\ NoXorgBt.i = 1 /\ NoXorgBt.h = 0 /\ NoXorgBt.found = <<>>
    BY DEF NoXorgBt, XorgStates, Ranges
  <2>2. CrashesUpTo(text, NoXorgBt.found, 1)
    <3>1. NoXorgBt.found \in Ranges /\ Len(NoXorgBt.found) = 0
      BY <2>1 DEF Ranges
    <3> QED
      BY <3>1 DEF CrashesUpTo
  <2>3. XorgEdge(NoXorgBt) = 1 /\ NoXorgBt.i <= Len(text) + 1
    BY <1>0, <2>1 DEF XorgEdge
  <2>4. XorgInv(text, NoXorgBt)
    BY <2>1, <2>2, <2>3 DEF XorgInv
  <2> QED
    BY <1>0, <2>1, <2>4
<1>2. ASSUME NEW k \in Nat, k \in T PROVE k + 1 \in T
  <2> DEFINE s == f[k]
  <2> SUFFICES ASSUME k + 1 <= Len(text) PROVE XorgInv(text, f[k + 1]) /\ f[k + 1].i = (k + 1) + 1
    OBVIOUS
  <2>1. XorgInv(text, s) /\ s.i = k + 1 /\ s.i <= Len(text) /\ s \in XorgStates
    <3>1. k <= Len(text)
      BY <1>0
    <3>2. XorgInv(text, s) /\ s.i = k + 1
      BY <1>2, <3>1
    <3> QED
      BY <3>2 DEF XorgInv
  <2>2. f[k + 1] = xorg_step(text, s)
    BY <1>0
  <2> HIDE DEF s
  <2>3. ~(s.i > Len(text))
    BY <1>0, <2>1
  <2>4. f[k + 1] = xorg_line(text, s)
    BY <2>2, <2>3 DEF xorg_step
  <2>5. XorgTurn(text, s, f[k + 1])
    BY <2>1, <2>4, XorgLineIsTurn
  <2>6. XorgInv(text, f[k + 1]) /\ f[k + 1].i = s.i + 1
    BY <2>1, <2>5, XorgTurnKeeps, XorgTurnType
  <2> QED
    BY <2>1, <2>6
<1>3. Nat \subseteq T
  <2> HIDE DEF T
  <2> QED
    BY <1>1, <1>2, Induction
<1>4. XorgInv(text, f[Len(text)]) /\ f[Len(text)].i = Len(text) + 1
  BY <1>0, <1>3
<1> QED
  BY <1>4 DEF f

\* What the scan returns.
LEMMA XorgExtracted ==
  ASSUME NEW L, NEW text \in Seq(L)
  PROVE  LET r == process_xorg_bt(text) IN
         /\ CrashesUpTo(text, r, Len(text) + 1)
         /\ \A j \in 1..Len(text) : j < Len(text) => XorgExplained(text, r, j)
<1> DEFINE s == xorg_loop(text)[Len(text)]
           r == process_xorg_bt(text)
<1>1. XorgInv(text, s) /\ s.i = Len(text) + 1 /\ Len(text) \in Nat
  BY XorgLoopInv
<1>2. r = IF s.h = 0 THEN s.found ELSE xorg_crash(s, s.k, Len(text))
  BY DEF process_xorg_bt
<1> HIDE DEF s, r
<1>3. /\ s \in XorgStates /\ s.h \in Nat /\ s.k \in Nat /\ s.i - 1 = Len(text) /\ s.i <= Len(text) + 1
      /\ CrashesUpTo(text, s.found, XorgEdge(s))
      /\ \A j \in 1..(XorgEdge(s) - 1) : j < Len(text) => XorgExplained(text, s.found, j)
      /\ s.h # 0 => XorgReading(text, s)
  BY <1>1 DEF XorgInv, XorgStates
<1>4. CASE s.h = 0
  <2>1. r = s.found /\ XorgEdge(s) = Len(text) + 1 /\ XorgEdge(s) - 1 = Len(text)
    BY <1>1, <1>2, <1>4 DEF XorgEdge
  <2> QED
    BY <1>3, <2>1 DEF r
<1>5. CASE s.h # 0
  <2>1. r = xorg_crash(s, s.k, Len(text)) /\ XorgEdge(s) = s.h
    BY <1>2, <1>5 DEF XorgEdge
  <2>2. XorgReading(text, s) /\ s.h < s.i
    BY <1>3, <1>5 DEF XorgReading
  <2>3. Len(text) \in s.h..Len(text) /\ Len(text) + 1 \in Nat /\ Len(text) < Len(text) + 1
    BY <1>1, <1>3, <2>2
  <2>4. s.h + 1 <= Len(text) /\ text[s.h + 1] = "frame" => s.k > 0
    <3>1. s.h + 1 <= Len(text) => s.h + 1 \in (s.h + 1)..(s.i - 1)
      BY <1>1, <1>3
    <3> QED
      BY <2>2, <3>1 DEF XorgReading
  <2>5. CrashesUpTo(text, s.found, s.h) /\ \A j \in 1..(s.h - 1) : j < Len(text) => XorgExplained(text, s.found, j)
    BY <1>3, <2>1
  <2>6. HeadsExplained(text, s.found, s.h) /\ FrameCounted(text, s.h, s.k)
    BY <2>4, <2>5 DEF HeadsExplained, FrameCounted
  <2>7. CrashesUpTo(text, r, Len(text) + 1) /\ HeadsExplained(text, r, s.i)
    BY <1>3, <1>5, <2>1, <2>2, <2>3, <2>5, <2>6, CrashKeeps, Zenon
  <2> QED
    BY <1>3, <2>7 DEF r, HeadsExplained
<1> QED
  BY <1>4, <1>5

\* process_xorg_bt(), on any lines: every backtrace with a frame is found, unless its
\* head ended the one before, which was found or had only empty lines.
THEOREM XorgCrashesExtracted ==
  ASSUME NEW L, NEW text \in Seq(L)
  PROVE  XorgComplete(text, process_xorg_bt(text))
<1> DEFINE r == process_xorg_bt(text)
<1>1. \A j \in 1..Len(text) : j < Len(text) => XorgExplained(text, r, j)
  BY XorgExtracted
<1> HIDE DEF r
<1>2. \A j \in 1..(Len(text) - 1) : XorgExplained(text, r, j)
  BY <1>1
<1>3. XorgComplete(text, r)
  BY <1>2, Zenon DEF XorgComplete, XorgExplained, OnlyBlanks
<1> QED
  BY <1>3 DEF r

-----------------------------------------------------------------------------
(***************************************************************************)
(* The watch: its types, where it is, and the list of an extraction.       *)
(***************************************************************************)
Extraction == {"settle", "collect", "process", "pause", "delay", "finish"}
Listing == {"process", "pause", "delay", "finish"}
AtEntry == {"callback", "crash", "settle", "collect"}
Quiet == {"check", "next", "wait", "leave", "truncate", "write", "last_write"}
Places == [n : Nat, sought : BOOLEAN]

JournalTypes ==
  /\ kind \in Kinds /\ opt \in Options
  /\ log \in Seq(LinesOf[kind]) /\ Len(log) <= MaxLog
  /\ oldest \in Nat \ {0}

PlaceTypes ==
  /\ pos \in Places /\ (~pos.sought => pos.n <= Len(log)) /\ pos.n <= Len(log) + 1
  /\ state \in Nat /\ state <= Len(log)
  /\ reports \in [1..MaxLog -> Nat]

PcInv ==
  /\ pc \in {"down", "exit"} \cup Quiet \cup AtEntry \cup Listing
  /\ kind = "core" => pc \notin Extraction
  /\ kind # "core" => pc # "crash"
  /\ ~opt.follow => state = 0 /\ pc \notin Quiet \cup {"callback", "settle"}
  /\ pc \in AtEntry \cup Listing \cup {"write", "last_write"} => ~pos.sought
  /\ pc \in AtEntry \cup {"write", "last_write"} => pos.n >= 1

WatchTypes == JournalTypes /\ PlaceTypes /\ PcInv

\* The list of what an extraction has found.
InOrder(list, n) ==
  /\ list \in Ranges
  /\ \A k \in 1..Len(list) : list[k][1] \in 1..n /\ list[k][1] <= list[k][2]
  /\ \A k, l \in 1..Len(list) : k < l => list[k][1] < list[l][1]

ListInv ==
  pc \in Listing =>
    /\ lines \in Seq(LinesOf[kind]) /\ base \in Nat /\ base + Len(lines) = pos.n
    /\ InOrder(found, Len(lines)) /\ countdown \in Int /\ countdown <= MaxDumped
    /\ pc \in {"delay", "finish"} => found = <<>>
    /\ kind = "oops" /\ countdown = MaxDumped /\ pc \in {"process", "pause"} =>
         pc = "process" /\ found = koops_extract_oopses_from_lines(lines)

TypesInv == WatchTypes /\ ListInv

\* Whichever scan a watch uses, its ranges lie in order in the lines.
LEMMA ExtractIs ==
  ASSUME NEW L, NEW s \in Seq(L)
  PROVE  InOrder(Extract(s), Len(s))
<1> DEFINE r == Extract(s)
<1>0. Len(s) \in Nat
  OBVIOUS
<1>1. r \in Ranges /\ \A k \in 1..Len(r) : r[k][1] \in 1..Len(s) /\ r[k][2] \in r[k][1]..Len(s)
  <2>1. CASE kind = "oops"
    <3>1. r = koops_extract_oopses_from_lines(s)
      BY <2>1 DEF Extract
    <3>2. FoundUpTo(s, r, Len(s) + 1)
      BY <3>1, Extracted
    <3> HIDE DEF r
    <3> QED
      BY <3>2 DEF FoundUpTo, SoundRange
  <2>2. CASE kind # "oops"
    <3>1. r = process_xorg_bt(s)
      BY <2>2 DEF Extract
    <3>2. CrashesUpTo(s, r, Len(s) + 1)
      BY <3>1, XorgExtracted
    <3> HIDE DEF r
    <3> QED
      BY <3>2 DEF CrashesUpTo
  <2> QED
    BY <2>1, <2>2
<1>2. \A k, l \in 1..Len(r) : k < l => r[k][2] < r[l][1]
  <2>1. CASE kind = "oops"
    <3>1. r = koops_extract_oopses_from_lines(s)
      BY <2>1 DEF Extract
    <3>2. FoundUpTo(s, r, Len(s) + 1)
      BY <3>1, Extracted
    <3> HIDE DEF r
    <3> QED
      BY <3>2 DEF FoundUpTo
  <2>2. CASE kind # "oops"
    <3>1. r = process_xorg_bt(s)
      BY <2>2 DEF Extract
    <3>2. CrashesUpTo(s, r, Len(s) + 1)
      BY <3>1, XorgExtracted
    <3> HIDE DEF r
    <3> QED
      BY <3>2 DEF CrashesUpTo
  <2> QED
    BY <2>1, <2>2
<1> HIDE DEF r
<1>3. ASSUME NEW k \in 1..Len(r)
      PROVE  r[k][1] \in 1..Len(s) /\ r[k][1] \in Nat /\ r[k][2] \in Nat /\ r[k][1] <= r[k][2]
  <2>1. r[k][1] \in 1..Len(s) /\ r[k][2] \in r[k][1]..Len(s)
    BY <1>1
  <2> QED
    BY <1>0, <2>1
<1>4. ASSUME NEW k \in 1..Len(r), NEW l \in 1..Len(r), k < l PROVE r[k][1] < r[l][1]
  <2>1. r[k][2] < r[l][1]
    BY <1>2, <1>4
  <2>2. r[k][1] <= r[k][2] /\ r[k][1] \in Nat /\ r[k][2] \in Nat /\ r[l][1] \in Nat
    BY <1>3
  <2> QED
    BY <2>1, <2>2
<1>5. InOrder(r, Len(s))
  BY <1>1, <1>3, <1>4 DEF InOrder
<1> QED
  BY <1>5 DEF r

\* sd_journal_next(): the entry behind the position, or the oldest one left.
LEMMA NextIs ==
  ASSUME NEW p \in Places, oldest \in Nat \ {0}, Len(log) \in Nat
  PROVE  LET k == IF p.sought THEN p.n ELSE p.n + 1  q == abrt_journal_next(p) IN
         /\ NextEntry(p) = (IF oldest >= k THEN oldest ELSE k) /\ NextEntry(p) \in Nat /\ NextEntry(p) >= 1
         /\ q \in Places
         /\ HasNext(p) => q.n = NextEntry(p) /\ ~q.sought /\ q.n <= Len(log)
         /\ ~HasNext(p) => q = p /\ NextEntry(p) > Len(log)
<1> DEFINE k == IF p.sought THEN p.n ELSE p.n + 1
<1>1. k \in Nat /\ p.n \in Nat
  BY DEF Places
<1>2. NextEntry(p) = IF oldest >= k THEN oldest ELSE k
  BY <1>1, MaxOfTwo DEF NextEntry
<1>3. NextEntry(p) \in Nat /\ NextEntry(p) >= 1
  BY <1>1, <1>2
<1>4. At(NextEntry(p)) \in Places /\ At(NextEntry(p)).n = NextEntry(p) /\ ~At(NextEntry(p)).sought
  BY <1>3 DEF At, Places
<1>5. HasNext(p) <=> NextEntry(p) <= Len(log)
  BY DEF HasNext
<1> HIDE DEF k
<1>6. CASE HasNext(p)
  BY <1>2, <1>3, <1>4, <1>5, <1>6 DEF abrt_journal_next, k
<1>7. CASE ~HasNext(p)
  <2>1. abrt_journal_next(p) = p
    BY <1>7 DEF abrt_journal_next
  <2>2. NextEntry(p) > Len(log)
    BY <1>3, <1>5, <1>7
  <2> QED
    BY <1>2, <1>3, <1>7, <2>1, <2>2 DEF k
<1> QED
  BY <1>6, <1>7

\* The numbers of a watch.
LEMMA WatchNats ==
  ASSUME WatchTypes
  PROVE  /\ Len(log) \in Nat /\ oldest \in Nat \ {0} /\ state \in Nat /\ pos.n \in Nat /\ pos.sought \in BOOLEAN
         /\ MaxLog \in Nat /\ MaxDumped \in Nat \ {0} /\ opt.follow \in BOOLEAN /\ opt.tail \in BOOLEAN
         /\ Restored \in Places /\ Sought(1) \in Places /\ abrt_journal_seek_tail \in Places
<1>1. Len(log) \in Nat /\ oldest \in Nat \ {0} /\ state \in Nat /\ pos.n \in Nat /\ pos.sought \in BOOLEAN
      /\ opt.follow \in BOOLEAN /\ opt.tail \in BOOLEAN
  BY DEF WatchTypes, JournalTypes, PlaceTypes, Places, Options
<1>2. MaxLog \in Nat /\ MaxDumped \in Nat \ {0}
  BY WatchAssumption
<1>3. Restored \in Places /\ Sought(1) \in Places /\ abrt_journal_seek_tail \in Places
  BY <1>1 DEF Restored, Sought, At, abrt_journal_seek_tail, Places
<1> QED
  BY <1>1, <1>2, <1>3

\* main() begins at an entry of the journal or at a place to be sought.
LEMMA PlaceIs ==
  ASSUME WatchTypes
  PROVE  /\ Place \in Places /\ (~Place.sought => Place.n <= Len(log)) /\ Place.n <= Len(log) + 1
         /\ kind = "core" /\ opt.tail => Place = At(Len(log))
         /\ kind = "core" /\ ~opt.tail => Place = abrt_journal_next(Restored)
         /\ kind # "core" /\ state # 0 => Place = Sought(state)
         /\ kind # "core" /\ state = 0 /\ opt.tail => Place = At(Len(log))
         /\ kind # "core" /\ state = 0 /\ ~opt.tail => Place = Sought(1)
<1>1. /\ kind = "core" /\ opt.tail => Place = At(Len(log))
      /\ kind = "core" /\ ~opt.tail => Place = abrt_journal_next(Restored)
      /\ kind # "core" /\ state # 0 => Place = Sought(state)
      /\ kind # "core" /\ state = 0 /\ opt.tail => Place = At(Len(log))
      /\ kind # "core" /\ state = 0 /\ ~opt.tail => Place = Sought(1)
  BY DEF Place, Restored, abrt_journal_seek_tail
<1>2. \A n \in Nat : Sought(n) \in Places /\ Sought(n).sought /\ Sought(n).n = n /\ At(n) \in Places /\ At(n).n = n
  BY DEF Sought, At, Places
<1>3. Restored.sought /\ Restored.n \in {1, state}
  BY DEF Restored, Sought
<1>4. abrt_journal_next(Restored) \in Places /\ abrt_journal_next(Restored).n <= Len(log) + 1
      /\ (~abrt_journal_next(Restored).sought => abrt_journal_next(Restored).n <= Len(log))
  <2>1. Restored \in Places /\ oldest \in Nat \ {0} /\ Len(log) \in Nat
    BY WatchNats
  <2>2. state \in Nat /\ state <= Len(log)
    BY DEF WatchTypes, PlaceTypes
  <2>3. Restored.n <= Len(log) + 1
    BY <1>3, <2>1, <2>2
  <2> DEFINE q == abrt_journal_next(Restored)
  <2>4. q \in Places /\ (HasNext(Restored) => ~q.sought /\ q.n <= Len(log)) /\ (~HasNext(Restored) => q = Restored)
    BY <2>1, NextIs
  <2> HIDE DEF q
  <2>5. q.n \in Nat
    BY <2>4 DEF Places
  <2>6. q.n <= Len(log) + 1 /\ (~q.sought => q.n <= Len(log))
    BY <1>3, <2>1, <2>3, <2>4, <2>5
  <2> QED
    BY <2>4, <2>6 DEF q
<1>5. Len(log) \in Nat /\ state \in Nat /\ 1 \in Nat /\ Len(log) <= Len(log) + 1 /\ state <= Len(log) + 1 /\ 1 <= Len(log) + 1
  BY WatchNats DEF WatchTypes, PlaceTypes
<1>6. CASE kind = "core" /\ opt.tail
  BY <1>1, <1>2, <1>5, <1>6
<1>7. CASE kind = "core" /\ ~opt.tail
  BY <1>1, <1>4, <1>7
<1>8. CASE kind # "core" /\ state # 0
  BY <1>1, <1>2, <1>5, <1>8
<1>9. CASE kind # "core" /\ state = 0 /\ opt.tail
  BY <1>1, <1>2, <1>5, <1>9
<1>10. CASE kind # "core" /\ state = 0 /\ ~opt.tail
  BY <1>1, <1>2, <1>5, <1>10
<1> QED
  BY <1>1, <1>6, <1>7, <1>8, <1>9, <1>10

\* Types hold at first.
LEMMA InitTypes == Init => TypesInv
<1> SUFFICES ASSUME Init PROVE TypesInv
  OBVIOUS
<1>1. PICK s \in Starts : kind = s.kind /\ opt = s.opt /\ log = s.log
  BY DEF Init
<1>2. JournalTypes
  BY <1>1, LinesAssumption DEF Init, JournalTypes
<1>3. PlaceTypes
  <2>1. Len(log) \in Nat
    BY <1>2 DEF JournalTypes
  <2> QED
    BY <2>1 DEF Init, PlaceTypes, Sought, Places
<1>4. PcInv /\ ListInv
  BY DEF Init, PcInv, ListInv, Quiet, AtEntry, Listing, Extraction
<1> QED
  BY <1>2, <1>3, <1>4 DEF TypesInv, WatchTypes

\* A step that leaves the journal alone keeps its types.
LEMMA JournalLeft ==
  ASSUME JournalTypes, UNCHANGED <<kind, opt, journal>>
  PROVE  JournalTypes'
BY DEF JournalTypes, journal

\* A step outside the lists that leaves the journal alone.
LEMMA StartTypes ==
  ASSUME TypesInv, start_watch \/ start_once
  PROVE  TypesInv'
<1>0. WatchTypes /\ JournalTypes /\ PlaceTypes /\ PcInv
  BY DEF TypesInv, WatchTypes
<1>1. UNCHANGED <<kind, opt, journal, state, reports>> /\ UNCHANGED <<log, oldest>>
  BY DEF start_watch, start_once, journal
<1>2. JournalTypes'
  BY <1>0, <1>1, JournalLeft
<1>3. CASE start_watch
  <2>1. pos' = Place /\ pc' = "check" /\ opt.follow
    BY <1>0, <1>3 DEF start_watch, start, JournalTypes, Options
  <2>2. PlaceTypes'
    BY <1>0, <1>1, <2>1, PlaceIs DEF PlaceTypes
  <2>3. PcInv' /\ ListInv'
    BY <1>1, <2>1 DEF PcInv, ListInv, Quiet, AtEntry, Listing, Extraction
  <2> QED
    BY <1>2, <2>2, <2>3 DEF TypesInv, WatchTypes
<1>4. CASE start_once
  <2> DEFINE q == abrt_journal_next(Sought(1))
  <2>1. /\ pos' = q /\ pc' = IF ~HasNext(Sought(1)) THEN "exit" ELSE IF kind = "core" THEN "crash" ELSE "collect"
    BY <1>4 DEF start_once
  <2>2. ~opt.follow
    BY <1>0, <1>4 DEF start_once, start, JournalTypes, Options
  <2>3. q \in Places /\ (HasNext(Sought(1)) => ~q.sought /\ q.n <= Len(log) /\ q.n >= 1)
        /\ (~HasNext(Sought(1)) => q.sought)
    <3>1. Sought(1) \in Places /\ oldest \in Nat \ {0} /\ Len(log) \in Nat /\ Sought(1).sought
      BY <1>0, WatchNats DEF Sought
    <3> QED
      BY <3>1, NextIs
  <2> HIDE DEF q
  <2>4. PlaceTypes'
    <3>1. q.n \in Nat /\ Len(log) \in Nat /\ (~HasNext(Sought(1)) => q.n = 1)
      BY <1>0, <2>3, WatchNats DEF Places, q, abrt_journal_next, Sought
    <3>2. q.n <= Len(log) + 1
      BY <2>3, <3>1
    <3> QED
      BY <1>0, <1>1, <2>1, <2>3, <3>2 DEF PlaceTypes
  <2>5. PcInv'
    <3>1. CASE ~HasNext(Sought(1))
      BY <1>0, <1>1, <2>1, <2>2, <3>1 DEF PcInv, Quiet, AtEntry, Listing, Extraction
    <3>2. CASE HasNext(Sought(1)) /\ kind = "core"
      BY <1>0, <1>1, <2>1, <2>2, <2>3, <3>2 DEF PcInv, Quiet, AtEntry, Listing, Extraction
    <3>3. CASE HasNext(Sought(1)) /\ kind # "core"
      BY <1>0, <1>1, <2>1, <2>2, <2>3, <3>3 DEF PcInv, Quiet, AtEntry, Listing, Extraction
    <3> QED
      BY <3>1, <3>2, <3>3
  <2>6. ListInv'
    BY <2>1 DEF ListInv, Listing
  <2> QED
    BY <1>2, <2>4, <2>5, <2>6 DEF TypesInv, WatchTypes
<1> QED
  BY <1>3, <1>4

\* A step of the program that moves pc only, out of the lists.
LEMMA MoveTypes ==
  ASSUME TypesInv, UNCHANGED <<kind, opt, journal, pos, state, reports>>,
         pc' \notin Listing, PcInv'
  PROVE  TypesInv'
<1>1. JournalTypes' /\ PlaceTypes'
  BY JournalLeft DEF TypesInv, WatchTypes, JournalTypes, PlaceTypes, journal
<1>2. ListInv'
  BY DEF ListInv
<1> QED
  BY <1>1, <1>2 DEF TypesInv, WatchTypes

\* The steps of the main loop of a watch.
LEMMA LoopTypes ==
  ASSUME TypesInv,
         check_loop \/ poll_journal \/ abrt_journal_watch_notify_strings \/ settle \/ exit \/ kill
  PROVE  TypesInv'
<1>0. WatchTypes /\ JournalTypes /\ PlaceTypes /\ PcInv
  BY DEF TypesInv, WatchTypes
<1>1. UNCHANGED <<kind, opt, journal, pos, state, reports>>
  BY DEF check_loop, poll_journal, abrt_journal_watch_notify_strings, settle, exit, kill, ghosts
<1>2. pc' \notin Listing
  BY DEF check_loop, poll_journal, abrt_journal_watch_notify_strings, settle, exit, kill, Listing
<1>3. PcInv'
  <2>1. CASE check_loop
    BY <1>0, <1>1, <2>1 DEF check_loop, PcInv, Quiet, AtEntry, Listing, Extraction
  <2>2. CASE poll_journal
    BY <1>0, <1>1, <2>2 DEF poll_journal, PcInv, Quiet, AtEntry, Listing, Extraction
  <2>3. CASE abrt_journal_watch_notify_strings
    <3>0. pc = "callback" /\ opt.follow /\ ~pos.sought /\ pos.n >= 1 
      BY <1>0, <2>3 DEF abrt_journal_watch_notify_strings, PcInv, AtEntry
    <3>1. pc' = IF kind = "core" THEN "crash" ELSE IF Suspicious(log[pos.n]) THEN "settle" ELSE "check"
      BY <2>3 DEF abrt_journal_watch_notify_strings
    <3> QED
      BY <1>0, <1>1, <3>0, <3>1 DEF PcInv, Quiet, AtEntry, Listing, Extraction
  <2>4. CASE settle
    BY <1>0, <1>1, <2>4 DEF settle, PcInv, Quiet, AtEntry, Listing, Extraction
  <2>5. CASE exit
    BY <1>0, <1>1, <2>5 DEF exit, PcInv, Quiet, AtEntry, Listing, Extraction
  <2>6. CASE kill
    BY <1>0, <1>1, <2>6 DEF kill, PcInv, Quiet, AtEntry, Listing, Extraction
  <2> QED
    BY <2>1, <2>2, <2>3, <2>4, <2>5, <2>6
<1> QED
  BY <1>1, <1>2, <1>3, MoveTypes

\* abrt_journal_watch_run_sync(): the next entry, or none.
LEMMA IterateTypes ==
  ASSUME TypesInv, iterate
  PROVE  TypesInv'
<1>0. WatchTypes /\ JournalTypes /\ PlaceTypes /\ PcInv /\ pc = "next"
  BY DEF TypesInv, WatchTypes, iterate
<1>1. UNCHANGED <<kind, opt, journal, state, reports>> /\ UNCHANGED log
  BY DEF iterate, ghosts, journal
<1>2. JournalTypes'
  BY <1>0, <1>1, JournalLeft
<1> DEFINE q == abrt_journal_next(pos)
<1>3. pos' = q /\ pc' = IF HasNext(pos) THEN "callback" ELSE "wait"
  BY DEF iterate
<1>4. q \in Places /\ (HasNext(pos) => ~q.sought /\ q.n <= Len(log) /\ q.n >= 1) /\ (~HasNext(pos) => q = pos)
  <2>1. pos \in Places /\ oldest \in Nat \ {0} /\ Len(log) \in Nat
    BY <1>0, WatchNats DEF PlaceTypes
  <2> QED
    BY <2>1, NextIs
<1> HIDE DEF q
<1>5. PlaceTypes'
  <2>1. q.n \in Nat /\ Len(log) \in Nat
    BY <1>0, <1>4, WatchNats DEF Places
  <2>2. q.n <= Len(log) + 1
    BY <1>0, <1>4, <2>1 DEF PlaceTypes
  <2>3. ~q.sought => q.n <= Len(log)
    BY <1>0, <1>4 DEF PlaceTypes
  <2> QED
    BY <1>0, <1>1, <1>3, <1>4, <2>2, <2>3 DEF PlaceTypes
<1>6. opt.follow
  BY <1>0 DEF PcInv, Quiet
<1>7. PcInv'
  <2>1. CASE HasNext(pos)
    BY <1>1, <1>3, <1>4, <1>6, <2>1 DEF PcInv, Quiet, AtEntry, Listing, Extraction
  <2>2. CASE ~HasNext(pos)
    BY <1>1, <1>3, <1>4, <1>6, <2>2 DEF PcInv, Quiet, AtEntry, Listing, Extraction
  <2> QED
    BY <2>1, <2>2
<1>8. ListInv'
  BY <1>3 DEF ListInv, Listing
<1> QED
  BY <1>2, <1>5, <1>7, <1>8 DEF TypesInv, WatchTypes

\* abrt_journal_watch_cores(): one entry, one problem or none.
LEMMA CoresTypes ==
  ASSUME TypesInv, abrt_journal_watch_cores
  PROVE  TypesInv'
<1>0. WatchTypes /\ JournalTypes /\ PlaceTypes /\ PcInv /\ pc = "crash"
  BY DEF TypesInv, WatchTypes, abrt_journal_watch_cores
<1>1. UNCHANGED <<kind, opt, journal, pos, state>> /\ UNCHANGED log
  BY DEF abrt_journal_watch_cores, journal
<1>2. JournalTypes'
  BY <1>0, <1>1, JournalLeft
<1>3. pos.n \in 1..MaxLog
  BY <1>0, WatchNats DEF PcInv, PlaceTypes, JournalTypes, AtEntry
<1>4. reports' = reports \/ reports' = [reports EXCEPT ![pos.n] = @ + 1]
  BY DEF abrt_journal_watch_cores, ignore_crash, save_crash
<1>5. PlaceTypes'
  BY <1>0, <1>1, <1>3, <1>4 DEF PlaceTypes
<1>6. pc' = IF opt.follow THEN "truncate" ELSE "exit"
  BY DEF abrt_journal_watch_cores, Saves
<1>7. PcInv'
  BY <1>0, <1>1, <1>6 DEF PcInv, Quiet, AtEntry, Listing, Extraction
<1>8. ListInv'
  BY <1>6 DEF ListInv, Listing
<1> QED
  BY <1>2, <1>5, <1>7, <1>8 DEF TypesInv, WatchTypes

\* abrt_journal_save_current_position(), in its two steps.
LEMMA StateTypes ==
  ASSUME TypesInv, truncate_state \/ write_state
  PROVE  TypesInv'
<1>0. WatchTypes /\ JournalTypes /\ PlaceTypes /\ PcInv
  BY DEF TypesInv, WatchTypes
<1>1. UNCHANGED <<kind, opt, journal, pos, reports>> /\ UNCHANGED log
  BY DEF truncate_state, write_state, ghosts, journal
<1>2. JournalTypes'
  BY <1>0, <1>1, JournalLeft
<1>3. pc \in Quiet /\ opt.follow
  BY <1>0 DEF truncate_state, write_state, Quiet, PcInv
<1>4. CASE truncate_state
  <2>1. CASE HasCursor(pos)
    <3>1. state' = 0 /\ pc' \in {"last_write", "write"} /\ ~pos.sought /\ pos.n >= 1
      BY <1>4, <2>1 DEF truncate_state, HasCursor
    <3>2. PlaceTypes'
      <4>1. 0 \in Nat /\ 0 <= Len(log)
        BY <1>0, WatchNats
      <4> QED
        BY <1>0, <1>1, <3>1, <4>1 DEF PlaceTypes
    <3>3. PcInv' /\ ListInv'
      BY <1>1, <1>3, <3>1 DEF PcInv, ListInv, Quiet, AtEntry, Listing, Extraction
    <3> QED
      BY <1>2, <3>2, <3>3 DEF TypesInv, WatchTypes
  <2>2. CASE ~HasCursor(pos)
    <3>1. state' = state /\ pc' \in {"exit", "check"}
      BY <1>4, <2>2 DEF truncate_state
    <3>2. PlaceTypes'
      BY <1>0, <1>1, <3>1 DEF PlaceTypes
    <3>3. PcInv' /\ ListInv'
      BY <1>1, <1>3, <3>1 DEF PcInv, ListInv, Quiet, AtEntry, Listing, Extraction
    <3> QED
      BY <1>2, <3>2, <3>3 DEF TypesInv, WatchTypes
  <2> QED
    BY <2>1, <2>2
<1>5. CASE write_state
  <2>1. state' = pos.n /\ pc' \in {"exit", "check"} /\ ~pos.sought
    BY <1>0, <1>5 DEF write_state, PcInv
  <2>2. PlaceTypes'
    BY <1>0, <1>1, <2>1, WatchNats DEF PlaceTypes
  <2>3. PcInv' /\ ListInv'
    BY <1>1, <1>3, <2>1 DEF PcInv, ListInv, Quiet, AtEntry, Listing, Extraction
  <2> QED
    BY <1>2, <2>2, <2>3 DEF TypesInv, WatchTypes
<1> QED
  BY <1>4, <1>5

\* The lines read at once end in the journal, at the position or behind it.
LEMMA LastReadIs ==
  ASSUME WatchTypes, pc = "collect"
  PROVE  LastRead \in Nat /\ pos.n <= LastRead /\ LastRead <= Len(log) /\ 1 <= pos.n /\ pos.n \in Nat
<1>1. pos.n \in Nat /\ 1 <= pos.n /\ pos.n <= Len(log) /\ Len(log) \in Nat
  BY WatchNats DEF WatchTypes, PcInv, PlaceTypes, AtEntry
<1>2. MaxRead \in Nat \ {0}
  BY WatchAssumption
<1> DEFINE T == {Len(log), pos.n + MaxRead - 1}
<1>3. pos.n + MaxRead - 1 \in Nat /\ pos.n + MaxRead - 1 >= pos.n
  BY <1>1, <1>2
<1>4. Min(T) \in T /\ \A y \in T : Min(T) <= y
  <2>1. T \subseteq Nat /\ T # {}
    BY <1>1, <1>3
  <2> HIDE DEF T
  <2> QED
    BY <2>1, MinIs
<1> DEFINE m == Min(T)
<1>5. m \in {Len(log), pos.n + MaxRead - 1} /\ m <= Len(log)
  BY <1>4
<1>6. LastRead = IF kind = "oops" THEN m ELSE Len(log)
  BY DEF LastRead
<1> HIDE DEF T, m
<1>7. m \in Nat /\ pos.n <= m /\ m <= Len(log)
  BY <1>1, <1>3, <1>5
<1> QED
  BY <1>1, <1>6, <1>7

\* The lines read at once, and what was found in them.
LEMMA CollectTypes ==
  ASSUME TypesInv, collect
  PROVE  TypesInv' /\ lines' \in Seq(LinesOf[kind]) /\ base' = pos.n - 1 /\ base' + Len(lines') = LastRead
         /\ InOrder(found', Len(lines'))
<1>0. WatchTypes /\ JournalTypes /\ PlaceTypes /\ PcInv /\ pc = "collect" /\ kind # "core"
  BY DEF TypesInv, WatchTypes, PcInv, collect, Extraction
<1>1. UNCHANGED <<kind, opt, journal, state, reports>> /\ UNCHANGED log
  BY DEF collect, journal
<1>2. JournalTypes'
  BY <1>0, <1>1, JournalLeft
<1>3. LastRead \in Nat /\ pos.n <= LastRead /\ LastRead <= Len(log) /\ 1 <= pos.n /\ pos.n \in Nat /\ Len(log) \in Nat
  BY <1>0, LastReadIs, WatchNats
<1>4. pos' = At(LastRead) /\ pc' = "process" /\ countdown' = MaxDumped /\ base' = pos.n - 1
      /\ lines' = SubSeq(log, pos.n, LastRead) /\ found' = Extract(lines')
  BY DEF collect
<1>5. pos' \in Places /\ ~pos'.sought /\ pos'.n = LastRead
  BY <1>3, <1>4 DEF At, Places
<1>6. lines' \in Seq(LinesOf[kind]) /\ Len(lines') = (LastRead - pos.n) + 1
  <2>1. log \in Seq(LinesOf[kind])
    BY <1>0 DEF JournalTypes
  <2>3. \A i \in pos.n..LastRead : log[i] \in LinesOf[kind]
    BY <1>3, <2>1
  <2>4. pos.n \in Int /\ LastRead \in Int /\ pos.n <= LastRead
    BY <1>3
  <2>5. SubSeq(log, pos.n, LastRead) \in Seq(LinesOf[kind])
        /\ Len(SubSeq(log, pos.n, LastRead)) = IF pos.n <= LastRead THEN (LastRead - pos.n) + 1 ELSE 0
    BY <2>3, <2>4, SubSeqProperties, ZenonT(40)
  <2> QED
    BY <1>4, <2>4, <2>5
<1>7. base' \in Nat /\ base' + Len(lines') = LastRead
  BY <1>3, <1>4, <1>6
<1>8. InOrder(found', Len(lines'))
  BY <1>4, <1>6, ExtractIs
<1>9. PlaceTypes'
  <2>1. pos'.n <= Len(log) + 1
    BY <1>3, <1>5
  <2> QED
    BY <1>0, <1>1, <1>3, <1>5, <2>1 DEF PlaceTypes
<1>10. PcInv'
  BY <1>0, <1>1, <1>4, <1>5 DEF PcInv, Quiet, AtEntry, Listing, Extraction
<1>11. ListInv'
  <2>1. countdown' \in Int /\ countdown' <= MaxDumped
    BY <1>0, <1>4, WatchNats
  <2>2. kind = "oops" => found' = koops_extract_oopses_from_lines(lines')
    BY <1>4 DEF Extract
  <2> QED
    BY <1>1, <1>4, <1>5, <1>6, <1>7, <1>8, <2>1, <2>2 DEF ListInv
<1> QED
  BY <1>2, <1>4, <1>6, <1>7, <1>8, <1>9, <1>10, <1>11 DEF TypesInv, WatchTypes

\* The rest of a list in order is in order.
LEMMA TailInOrder ==
  ASSUME NEW list, NEW n \in Nat, InOrder(list, n), list # <<>>
  PROVE  /\ InOrder(Tail(list), n)
         /\ Len(list) \in Nat /\ Len(list) >= 1 /\ Head(list) = list[1]
         /\ Len(Tail(list)) = Len(list) - 1
         /\ \A k \in 1..Len(Tail(list)) : Tail(list)[k] = list[k + 1] /\ k + 1 \in 1..Len(list)
         /\ list[1][1] \in 1..n /\ list[1][1] <= list[1][2]
         /\ list[1][1] \in Nat /\ list[1][2] \in Nat
<1>1. list \in Seq(Nat \X Nat) /\ Len(list) \in Nat /\ Len(list) >= 1 /\ Head(list) = list[1]
  BY DEF InOrder, Ranges
<1> DEFINE r == Tail(list)
<1>2. r \in Seq(Nat \X Nat) /\ Len(r) = Len(list) - 1 /\ \A k \in 1..Len(r) : r[k] = list[k + 1] /\ k + 1 \in 1..Len(list)
  BY <1>1
<1> HIDE DEF r
<1>3. \A k \in 1..Len(r) : r[k][1] \in 1..n /\ r[k][1] <= r[k][2]
  BY <1>2 DEF InOrder
<1>4. ASSUME NEW k \in 1..Len(r), NEW l \in 1..Len(r), k < l PROVE r[k][1] < r[l][1]
  <2>1. k + 1 \in 1..Len(list) /\ l + 1 \in 1..Len(list) /\ k + 1 < l + 1
    BY <1>1, <1>2, <1>4
  <2>2. list[k + 1][1] < list[l + 1][1]
    BY <2>1 DEF InOrder
  <2> QED
    BY <1>2, <2>2
<1>5. InOrder(r, n)
  BY <1>2, <1>3, <1>4 DEF InOrder, Ranges
<1>6. 1 \in 1..Len(list) /\ list[1] \in Nat \X Nat
  BY <1>1
<1>7. list[1][1] \in 1..n /\ list[1][1] <= list[1][2] /\ list[1][1] \in Nat /\ list[1][2] \in Nat
  BY <1>6 DEF InOrder
<1> QED
  BY <1>1, <1>2, <1>5, <1>7 DEF r

\* The first problem of the list is saved.
LEMMA CreateTypes ==
  ASSUME TypesInv, create_dump_dir
  PROVE  TypesInv'
<1>0. WatchTypes /\ JournalTypes /\ PlaceTypes /\ PcInv /\ ListInv /\ pc = "process" /\ found # <<>>
  BY DEF TypesInv, WatchTypes, create_dump_dir
<1>1. UNCHANGED <<kind, opt, journal, pos, state, lines, base>> /\ UNCHANGED log
  BY DEF create_dump_dir, journal
<1>2. JournalTypes'
  BY <1>0, <1>1, JournalLeft
<1>3. /\ lines \in Seq(LinesOf[kind]) /\ base \in Nat /\ base + Len(lines) = pos.n /\ Len(lines) \in Nat
      /\ InOrder(found, Len(lines)) /\ countdown \in Int /\ countdown <= MaxDumped
  BY <1>0 DEF ListInv, Listing
<1>4. PICK saved \in BOOLEAN :
       /\ reports' = [reports EXCEPT ![base + Head(found)[1]] = @ + (IF saved THEN 1 ELSE 0)]
       /\ found' = IF saved \/ kind = "xorg" THEN Tail(found) ELSE found
       /\ pc' = IF opt.throttle /\ (kind = "xorg" \/ (saved /\ countdown > 1))
                THEN "pause" ELSE "process"
  BY DEF create_dump_dir
<1>5. countdown' = countdown - (IF kind = "oops" THEN 1 ELSE 0)
  BY DEF create_dump_dir
<1>6. Head(found) = found[1] /\ found[1][1] \in 1..Len(lines) /\ InOrder(Tail(found), Len(lines))
  BY <1>0, <1>3, TailInOrder
<1>7. base + Head(found)[1] \in 1..MaxLog
  <2>1. pos.n <= MaxLog /\ MaxLog \in Nat /\ pos.n \in Nat
    BY <1>0, WatchNats DEF PlaceTypes, JournalTypes, PcInv, Listing
  <2> QED
    BY <1>3, <1>6, <2>1
<1>8. PlaceTypes'
  <2>1. reports' \in [1..MaxLog -> Nat]
    BY <1>0, <1>4, <1>7 DEF PlaceTypes
  <2> QED
    BY <1>0, <1>1, <2>1 DEF PlaceTypes
<1>9. pc' \in {"pause", "process"}
  BY <1>4
<1>10. PcInv'
  BY <1>0, <1>1, <1>9 DEF PcInv, Quiet, AtEntry, Listing, Extraction
<1>11. InOrder(found', Len(lines))
  BY <1>3, <1>4, <1>6
<1>12. MaxDumped \in Nat
  BY WatchAssumption
<1>13. /\ countdown' \in Int /\ countdown' <= MaxDumped
       /\ kind = "oops" => countdown' < MaxDumped
  BY <1>3, <1>5, <1>12
<1>14. ListInv'
  BY <1>1, <1>3, <1>9, <1>11, <1>12, <1>13 DEF ListInv
<1> QED
  BY <1>2, <1>8, <1>10, <1>14 DEF TypesInv, WatchTypes

\* A step that leaves the lines of an extraction alone.
LEMMA ListTypes ==
  ASSUME TypesInv, end_of_list \/ pause \/ finish_extraction
  PROVE  TypesInv'
<1>0. WatchTypes /\ JournalTypes /\ PlaceTypes /\ PcInv /\ ListInv /\ pc \in Listing
  BY DEF TypesInv, WatchTypes, end_of_list, pause, finish_extraction, Listing
<1>1. UNCHANGED <<kind, opt, journal, state, lines, base, countdown, reports>> /\ UNCHANGED log
  BY DEF end_of_list, pause, finish_extraction, journal, work, ghosts
<1>2. JournalTypes'
  BY <1>0, <1>1, JournalLeft
<1>3. /\ lines \in Seq(LinesOf[kind]) /\ base \in Nat /\ base + Len(lines) = pos.n /\ Len(lines) \in Nat
      /\ InOrder(found, Len(lines)) /\ countdown \in Int /\ countdown <= MaxDumped
  BY <1>0 DEF ListInv
<1>4. CASE end_of_list
  <2>1. UNCHANGED pos /\ found' = <<>> /\ pc' \in {"delay", "finish"}
    BY <1>4 DEF end_of_list
  <2>2. InOrder(<<>>, Len(lines))
    <3>1. <<>> \in Ranges /\ Len(<<>>) = 0
      BY DEF Ranges
    <3> QED
      BY <3>1 DEF InOrder
  <2>3. PlaceTypes' /\ PcInv'
    BY <1>0, <1>1, <2>1 DEF PlaceTypes, PcInv, Quiet, AtEntry, Listing, Extraction
  <2>4. ListInv'
    BY <1>1, <1>3, <2>1, <2>2 DEF ListInv
  <2> QED
    BY <1>2, <2>3, <2>4 DEF TypesInv, WatchTypes
<1>5. CASE pause
  <2>1. UNCHANGED <<pos, found>> /\ pc \in {"pause", "delay"} /\ pc' = IF pc = "pause" THEN "process" ELSE "finish"
    BY <1>5 DEF pause, work
  <2>3. PlaceTypes' /\ PcInv'
    BY <1>0, <1>1, <2>1 DEF PlaceTypes, PcInv, Quiet, AtEntry, Listing, Extraction
  <2>4. ListInv'
    BY <1>0, <1>1, <1>3, <2>1 DEF ListInv
  <2> QED
    BY <1>2, <2>3, <2>4 DEF TypesInv, WatchTypes
<1>6. CASE finish_extraction
  <2>1. /\ pos' = IF kind = "oops" /\ opt.follow THEN At(Len(log)) ELSE pos
        /\ pc' = IF opt.follow THEN "truncate" ELSE "exit"
    BY <1>6 DEF finish_extraction, abrt_journal_seek_tail, Saves
  <2>2. At(Len(log)) \in Places /\ At(Len(log)).n = Len(log) /\ Len(log) \in Nat /\ Len(log) <= Len(log)
    BY <1>0, WatchNats DEF At, Places
  <2>3. pos' \in Places /\ (~pos'.sought => pos'.n <= Len(log)) /\ pos'.n <= Len(log) + 1
    BY <1>0, <2>1, <2>2 DEF PlaceTypes
  <2>4. PlaceTypes'
    BY <1>0, <1>1, <2>3 DEF PlaceTypes
  <2>5. PcInv'
    BY <1>0, <1>1, <2>1 DEF PcInv, Quiet, AtEntry, Listing, Extraction
  <2>6. ListInv'
    BY <2>1 DEF ListInv, Listing
  <2> QED
    BY <1>2, <2>4, <2>5, <2>6 DEF TypesInv, WatchTypes
<1> QED
  BY <1>4, <1>5, <1>6

\* A signal stops the loop.
LEMMA TermTypes ==
  ASSUME TypesInv, term
  PROVE  TypesInv'
<1>0. WatchTypes /\ JournalTypes /\ PlaceTypes /\ PcInv /\ ListInv /\ opt.follow
  BY DEF TypesInv, WatchTypes, term
<1>1. UNCHANGED <<kind, opt, journal, pos, state, lines, base, found, countdown, reports>>
  BY DEF term, work, ghosts
<1>2. JournalTypes' /\ PlaceTypes'
  BY <1>0, <1>1, JournalLeft DEF PlaceTypes, journal
<1>3. \/ pc = "settle" /\ pc' = "check"
      \/ pc = "pause" /\ pc' = "process"
      \/ pc = "delay" /\ pc' = "finish"
      \/ pc = "wait" /\ pc' = "check"
      \/ pc' = pc
  BY DEF term
<1>4. PcInv'
  BY <1>0, <1>1, <1>3 DEF PcInv, Quiet, AtEntry, Listing, Extraction
<1>5. ListInv'
  <2>1. CASE pc' = "check"
    BY <2>1 DEF ListInv, Listing
  <2>2. CASE pc = "pause" /\ pc' = "process"
    BY <1>0, <1>1, <2>2 DEF ListInv, Listing
  <2>3. CASE pc = "delay" /\ pc' = "finish"
    BY <1>0, <1>1, <2>3 DEF ListInv, Listing
  <2>4. CASE pc' = pc
    BY <1>0, <1>1, <2>4 DEF ListInv
  <2> QED
    BY <1>3, <2>1, <2>2, <2>3, <2>4
<1> QED
  BY <1>2, <1>4, <1>5 DEF TypesInv, WatchTypes

\* The journal grows at its end and loses its oldest entries.
LEMMA GrowTypes ==
  ASSUME TypesInv, vacuum \/ \E l \in NewLines[kind] : append(l)
  PROVE  TypesInv'
<1>0. WatchTypes /\ JournalTypes /\ PlaceTypes /\ PcInv /\ ListInv /\ Len(log) \in Nat
  BY WatchNats DEF TypesInv, WatchTypes
<1>1. UNCHANGED <<kind, opt, pos, state, pc, lines, base, found, countdown, reports>>
  BY DEF vacuum, append, work, ghosts
<1>2. PcInv' /\ ListInv'
  BY <1>0, <1>1 DEF PcInv, ListInv
<1>3. CASE vacuum
  <2>1. log' = log /\ oldest' = oldest + 1
    BY <1>3 DEF vacuum
  <2>2. JournalTypes' /\ PlaceTypes'
    BY <1>0, <1>1, <2>1 DEF JournalTypes, PlaceTypes
  <2> QED
    BY <1>2, <2>2 DEF TypesInv, WatchTypes
<1>4. ASSUME NEW l \in NewLines[kind], append(l) PROVE TypesInv'
  <2>1. log' = Append(log, l) /\ oldest' = oldest /\ Len(log) < MaxGrow
    BY <1>4 DEF append
  <2>2. l \in LinesOf[kind] /\ MaxGrow \in Nat /\ MaxLog \in Nat /\ MaxGrow <= MaxLog
    BY <1>0, LinesAssumption, WatchAssumption DEF JournalTypes
  <2>3. log' \in Seq(LinesOf[kind]) /\ Len(log') = Len(log) + 1
    BY <1>0, <2>1, <2>2 DEF JournalTypes
  <2>4. Len(log') <= MaxLog
    BY <1>0, <2>1, <2>2, <2>3
  <2>5. JournalTypes'
    BY <1>0, <1>1, <2>1, <2>3, <2>4 DEF JournalTypes
  <2>6. PlaceTypes'
    <3>1. state <= Len(log') /\ (~pos.sought => pos.n <= Len(log')) /\ pos.n <= Len(log') + 1
      BY <1>0, <2>3, WatchNats DEF PlaceTypes
    <3> QED
      BY <1>0, <1>1, <3>1 DEF PlaceTypes
  <2> QED
    BY <1>2, <2>5, <2>6 DEF TypesInv, WatchTypes
<1> QED
  BY <1>3, <1>4

\* Every step keeps the types and the place.
LEMMA TypesKept == TypesInv /\ [Next]_vars => TypesInv'
<1>1. ASSUME TypesInv, UNCHANGED vars PROVE TypesInv'
  BY <1>1 DEF TypesInv, WatchTypes, JournalTypes, PlaceTypes, PcInv, ListInv, vars, journal, work, ghosts
<1> QED
  BY <1>1, StartTypes, LoopTypes, IterateTypes, CoresTypes, StateTypes, CollectTypes, CreateTypes,
     ListTypes, TermTypes, GrowTypes DEF Next, Step

-----------------------------------------------------------------------------
(***************************************************************************)
(* What is behind the position was handled.                                *)
(***************************************************************************)
\* An entry was dealt with, or main() passed it over.
Accounted(i) == reports[i] > 0 \/ i \in examined \cup excused \cup skipped
\* Every entry up to n that matters was dealt with.
Done(n) == \A i \in 1..Len(log) : i <= n /\ Notable(i) => Accounted(i)
DoneNext(n) == \A i \in 1..Len(log') : i <= n /\ Notable(i)' => Accounted(i)'
\* What is still to be made a problem of.
Listed(i) == \E k \in 1..Len(found) : i = base + found[k][1]

GoneExcused == \A i \in 1..(oldest - 1) : i \in excused
StateDone == state # 0 => Done(state - 1) /\ (kind = "core" => Done(state))
LoopDone ==
  pc \in Quiet =>
    /\ Done(pos.n - 1)
    /\ pos.sought \/ Done(pos.n) \/ (kind # "core" /\ stopped /\ pc \in {"check", "leave", "last_write"})
EntryDone == pc \in AtEntry => Done(pos.n - 1)
ListDone == pc \in Listing => \A i \in 1..Len(log) : i <= pos.n /\ Notable(i) => Accounted(i) \/ Listed(i)

HandledInv == GoneExcused /\ (opt.follow => StateDone /\ LoopDone /\ EntryDone /\ ListDone)

\* Nothing that was settled is unsettled.
Grows ==
  /\ \A i \in 1..MaxLog : reports'[i] >= reports[i]
  /\ examined \subseteq examined' /\ excused \subseteq excused' /\ skipped \subseteq skipped'

\* What was reported and examined stays so.
LEMMA GhostsGrow ==
  ASSUME TypesInv, UNCHANGED <<reports, examined, excused, skipped>>
  PROVE  Grows
BY DEF TypesInv, WatchTypes, PlaceTypes, Grows

\* A settled entry stays settled while the journal only grows.
LEMMA SettledStays ==
  ASSUME TypesInv, TypesInv', Grows, kind' = kind, Len(log) <= Len(log'),
         \A i \in 1..Len(log) : log'[i] = log[i],
         NEW i \in 1..Len(log)
  PROVE  (Accounted(i) => Accounted(i)') /\ (Notable(i)' <=> Notable(i))
<1>0. Len(log) \in Nat /\ Len(log') \in Nat /\ Len(log) <= MaxLog /\ MaxLog \in Nat
  BY WatchNats, WatchAssumption DEF TypesInv, WatchTypes, JournalTypes
<1>1. i \in 1..MaxLog /\ i \in 1..Len(log')
  BY <1>0
<1>2. reports[i] \in Nat /\ reports'[i] \in Nat
  BY <1>1 DEF TypesInv, WatchTypes, PlaceTypes
<1>3. Accounted(i) => Accounted(i)'
  BY <1>1, <1>2 DEF Accounted, Grows
<1>4. Suspicious(log[i])' <=> Suspicious(log[i])
  BY <1>1 DEF Suspicious
<1>5. Notable(i)' <=> Notable(i)
  BY <1>1, <1>4 DEF Notable
<1> QED
  BY <1>3, <1>5

\* What is handled stays handled.
LEMMA DoneStays ==
  ASSUME TypesInv, TypesInv', Grows, kind' = kind, log' = log, NEW n, Done(n)
  PROVE  DoneNext(n)
<1>0. Len(log) \in Nat
  BY WatchNats DEF TypesInv
<1> SUFFICES ASSUME NEW i \in 1..Len(log'), i <= n, Notable(i)' PROVE Accounted(i)'
  BY DEF DoneNext
<1>1. i \in 1..Len(log) /\ Len(log) <= Len(log') /\ \A j \in 1..Len(log) : log'[j] = log[j]
  BY <1>0
<1>2. Notable(i) /\ (Accounted(i) => Accounted(i)')
  BY <1>1, SettledStays
<1> QED
  BY <1>1, <1>2 DEF Done

\* What is handled up to n is handled up to anything before n.
LEMMA DoneMonotone ==
  ASSUME Len(log) \in Nat, NEW n \in Int, NEW m \in Int, m <= n, Done(n)
  PROVE  Done(m)
BY DEF Done

\* A step that only adds to what is settled and leaves the place alone.
LEMMA PlaceKeeps ==
  ASSUME TypesInv, TypesInv', HandledInv, Grows, UNCHANGED <<kind, opt, log, oldest>>
  PROVE  GoneExcused' /\ (opt.follow => \A n : Done(n) => DoneNext(n))
BY DoneStays DEF HandledInv, GoneExcused, Grows

\* Nothing is behind the position at first.
LEMMA InitHandled == Init => HandledInv
BY DEF Init, HandledInv, GoneExcused, StateDone, LoopDone, EntryDone, ListDone, Quiet, AtEntry, Listing

\* Steps that move pc only.
LEMMA MoveHandled ==
  ASSUME TypesInv, TypesInv', HandledInv,
         check_loop \/ poll_journal \/ abrt_journal_watch_notify_strings \/ settle \/ exit \/ kill \/ pause
  PROVE  HandledInv'
<1>0. /\ UNCHANGED <<kind, opt, log, oldest, pos, state, stopped, base, found>>
      /\ UNCHANGED <<reports, examined, excused, skipped>>
  BY DEF check_loop, poll_journal, abrt_journal_watch_notify_strings, settle, exit, kill, pause,
         journal, flags, work, ghosts
<1>1. Grows /\ GoneExcused' /\ (opt.follow => \A n : Done(n) => DoneNext(n))
  BY <1>0, GhostsGrow, PlaceKeeps
<1> SUFFICES ASSUME opt.follow PROVE (StateDone /\ LoopDone /\ EntryDone /\ ListDone)'
  BY <1>0, <1>1 DEF HandledInv
<1>2. StateDone /\ LoopDone /\ EntryDone /\ ListDone /\ \A n : Done(n) => DoneNext(n)
  BY <1>1 DEF HandledInv
<1>3. \A n : Done(n)' <=> DoneNext(n)
  BY DEF Done, DoneNext
<1>4. StateDone'
  BY <1>0, <1>2, <1>3 DEF StateDone
<1>5. CASE check_loop \/ poll_journal
  <2>1. pc' \in {"check", "next", "leave"} /\ (pc' = "next" => ~stopped) /\ pc \in {"check", "wait"}
    BY <1>5 DEF check_loop, poll_journal
  <2>2. LoopDone'
    BY <1>0, <1>2, <1>3, <2>1 DEF LoopDone, Quiet
  <2> QED
    BY <1>4, <2>1, <2>2 DEF EntryDone, ListDone, AtEntry, Listing
<1>6. CASE abrt_journal_watch_notify_strings
  <2>1. /\ pc = "callback" /\ pc' \in {"crash", "settle", "check"}
        /\ pc' = "check" => kind # "core" /\ ~Suspicious(log[pos.n])
    BY <1>6 DEF abrt_journal_watch_notify_strings
  <2>2. Done(pos.n - 1) /\ DoneNext(pos.n - 1)
    BY <1>2, <2>1 DEF EntryDone, AtEntry
  <2>3. EntryDone'
    BY <1>0, <1>3, <2>2 DEF EntryDone
  <2>4. ASSUME pc' = "check" PROVE LoopDone'
    <3>1. pos.n \in 1..Len(log) /\ Len(log) \in Nat /\ kind \in {"oops", "xorg"} /\ log \in Seq(LinesOf[kind])
      BY <2>1, <2>4, WatchNats DEF TypesInv, WatchTypes, PcInv, PlaceTypes, JournalTypes, AtEntry, Kinds
    <3>2. log[pos.n] \in KernelLines \cup XorgLines
      BY <3>1 DEF LinesOf
    <3>3. ~Notable(pos.n)
      BY <2>1, <2>4, <3>2, LinesAssumption DEF Notable
    <3>4. Done(pos.n)
      <4> SUFFICES ASSUME NEW i \in 1..Len(log), i <= pos.n, Notable(i) PROVE Accounted(i)
        BY DEF Done
      <4>1. i # pos.n
        BY <3>3
      <4>2. i <= pos.n - 1
        BY <3>1, <4>1
      <4> QED
        BY <2>2, <4>2 DEF Done
    <3>5. DoneNext(pos.n)
      BY <1>2, <3>4
    <3> QED
      BY <1>0, <1>3, <2>2, <3>5 DEF LoopDone
  <2>5. LoopDone'
    BY <2>1, <2>4 DEF LoopDone, Quiet
  <2> QED
    BY <1>4, <2>1, <2>3, <2>5 DEF ListDone, Listing
<1>7. CASE settle
  <2>1. pc = "settle" /\ pc' = "collect"
    BY <1>7 DEF settle
  <2>2. EntryDone'
    BY <1>0, <1>2, <1>3, <2>1 DEF EntryDone, AtEntry
  <2> QED
    BY <1>4, <2>1, <2>2 DEF LoopDone, ListDone, Quiet, Listing
<1>8. CASE exit \/ kill
  BY <1>4, <1>8 DEF exit, kill, LoopDone, EntryDone, ListDone, Quiet, AtEntry, Listing
<1>9. CASE pause
  <2>1. pc \in Listing /\ pc' \in Listing /\ pc' \notin Quiet /\ pc' \notin AtEntry
    BY <1>9 DEF pause, Listing, Quiet, AtEntry
  <2>2. ListDone'
    <3> SUFFICES ASSUME NEW i \in 1..Len(log'), i <= pos'.n, Notable(i)' PROVE (Accounted(i) \/ Listed(i))'
      BY DEF ListDone
    <3>1. i \in 1..Len(log) /\ i <= pos.n /\ Len(log) <= Len(log') /\ \A j \in 1..Len(log) : log'[j] = log[j]
      BY <1>0, WatchNats DEF TypesInv
    <3>2. Notable(i) /\ (Accounted(i) => Accounted(i)')
      BY <1>0, <1>1, <3>1, SettledStays
    <3>3. Listed(i)' <=> Listed(i)
      BY <1>0 DEF Listed
    <3> QED
      BY <1>2, <2>1, <3>1, <3>2, <3>3 DEF ListDone
  <2> QED
    BY <1>4, <2>1, <2>2 DEF LoopDone, EntryDone
<1> QED
  BY <1>5, <1>6, <1>7, <1>8, <1>9

\* The place that main() finds has nothing unhandled behind it but what it passes over.
LEMMA StartHandled ==
  ASSUME TypesInv, TypesInv', HandledInv, start_watch \/ start_once
  PROVE  HandledInv'
<1>0. /\ UNCHANGED <<kind, opt, log, oldest, state>> /\ UNCHANGED <<reports, examined, excused>>
      /\ skipped \subseteq skipped'
  BY DEF start_watch, start_once, journal
<1>1. Grows
  BY <1>0 DEF TypesInv, WatchTypes, PlaceTypes, Grows
<1>2. GoneExcused' /\ (opt.follow => \A n : Done(n) => DoneNext(n))
  BY <1>0, <1>1, PlaceKeeps
<1> SUFFICES ASSUME opt.follow PROVE (StateDone /\ LoopDone /\ EntryDone /\ ListDone)'
  BY <1>0, <1>2 DEF HandledInv
<1>3. StateDone /\ (\A n : Done(n) => DoneNext(n)) /\ \A n : Done(n)' <=> DoneNext(n)
  BY <1>2 DEF HandledInv, Done, DoneNext
<1>4. StateDone'
  BY <1>0, <1>3 DEF StateDone
<1>5. /\ start_watch /\ pos' = Place /\ pc' = "check"
      /\ skipped' = skipped \cup {i \in oldest..Len(log) : /\ ~Place.sought /\ i <= Place.n
                                                           /\ state # 0 /\ ~opt.tail => i > state}
  BY DEF start_watch, start_once, start
<1> SUFFICES LoopDone'
  BY <1>4, <1>5 DEF EntryDone, ListDone, AtEntry, Listing
<1>6. /\ Len(log) \in Nat /\ oldest \in Nat \ {0} /\ state \in Nat /\ opt.tail \in BOOLEAN
      /\ Place \in Places /\ Place.n \in Nat /\ Restored \in Places
  BY WatchNats, PlaceIs DEF TypesInv, Places
\* an entry that is gone or passed over
<1>7. ASSUME NEW i \in 1..Len(log), ~Place.sought, i <= Place.n, state # 0 /\ ~opt.tail => i > state
      PROVE  Accounted(i)'
  <2>1. CASE i < oldest
    <3>1. i \in 1..(oldest - 1)
      BY <1>6, <2>1
    <3> QED
      BY <1>0, <3>1 DEF HandledInv, GoneExcused, Accounted
  <2>2. CASE i >= oldest
    <3>1. i \in oldest..Len(log)
      BY <1>6, <2>2
    <3> QED
      BY <1>5, <1>7, <3>1 DEF Accounted
  <2> QED
    BY <1>6, <2>1, <2>2
<1>8. ASSUME Place.sought, state # 0, Place = Sought(state) PROVE LoopDone'
  <2>1. Place.n = state
    BY <1>8 DEF Sought
  <2>2. DoneNext(state - 1)
    BY <1>3, <1>8 DEF StateDone
  <2> QED
    BY <1>3, <1>5, <1>8, <2>1, <2>2 DEF LoopDone
<1>9. ASSUME Place = Sought(1) PROVE LoopDone'
  <2>1. Place.n - 1 = 0 /\ Place.sought
    BY <1>9 DEF Sought
  <2>2. DoneNext(0)
    BY <1>0, <1>6 DEF DoneNext
  <2> QED
    BY <1>3, <1>5, <2>1, <2>2 DEF LoopDone
<1>10. ASSUME ~Place.sought, opt.tail \/ state = 0 PROVE LoopDone'
  <2>1. \A i \in 1..Len(log) : i <= Place.n => Accounted(i)'
    BY <1>7, <1>10
  <2>2. DoneNext(Place.n)
    BY <1>0, <2>1 DEF DoneNext
  <2>3. DoneNext(Place.n - 1)
    BY <1>0, <1>6, <2>1 DEF DoneNext
  <2> QED
    BY <1>3, <1>5, <2>2, <2>3 DEF LoopDone
<1>11. CASE kind # "core"
  <2>1. CASE state # 0
    BY <1>8, <1>11, <2>1, PlaceIs DEF TypesInv, Sought
  <2>2. CASE state = 0 /\ opt.tail
    <3>1. Place = At(Len(log)) /\ ~Place.sought
      BY <1>11, <2>2, PlaceIs DEF TypesInv, At
    <3> QED
      BY <1>10, <2>2, <3>1
  <2>3. CASE state = 0 /\ ~opt.tail
    BY <1>9, <1>11, <2>3, PlaceIs DEF TypesInv
  <2> QED
    BY <1>6, <2>1, <2>2, <2>3
<1>12. CASE kind = "core"
  <2>1. CASE opt.tail
    <3>1. Place = At(Len(log)) /\ ~Place.sought
      BY <1>12, <2>1, PlaceIs DEF TypesInv, At
    <3> QED
      BY <1>10, <2>1, <3>1
  <2>2. CASE ~opt.tail /\ state = 0
    <3>1. Place = abrt_journal_next(Sought(1))
      BY <1>12, <2>2, PlaceIs DEF TypesInv, Restored
    <3>2. Sought(1) \in Places
      BY <1>6 DEF Sought, Places
    <3>3. ~Place.sought \/ Place = Sought(1)
      BY <1>6, <3>1, <3>2, NextIs
    <3> QED
      BY <1>9, <1>10, <2>2, <3>3
  <2>3. CASE ~opt.tail /\ state # 0
    <3>1. Place = abrt_journal_next(Sought(state))
      BY <1>12, <2>3, PlaceIs DEF TypesInv, Restored
    <3>2. Sought(state) \in Places /\ Sought(state).sought
      BY <1>6 DEF Sought, Places
    <3>3. ~Place.sought \/ Place = Sought(state)
      BY <1>6, <3>1, <3>2, NextIs
    <3>4. CASE Place = Sought(state)
      BY <1>8, <2>3, <3>2, <3>4
    <3>5. CASE ~Place.sought
      <4>1. DoneNext(state)
        BY <1>3, <1>12, <2>3 DEF StateDone
      <4>2. ASSUME NEW i \in 1..Len(log'), Notable(i)', i <= Place.n PROVE Accounted(i)'
        <5>1. CASE i <= state
          BY <4>1, <4>2, <5>1 DEF DoneNext
        <5>2. CASE i > state
          BY <1>0, <1>7, <3>5, <4>2, <5>2
        <5> QED
          BY <1>0, <1>6, <5>1, <5>2
      <4>3. DoneNext(Place.n)
        BY <4>2 DEF DoneNext
      <4>4. \A i \in 1..Len(log') : i <= Place.n - 1 => i <= Place.n
        BY <1>0, <1>6
      <4>5. DoneNext(Place.n - 1)
        BY <4>2, <4>4 DEF DoneNext
      <4> QED
        BY <1>3, <1>5, <4>3, <4>5 DEF LoopDone
    <3> QED
      BY <3>3, <3>4, <3>5
  <2> QED
    BY <1>6, <2>1, <2>2, <2>3
<1> QED
  BY <1>11, <1>12

\* The position moves on from an entry that was handled.
LEMMA IterateHandled ==
  ASSUME TypesInv, TypesInv', HandledInv, iterate
  PROVE  HandledInv'
<1>0. /\ UNCHANGED <<kind, opt, log, oldest, state>> /\ UNCHANGED <<reports, examined, excused, skipped>>
      /\ pc = "next" /\ pos' = abrt_journal_next(pos) /\ pc' = IF HasNext(pos) THEN "callback" ELSE "wait"
  BY DEF iterate, journal, ghosts
<1>1. Grows /\ GoneExcused' /\ (opt.follow => \A n : Done(n) => DoneNext(n))
  BY <1>0, GhostsGrow, PlaceKeeps
<1> SUFFICES ASSUME opt.follow PROVE (StateDone /\ LoopDone /\ EntryDone /\ ListDone)'
  BY <1>0, <1>1 DEF HandledInv
<1>2. StateDone /\ LoopDone /\ (\A n : Done(n) => DoneNext(n)) /\ \A n : Done(n)' <=> DoneNext(n)
  BY <1>1 DEF HandledInv, Done, DoneNext
<1>3. StateDone'
  BY <1>0, <1>2 DEF StateDone
<1>4. Done(pos.n - 1) /\ (pos.sought \/ Done(pos.n))
  BY <1>0, <1>2 DEF LoopDone, Quiet
<1>5. Len(log) \in Nat /\ oldest \in Nat \ {0} /\ pos \in Places /\ pos.n \in Nat
  BY WatchNats DEF TypesInv, WatchTypes, PlaceTypes
<1>6. CASE HasNext(pos)
  <2> DEFINE k == IF pos.sought THEN pos.n ELSE pos.n + 1
  <2>1. pos'.n = (IF oldest >= k THEN oldest ELSE k)
    BY <1>0, <1>5, <1>6, NextIs
  <2>2. Done(k - 1)
    <3>1. CASE pos.sought
      BY <1>4, <3>1
    <3>2. CASE ~pos.sought
      <4>1. k - 1 = pos.n
        BY <1>5, <3>2
      <4> QED
        BY <1>4, <3>2, <4>1
    <3> QED
      BY <3>1, <3>2
  <2>3. k \in Nat
    BY <1>5
  <2> HIDE DEF k
  <2>4. ASSUME NEW i \in 1..Len(log), i <= pos'.n - 1, Notable(i) PROVE Accounted(i)
    <3>1. i \in 1..(oldest - 1) \/ i <= k - 1
      BY <1>5, <2>1, <2>3, <2>4
    <3>2. CASE i \in 1..(oldest - 1)
      BY <3>2 DEF HandledInv, GoneExcused, Accounted
    <3>3. CASE i <= k - 1
      BY <2>2, <2>4, <3>3 DEF Done
    <3> QED
      BY <3>1, <3>2, <3>3
  <2>5. Done(pos'.n - 1)
    BY <2>4 DEF Done
  <2>6. EntryDone'
    BY <1>2, <2>5 DEF EntryDone
  <2> QED
    BY <1>0, <1>3, <1>6, <2>6 DEF LoopDone, ListDone, Quiet, Listing
<1>7. CASE ~HasNext(pos)
  <2>1. pos' = pos
    BY <1>0, <1>5, <1>7, NextIs
  <2>2. LoopDone'
    BY <1>2, <1>4, <2>1 DEF LoopDone
  <2> QED
    BY <1>0, <1>3, <1>7, <2>2 DEF EntryDone, ListDone, AtEntry, Listing
<1> QED
  BY <1>6, <1>7

\* The entry at the position is handled.
LEMMA CoresHandled ==
  ASSUME TypesInv, TypesInv', HandledInv, abrt_journal_watch_cores
  PROVE  HandledInv'
<1>0. /\ UNCHANGED <<kind, opt, log, oldest, pos, state>> /\ UNCHANGED <<examined, skipped>>
      /\ pc = "crash" /\ pc' = IF opt.follow THEN "truncate" ELSE "exit"
  BY DEF abrt_journal_watch_cores, journal, Saves
<1>1. kind = "core" /\ pos.n \in 1..Len(log) /\ Len(log) \in Nat /\ log \in Seq(Exes \cup {"ignored"})
      /\ pos.n \in 1..MaxLog /\ reports \in [1..MaxLog -> Nat]
  BY <1>0, WatchNats DEF TypesInv, WatchTypes, PcInv, PlaceTypes, JournalTypes, AtEntry, LinesOf
<1>2. \/ /\ reports' = reports /\ excused \subseteq excused'
         /\ log[pos.n] = "ignored" \/ pos.n \in excused'
      \/ reports' = [reports EXCEPT ![pos.n] = @ + 1] /\ excused' = excused
  BY DEF abrt_journal_watch_cores, ignore_crash, save_crash
<1>3. Grows
  <2>1. ASSUME NEW i \in 1..MaxLog PROVE reports'[i] >= reports[i]
    <3>1. reports[i] \in Nat /\ reports[pos.n] \in Nat
      BY <1>1
    <3>2. CASE reports' = reports
      BY <3>1, <3>2
    <3>3. CASE reports' = [reports EXCEPT ![pos.n] = @ + 1]
      <4>1. reports'[i] = IF i = pos.n THEN reports[pos.n] + 1 ELSE reports[i]
        BY <1>1, <3>3
      <4> QED
        BY <3>1, <4>1
    <3> QED
      BY <1>2, <3>2, <3>3
  <2> QED
    BY <1>0, <1>2, <2>1 DEF Grows
<1>4. GoneExcused' /\ (opt.follow => \A n : Done(n) => DoneNext(n))
  BY <1>0, <1>3, PlaceKeeps
<1> SUFFICES ASSUME opt.follow PROVE (StateDone /\ LoopDone /\ EntryDone /\ ListDone)'
  BY <1>0, <1>4 DEF HandledInv
<1>5. StateDone /\ EntryDone /\ (\A n : Done(n) => DoneNext(n)) /\ \A n : Done(n)' <=> DoneNext(n)
  BY <1>4 DEF HandledInv, Done, DoneNext
<1>6. StateDone'
  BY <1>0, <1>5 DEF StateDone
<1>7. DoneNext(pos.n - 1)
  BY <1>0, <1>5 DEF EntryDone, AtEntry
<1>8. Notable(pos.n)' => Accounted(pos.n)'
  <2>1. CASE log[pos.n] = "ignored"
    BY <1>0, <1>1, <2>1, WatchAssumption DEF Notable, Suspicious
  <2>2. CASE pos.n \in excused'
    BY <1>0, <2>2 DEF Accounted
  <2>3. CASE reports' = [reports EXCEPT ![pos.n] = @ + 1]
    <3>1. reports'[pos.n] > 0
      BY <1>1, <2>3
    <3> QED
      BY <1>0, <3>1 DEF Accounted
  <2> QED
    BY <1>2, <2>1, <2>2, <2>3
<1>9. DoneNext(pos.n)
  <2> SUFFICES ASSUME NEW i \in 1..Len(log'), i <= pos.n, Notable(i)' PROVE Accounted(i)'
    BY DEF DoneNext
  <2>1. CASE i = pos.n
    BY <1>0, <1>8, <2>1
  <2>2. CASE i # pos.n
    <3>1. i <= pos.n - 1
      BY <1>0, <1>1, <2>2
    <3> QED
      BY <1>7, <3>1 DEF DoneNext
  <2> QED
    BY <2>1, <2>2
<1>10. LoopDone'
  BY <1>0, <1>5, <1>7, <1>9 DEF LoopDone
<1> QED
  BY <1>0, <1>6, <1>10 DEF EntryDone, ListDone, AtEntry, Listing

\* The lines that were collected are on the list or handled.
LEMMA CollectHandled ==
  ASSUME TypesInv, TypesInv', HandledInv, collect
  PROVE  HandledInv'
<1>0. /\ UNCHANGED <<kind, opt, log, oldest, state>> /\ UNCHANGED <<reports, excused, skipped>>
      /\ pc = "collect" /\ pc' = "process" /\ pos' = At(LastRead)
      /\ examined' = examined \cup {i \in pos.n..LastRead :
                                      \A k \in 1..Len(found') : i # base' + found'[k][1]}
  BY DEF collect, journal
<1>1. Grows
  BY <1>0 DEF TypesInv, WatchTypes, PlaceTypes, Grows
<1>2. GoneExcused' /\ (opt.follow => \A n : Done(n) => DoneNext(n))
  BY <1>0, <1>1, PlaceKeeps
<1> SUFFICES ASSUME opt.follow PROVE (StateDone /\ LoopDone /\ EntryDone /\ ListDone)'
  BY <1>0, <1>2 DEF HandledInv
<1>3. StateDone /\ EntryDone /\ (\A n : Done(n) => DoneNext(n)) /\ \A n : Done(n)' <=> DoneNext(n)
  BY <1>2 DEF HandledInv, Done, DoneNext
<1>4. StateDone'
  BY <1>0, <1>3 DEF StateDone
<1>5. DoneNext(pos.n - 1) /\ pos'.n = LastRead /\ pos.n \in Nat /\ LastRead \in Nat
  BY <1>0, <1>3, LastReadIs DEF EntryDone, AtEntry, At, TypesInv
<1>6. ListDone'
  <2> SUFFICES ASSUME NEW i \in 1..Len(log'), i <= pos'.n, Notable(i)' PROVE (Accounted(i) \/ Listed(i))'
    BY DEF ListDone
  <2>1. CASE i <= pos.n - 1
    BY <1>5, <2>1 DEF DoneNext
  <2>2. CASE i > pos.n - 1
    <3>1. i \in pos.n..LastRead
      BY <1>5, <2>2
    <3> QED
      BY <1>0, <3>1 DEF Accounted, Listed
  <2> QED
    BY <1>5, <2>1, <2>2
<1> QED
  BY <1>0, <1>4, <1>6 DEF LoopDone, EntryDone, AtEntry, Quiet

\* One problem is made of the first of the list, or given up.
LEMMA CreateHandled ==
  ASSUME TypesInv, TypesInv', HandledInv, create_dump_dir
  PROVE  HandledInv'
<1>0. /\ UNCHANGED <<kind, opt, log, oldest, state, pos, base>> /\ UNCHANGED <<examined, skipped>>
      /\ pc = "process" /\ found # <<>> /\ pc' \in {"pause", "process"}
  BY DEF create_dump_dir, journal
<1>1. PICK saved \in BOOLEAN :
       /\ reports' = [reports EXCEPT ![base + Head(found)[1]] = @ + (IF saved THEN 1 ELSE 0)]
       /\ found' = IF saved \/ kind = "xorg" THEN Tail(found) ELSE found
       /\ excused' = excused \cup (IF saved \/ kind = "oops" THEN {} ELSE Entries(Head(found)))
  BY DEF create_dump_dir
<1>2. /\ base \in Nat /\ base + Len(lines) = pos.n /\ Len(lines) \in Nat /\ InOrder(found, Len(lines))
      /\ pos.n <= MaxLog /\ reports \in [1..MaxLog -> Nat] /\ MaxLog \in Nat /\ kind \in {"oops", "xorg"}
      /\ pos.n \in Nat /\ Len(log) \in Nat /\ Len(log) <= MaxLog
  <2>1. base \in Nat /\ base + Len(lines) = pos.n /\ Len(lines) \in Nat /\ InOrder(found, Len(lines))
    BY <1>0 DEF TypesInv, ListInv, Listing
  <2>2. kind \in {"oops", "xorg"} /\ ~pos.sought
    BY <1>0 DEF TypesInv, WatchTypes, JournalTypes, PcInv, Listing, Extraction, Kinds
  <2>3. pos.n <= Len(log) /\ Len(log) <= MaxLog /\ reports \in [1..MaxLog -> Nat]
    BY <2>2 DEF TypesInv, WatchTypes, JournalTypes, PlaceTypes
  <2>4. MaxLog \in Nat /\ pos.n \in Nat /\ Len(log) \in Nat
    BY WatchNats DEF TypesInv
  <2> QED
    BY <2>1, <2>2, <2>3, <2>4
<1>3. /\ Head(found) = found[1] /\ found[1][1] \in 1..Len(lines) /\ found[1][1] <= found[1][2]
      /\ found[1][1] \in Nat /\ found[1][2] \in Nat
      /\ Len(found) \in Nat /\ Len(Tail(found)) = Len(found) - 1
      /\ \A k \in 1..Len(Tail(found)) : Tail(found)[k] = found[k + 1] /\ k + 1 \in 1..Len(found)
  BY <1>0, <1>2, TailInOrder
<1>4. PICK e \in 1..MaxLog : e = base + found[1][1]
  BY <1>2, <1>3
<1>5. \A i \in 1..MaxLog : reports[i] \in Nat /\ reports'[i] = IF i = e /\ saved THEN reports[i] + 1 ELSE reports[i]
  <2>1. reports' = [reports EXCEPT ![e] = @ + (IF saved THEN 1 ELSE 0)] /\ reports \in [1..MaxLog -> Nat]
    BY <1>1, <1>2, <1>3, <1>4
  <2>2. \A i \in 1..MaxLog : reports[i] \in Nat /\ reports'[i] = IF i = e THEN reports[i] + (IF saved THEN 1 ELSE 0) ELSE reports[i]
    BY <2>1
  <2> QED
    BY <2>2
<1>6. Grows
  <2>1. \A i \in 1..MaxLog : reports'[i] >= reports[i]
    BY <1>5
  <2> QED
    BY <1>0, <1>1, <2>1 DEF Grows
<1>7. GoneExcused' /\ (opt.follow => \A n : Done(n) => DoneNext(n))
  BY <1>0, <1>6, PlaceKeeps
<1> SUFFICES ASSUME opt.follow PROVE (StateDone /\ LoopDone /\ EntryDone /\ ListDone)'
  BY <1>0, <1>7 DEF HandledInv
<1>8. StateDone /\ ListDone /\ (\A n : Done(n) => DoneNext(n)) /\ \A n : Done(n)' <=> DoneNext(n)
  BY <1>7 DEF HandledInv, Done, DoneNext
<1>9. StateDone'
  BY <1>0, <1>8 DEF StateDone
<1>10. found' # found => Accounted(e)'
  <2>1. CASE saved
    <3>1. reports'[e] > 0
      BY <1>4, <1>5, <2>1
    <3> QED
      BY <3>1 DEF Accounted
  <2>2. CASE ~saved /\ kind = "xorg"
    <3>1. e \in Entries(Head(found))
      <4>1. found[1][1] \in found[1][1]..found[1][2]
        BY <1>3
      <4> QED
        BY <1>3, <1>4, <4>1 DEF Entries
    <3>2. e \in excused'
      BY <1>1, <2>2, <3>1
    <3> QED
      BY <3>2 DEF Accounted
  <2> QED
    BY <1>1, <2>1, <2>2
<1>11. ListDone'
  <2> SUFFICES ASSUME NEW i \in 1..Len(log'), i <= pos'.n, Notable(i)' PROVE (Accounted(i) \/ Listed(i))'
    BY DEF ListDone
  <2>1. i \in 1..Len(log) /\ i <= pos.n /\ Len(log) <= Len(log') /\ \A j \in 1..Len(log) : log'[j] = log[j]
    BY <1>0, <1>2
  <2>2. Notable(i) /\ (Accounted(i) => Accounted(i)')
    BY <1>0, <1>6, <2>1, SettledStays
  <2>3. CASE Accounted(i)
    BY <2>2, <2>3
  <2>4. CASE Listed(i)
    <3>1. PICK k \in 1..Len(found) : i = base + found[k][1]
      BY <2>4 DEF Listed
    <3>2. CASE found' = found
      BY <1>0, <3>1, <3>2 DEF Listed
    <3>3. CASE found' # found /\ k = 1
      BY <1>4, <1>10, <3>1, <3>3
    <3>4. CASE found' # found /\ k # 1
      <4>1. found' = Tail(found)
        BY <1>1, <3>4
      <4>2. k - 1 \in 1..Len(Tail(found)) /\ (k - 1) + 1 = k
        BY <1>3, <3>4
      <4>3. Tail(found)[k - 1] = found[k]
        BY <1>3, <4>2
      <4> QED
        BY <1>0, <3>1, <4>1, <4>2, <4>3 DEF Listed
    <3> QED
      BY <3>2, <3>3, <3>4
  <2> QED
    BY <1>0, <1>8, <2>1, <2>2, <2>3, <2>4 DEF ListDone, Listing
<1> QED
  BY <1>0, <1>9, <1>11 DEF LoopDone, EntryDone, AtEntry, Quiet

\* The rest of a list is given up.
LEMMA EndHandled ==
  ASSUME TypesInv, TypesInv', HandledInv, end_of_list
  PROVE  HandledInv'
<1>0. /\ UNCHANGED <<kind, opt, log, oldest, state, pos, base>> /\ UNCHANGED <<reports, examined, skipped>>
      /\ pc = "process" /\ pc' \in {"delay", "finish"} /\ excused' = excused \cup Given(found)
  BY DEF end_of_list, journal
<1>1. Grows
  BY <1>0 DEF TypesInv, WatchTypes, PlaceTypes, Grows
<1>2. GoneExcused' /\ (opt.follow => \A n : Done(n) => DoneNext(n))
  BY <1>0, <1>1, PlaceKeeps
<1> SUFFICES ASSUME opt.follow PROVE (StateDone /\ LoopDone /\ EntryDone /\ ListDone)'
  BY <1>0, <1>2 DEF HandledInv
<1>3. StateDone /\ ListDone /\ (\A n : Done(n) => DoneNext(n)) /\ \A n : Done(n)' <=> DoneNext(n)
  BY <1>2 DEF HandledInv, Done, DoneNext
<1>4. StateDone'
  BY <1>0, <1>3 DEF StateDone
<1>5. InOrder(found, Len(lines)) /\ Len(lines) \in Nat /\ Len(log) \in Nat
  BY <1>0, WatchNats DEF TypesInv, ListInv, Listing
<1>6. ListDone'
  <2> SUFFICES ASSUME NEW i \in 1..Len(log'), i <= pos'.n, Notable(i)' PROVE Accounted(i)'
    BY DEF ListDone
  <2>1. i \in 1..Len(log) /\ i <= pos.n /\ Len(log) <= Len(log') /\ \A j \in 1..Len(log) : log'[j] = log[j]
    BY <1>0, <1>5
  <2>2. Notable(i) /\ (Accounted(i) => Accounted(i)')
    BY <1>0, <1>1, <2>1, SettledStays
  <2>3. CASE Listed(i)
    <3>1. PICK k \in 1..Len(found) : i = base + found[k][1]
      BY <2>3 DEF Listed
    <3>2. found[k][1] \in 1..Len(lines) /\ found[k][1] <= found[k][2] /\ found[k] \in Nat \X Nat
      BY <1>5, <3>1 DEF InOrder, Ranges
    <3>3. found[k][1] \in found[k][1]..found[k][2]
      BY <1>5, <3>2
    <3>4. i \in Entries(found[k])
      BY <3>1, <3>3 DEF Entries
    <3>5. i \in Given(found)
      BY <3>4 DEF Given
    <3> QED
      BY <1>0, <3>5 DEF Accounted
  <2> QED
    BY <1>0, <1>3, <2>1, <2>2, <2>3 DEF ListDone, Listing
<1> QED
  BY <1>0, <1>4, <1>6 DEF LoopDone, EntryDone, AtEntry, Quiet

\* The oops watch goes to the end of the journal.
LEMMA FinishHandled ==
  ASSUME TypesInv, TypesInv', HandledInv, finish_extraction
  PROVE  HandledInv'
<1>0. /\ UNCHANGED <<kind, opt, log, oldest, state>> /\ UNCHANGED <<reports, examined, skipped>>
      /\ pc = "finish" /\ pc' = (IF opt.follow THEN "truncate" ELSE "exit")
      /\ excused' = excused \cup ((pos.n + 1)..pos'.n)
  BY DEF finish_extraction, journal, Saves
<1>1. Grows
  BY <1>0 DEF TypesInv, WatchTypes, PlaceTypes, Grows
<1>2. GoneExcused' /\ (opt.follow => \A n : Done(n) => DoneNext(n))
  BY <1>0, <1>1, PlaceKeeps
<1> SUFFICES ASSUME opt.follow PROVE (StateDone /\ LoopDone /\ EntryDone /\ ListDone)'
  BY <1>0, <1>2 DEF HandledInv
<1>3. StateDone /\ ListDone /\ (\A n : Done(n) => DoneNext(n)) /\ \A n : Done(n)' <=> DoneNext(n)
  BY <1>2 DEF HandledInv, Done, DoneNext
<1>4. StateDone'
  BY <1>0, <1>3 DEF StateDone
<1>5. found = <<>> /\ Len(log) \in Nat /\ pos.n \in Nat /\ pos'.n \in Nat
  BY <1>0, WatchNats DEF TypesInv, ListInv, Listing, WatchTypes, PlaceTypes, Places
<1>6. Done(pos.n)
  <2>1. \A i : ~Listed(i)
    BY <1>5 DEF Listed
  <2> QED
    BY <1>0, <1>3, <2>1 DEF ListDone, Listing, Done
<1>7. ASSUME NEW i \in 1..Len(log'), i <= pos'.n, Notable(i)' PROVE Accounted(i)'
  <2>1. CASE i <= pos.n
    BY <1>3, <1>6, <1>7, <2>1 DEF DoneNext
  <2>2. CASE i > pos.n
    <3>1. i \in (pos.n + 1)..pos'.n
      BY <1>5, <1>7, <2>2
    <3> QED
      BY <1>0, <3>1 DEF Accounted
  <2> QED
    BY <1>5, <2>1, <2>2
<1>8. \A i \in 1..Len(log') : i <= pos'.n - 1 => i <= pos'.n
  BY <1>0, <1>5
<1>9. DoneNext(pos'.n) /\ DoneNext(pos'.n - 1)
  BY <1>7, <1>8 DEF DoneNext
<1>10. LoopDone'
  BY <1>3, <1>9 DEF LoopDone
<1> QED
  BY <1>0, <1>4, <1>10 DEF EntryDone, ListDone, AtEntry, Listing

\* The position that is saved is behind what was handled.
LEMMA StateHandled ==
  ASSUME TypesInv, TypesInv', HandledInv, truncate_state \/ write_state
  PROVE  HandledInv'
<1>0. /\ UNCHANGED <<kind, opt, log, oldest, pos, stopped>> /\ UNCHANGED <<reports, examined, excused, skipped>>
  BY DEF truncate_state, write_state, journal, flags, ghosts
<1>1. Grows /\ GoneExcused' /\ (opt.follow => \A n : Done(n) => DoneNext(n))
  BY <1>0, GhostsGrow, PlaceKeeps
<1> SUFFICES ASSUME opt.follow PROVE (StateDone /\ LoopDone /\ EntryDone /\ ListDone)'
  BY <1>0, <1>1 DEF HandledInv
<1>2. StateDone /\ LoopDone /\ (\A n : Done(n) => DoneNext(n)) /\ \A n : Done(n)' <=> DoneNext(n)
  BY <1>1 DEF HandledInv, Done, DoneNext
<1>3. pc \in Quiet
  BY DEF truncate_state, write_state, Quiet
<1>4. DoneNext(pos.n - 1)
  BY <1>2, <1>3 DEF LoopDone
<1>5. CASE truncate_state
  <2>1. state' = 0 \/ state' = state
    BY <1>5 DEF truncate_state
  <2>2. StateDone'
    BY <1>0, <1>2, <2>1 DEF StateDone
  <2>3. pc' \in {"last_write", "write", "exit", "check"} /\ (pc' \in {"write", "check"} => pc = "truncate")
    BY <1>5 DEF truncate_state
  <2>4. LoopDone'
    <3>1. pc' \in {"write", "check"} => pos.sought \/ DoneNext(pos.n)
      BY <1>2, <1>3, <2>3 DEF LoopDone
    <3>2. pc' = "last_write" => pos.sought \/ DoneNext(pos.n) \/ (kind # "core" /\ stopped)
      BY <1>2, <1>3 DEF LoopDone
    <3> QED
      BY <1>0, <1>2, <1>4, <2>3, <3>1, <3>2 DEF LoopDone, Quiet
  <2> QED
    BY <2>2, <2>3, <2>4 DEF EntryDone, ListDone, AtEntry, Listing
<1>6. CASE write_state
  <2>1. state' = pos.n /\ pc \in {"write", "last_write"} /\ pc' = (IF pc = "write" THEN "check" ELSE "exit")
    BY <1>6 DEF write_state
  <2>2. ~pos.sought
    BY <2>1 DEF TypesInv, WatchTypes, PcInv
  <2>3. kind = "core" \/ pc = "write" => DoneNext(pos.n)
    BY <1>2, <1>3, <2>1, <2>2 DEF LoopDone
  <2>4. StateDone'
    BY <1>0, <1>2, <1>4, <2>1, <2>3 DEF StateDone
  <2>5. LoopDone'
    BY <1>0, <1>2, <1>4, <2>1, <2>3 DEF LoopDone, Quiet
  <2> QED
    BY <2>1, <2>4, <2>5 DEF EntryDone, ListDone, AtEntry, Listing
<1> QED
  BY <1>5, <1>6

\* SIGTERM in the second before an extraction leaves the entry to the next start.
LEMMA TermHandled ==
  ASSUME TypesInv, TypesInv', HandledInv, term
  PROVE  HandledInv'
<1>0. /\ UNCHANGED <<kind, opt, log, oldest, pos, state, base, found>>
      /\ UNCHANGED <<reports, examined, excused, skipped>> /\ opt.follow
  BY DEF term, journal, work, ghosts
<1>1. Grows /\ GoneExcused' /\ (opt.follow => \A n : Done(n) => DoneNext(n))
  BY <1>0, GhostsGrow, PlaceKeeps
<1> SUFFICES (StateDone /\ LoopDone /\ EntryDone /\ ListDone)'
  BY <1>0, <1>1 DEF HandledInv
<1>2. StateDone /\ LoopDone /\ EntryDone /\ ListDone /\ (\A n : Done(n) => DoneNext(n)) /\ \A n : Done(n)' <=> DoneNext(n)
  BY <1>0, <1>1 DEF HandledInv, Done, DoneNext
<1>3. StateDone'
  BY <1>0, <1>2 DEF StateDone
<1>4.    \/ pc = "settle" /\ pc' = "check" /\ stopped'
         \/ pc = "pause" /\ pc' = "process"
         \/ pc = "delay" /\ pc' = "finish"
         \/ pc = "wait" /\ pc' = "check" /\ stopped' = stopped
         \/ pc' = pc /\ stopped' = stopped
  BY DEF term
<1>5. pc' \in Listing => pc \in Listing
  BY <1>4 DEF Listing
<1>6. ListDone'
  <2> SUFFICES ASSUME pc' \in Listing, NEW i \in 1..Len(log'), i <= pos'.n, Notable(i)' PROVE (Accounted(i) \/ Listed(i))'
    BY DEF ListDone
  <2>1. i \in 1..Len(log) /\ i <= pos.n /\ Len(log) <= Len(log') /\ \A j \in 1..Len(log) : log'[j] = log[j]
    BY <1>0, WatchNats DEF TypesInv
  <2>2. Notable(i) /\ (Accounted(i) => Accounted(i)')
    BY <1>0, <1>1, <2>1, SettledStays
  <2>3. Listed(i)' <=> Listed(i)
    BY <1>0 DEF Listed
  <2> QED
    BY <1>2, <1>5, <2>1, <2>2, <2>3 DEF ListDone
<1>7. EntryDone'
  BY <1>0, <1>2, <1>4 DEF EntryDone, AtEntry
<1>8. LoopDone'
  <2>1. CASE pc = "settle" /\ pc' = "check" /\ stopped'
    <3>1. kind # "core"
      BY <2>1 DEF TypesInv, WatchTypes, PcInv, Extraction
    <3>2. DoneNext(pos.n - 1)
      BY <1>2, <2>1 DEF EntryDone, AtEntry
    <3> QED
      BY <1>0, <1>2, <2>1, <3>1, <3>2 DEF LoopDone
  <2>2. CASE pc = "wait" /\ pc' = "check" /\ stopped' = stopped
    BY <1>0, <1>2, <2>2 DEF LoopDone, Quiet
  <2>3. CASE pc' = pc /\ stopped' = stopped
    BY <1>0, <1>2, <2>3 DEF LoopDone
  <2>4. CASE pc' \in Listing
    BY <2>4 DEF LoopDone, Quiet, Listing
  <2> QED
    BY <1>4, <2>1, <2>2, <2>3, <2>4 DEF Listing
<1> QED
  BY <1>3, <1>6, <1>7, <1>8

\* The journal grows at its end and is cut at its beginning.
LEMMA GrowHandled ==
  ASSUME TypesInv, TypesInv', HandledInv, vacuum \/ \E l \in NewLines[kind] : append(l)
  PROVE  HandledInv'
<1>0. /\ UNCHANGED <<kind, opt, pc, pos, state, stopped, base, found>> /\ UNCHANGED <<reports, examined, skipped>>
      /\ excused \subseteq excused'
  BY DEF vacuum, append, flags, work, ghosts
<1>1. Grows
  BY <1>0 DEF TypesInv, WatchTypes, PlaceTypes, Grows
<1>2. /\ oldest \in Nat \ {0} /\ Len(log) \in Nat /\ Len(log') \in Nat /\ log \in Seq(LinesOf[kind])
      /\ pos.n \in Nat /\ state \in Nat
      /\ state <= Len(log) /\ (~pos.sought => pos.n <= Len(log))
  BY WatchNats DEF TypesInv, WatchTypes, PlaceTypes, JournalTypes
<1>3. Len(log) <= Len(log') /\ \A j \in 1..Len(log) : log'[j] = log[j]
  <2>1. CASE vacuum
    BY <1>2, <2>1 DEF vacuum
  <2>2. ASSUME NEW l \in NewLines[kind], append(l) PROVE Len(log) <= Len(log') /\ \A j \in 1..Len(log) : log'[j] = log[j]
    <3>1. log' = Append(log, l) /\ l \in LinesOf[kind]
      BY <2>2, LinesAssumption DEF append, TypesInv, WatchTypes, JournalTypes
    <3> QED
      BY <1>2, <3>1
  <2> QED
    BY <2>1, <2>2
<1>4. GoneExcused'
  <2>1. CASE vacuum
    <3>1. oldest' = oldest + 1 /\ excused' = excused \cup {oldest}
      BY <2>1 DEF vacuum
    <3>2. \A i \in 1..(oldest' - 1) : i \in 1..(oldest - 1) \/ i = oldest
      BY <1>2, <3>1
    <3> QED
      BY <3>1, <3>2 DEF HandledInv, GoneExcused
  <2>2. CASE oldest' = oldest
    BY <1>0, <2>2 DEF HandledInv, GoneExcused
  <2> QED
    BY <2>1, <2>2 DEF append
<1>5. ASSUME NEW i \in 1..Len(log)
      PROVE  (Accounted(i) => Accounted(i)') /\ (Notable(i)' <=> Notable(i)) /\ (Listed(i)' <=> Listed(i))
  <2>1. Listed(i)' <=> Listed(i)
    BY <1>0 DEF Listed
  <2> QED
    BY <1>0, <1>1, <1>3, <2>1, SettledStays
<1>6. ASSUME NEW n \in Int, n <= Len(log), Done(n) PROVE DoneNext(n)
  <2> SUFFICES ASSUME NEW i \in 1..Len(log'), i <= n, Notable(i)' PROVE Accounted(i)'
    BY DEF DoneNext
  <2>1. i \in 1..Len(log)
    BY <1>2, <1>6
  <2> QED
    BY <1>5, <1>6, <2>1 DEF Done
<1>7. \A n : Done(n)' <=> DoneNext(n)
  BY DEF Done, DoneNext
<1> SUFFICES ASSUME opt.follow PROVE (StateDone /\ LoopDone /\ EntryDone /\ ListDone)'
  BY <1>0, <1>4 DEF HandledInv
<1>8. StateDone /\ LoopDone /\ EntryDone /\ ListDone
  BY DEF HandledInv
<1>9. StateDone'
  <2>1. state - 1 \in Int /\ state \in Int /\ state - 1 <= Len(log)
    BY <1>2
  <2> QED
    BY <1>0, <1>2, <1>6, <1>7, <1>8, <2>1 DEF StateDone
<1>10. ~pos.sought => (Done(pos.n) => DoneNext(pos.n)) /\ (Done(pos.n - 1) => DoneNext(pos.n - 1))
  <2>1. pos.n - 1 \in Int /\ pos.n \in Int /\ (~pos.sought => pos.n - 1 <= Len(log))
    BY <1>2
  <2> QED
    BY <1>2, <1>6, <2>1
<1>11. EntryDone'
  <2>1. pc \in AtEntry => ~pos.sought
    BY DEF TypesInv, WatchTypes, PcInv
  <2> QED
    BY <1>0, <1>7, <1>8, <1>10, <2>1 DEF EntryDone
<1>12. LoopDone'
  <2>1. CASE ~pos.sought
    BY <1>0, <1>7, <1>8, <1>10, <2>1 DEF LoopDone
  <2>2. CASE pos.sought
    <3>1. pos.n <= Len(log) + 1
      BY DEF TypesInv, WatchTypes, PlaceTypes
    <3>2. pos.n - 1 \in Int /\ pos.n - 1 <= Len(log)
      BY <1>2, <3>1
    <3>3. Done(pos.n - 1) => DoneNext(pos.n - 1)
      BY <1>6, <3>2
    <3> QED
      BY <1>0, <1>7, <1>8, <2>2, <3>3 DEF LoopDone
  <2> QED
    BY <2>1, <2>2
<1>13. ListDone'
  <2> SUFFICES ASSUME pc' \in Listing, NEW i \in 1..Len(log'), i <= pos'.n, Notable(i)' PROVE (Accounted(i) \/ Listed(i))'
    BY DEF ListDone
  <2>1. ~pos.sought
    BY <1>0 DEF TypesInv, WatchTypes, PcInv
  <2>2. i \in 1..Len(log) /\ i <= pos.n
    BY <1>0, <1>2, <2>1
  <2> QED
    BY <1>0, <1>5, <1>8, <2>2 DEF ListDone
<1> QED
  BY <1>9, <1>11, <1>12, <1>13

-----------------------------------------------------------------------------
(***************************************************************************)
(* What has become a problem is behind the position, and is not on the     *)
(* list.                                                                   *)
(***************************************************************************)
Again(i) == kind # "core" /\ i \in reread
\* Where an entry that has become a problem is, seen from the program's place.
Behind(i) ==
  /\ pc \in {"down", "exit"} => i <= state
  /\ pc \in Quiet => IF pos.sought THEN i <= state /\ (i < pos.n \/ i < oldest) ELSE i <= pos.n
  /\ pc \in AtEntry => i < pos.n
  /\ pc \in Listing => i <= pos.n /\ ~Listed(i)

OnceInv ==
  opt.follow /\ ~unclean =>
    \A i \in 1..MaxLog :
      /\ reports[i] > 1 => Again(i)
      /\ reports[i] > 0 /\ ~Again(i) => Behind(i)

\* Nothing was reported at first.
LEMMA InitOnce == Init => OnceInv
BY DEF Init, OnceInv

\* A step that makes no problem.
LEMMA OnceStep ==
  ASSUME OnceInv, UNCHANGED <<kind, opt, reports, unclean>>, reread \subseteq reread',
         opt.follow => \A i \in 1..MaxLog : Behind(i) /\ ~Again(i)' => Behind(i)'
  PROVE  OnceInv'
<1>1. \A i \in 1..MaxLog : Again(i) => Again(i)'
  BY DEF Again
<1> QED
  BY <1>1 DEF OnceInv

\* The numbers of a watch.
LEMMA OnceNats ==
  ASSUME TypesInv
  PROVE  /\ Len(log) \in Nat /\ oldest \in Nat \ {0} /\ state \in Nat /\ pos.n \in Nat /\ pos.sought \in BOOLEAN
         /\ state <= Len(log) /\ (~pos.sought => pos.n <= Len(log)) /\ pos \in Places /\ Len(log) <= MaxLog
         /\ pc \in AtEntry \cup Listing \cup {"write", "last_write"} => ~pos.sought
BY WatchNats DEF TypesInv, WatchTypes, PlaceTypes, JournalTypes, PcInv

\* Steps that report nothing and do not move.
LEMMA MoveOnce ==
  ASSUME TypesInv, OnceInv,
         check_loop \/ poll_journal \/ abrt_journal_watch_notify_strings \/ settle \/ exit \/ pause \/ term
  PROVE  OnceInv'
<1>0. UNCHANGED <<kind, opt, reports, unclean, reread, pos, state, oldest, base, found>>
  BY DEF check_loop, poll_journal, abrt_journal_watch_notify_strings, settle, exit, pause, term, ghosts, work, journal
<1>1. ASSUME NEW i \in 1..MaxLog, Behind(i) PROVE Behind(i)'
  <2>1. Listed(i)' <=> Listed(i)
    BY <1>0 DEF Listed
  <2>2. \/ pc \in Quiet /\ pc' \in Quiet
        \/ pc \in AtEntry /\ pc' \in AtEntry \cup {"check"}
        \/ pc \in Listing /\ pc' \in Listing
        \/ pc \in {"down", "exit"} /\ pc' \in {"down", "exit"}
    <3>1. CASE check_loop \/ poll_journal
      BY <3>1 DEF check_loop, poll_journal, Quiet
    <3>2. CASE abrt_journal_watch_notify_strings \/ settle
      BY <3>2 DEF abrt_journal_watch_notify_strings, settle, AtEntry
    <3>3. CASE exit
      BY <3>3 DEF exit
    <3>4. CASE pause
      BY <3>4 DEF pause, Listing
    <3>5. CASE term
      <4>1. pc \in Quiet \cup AtEntry \cup Listing
        BY <3>5 DEF term, TypesInv, WatchTypes, PcInv
      <4>2. \/ pc = "settle" /\ pc' = "check"
            \/ pc = "pause" /\ pc' = "process"
            \/ pc = "delay" /\ pc' = "finish"
            \/ pc = "wait" /\ pc' = "check"
            \/ pc' = pc
        BY <3>5 DEF term
      <4> QED
        BY <4>1, <4>2 DEF Quiet, AtEntry, Listing
    <3> QED
      BY <3>1, <3>2, <3>3, <3>4, <3>5
  <2>3. pos.n \in Nat /\ (pc \in AtEntry => ~pos.sought)
    BY OnceNats
  <2>4. CASE pc \in Quiet /\ pc' \in Quiet
    BY <1>0, <1>1, <2>4 DEF Behind, Quiet, AtEntry, Listing
  <2>5. CASE pc \in AtEntry /\ pc' \in AtEntry \cup {"check"}
    <3>1. i < pos.n /\ i <= pos.n /\ ~pos.sought
      <4>1. i < pos.n /\ ~pos.sought /\ i \in Int /\ pos.n \in Int
        BY <1>1, <2>3, <2>5 DEF Behind
      <4> QED
        BY <4>1
    <3>2. pc' \notin {"down", "exit"} \cup Listing
      BY <2>5 DEF AtEntry, Listing
    <3> QED
      BY <1>0, <3>1, <3>2 DEF Behind
  <2>6. CASE pc \in Listing /\ pc' \in Listing
    BY <1>0, <1>1, <2>1, <2>6 DEF Behind, Quiet, AtEntry, Listing
  <2>7. CASE pc \in {"down", "exit"} /\ pc' \in {"down", "exit"}
    BY <1>0, <1>1, <2>7 DEF Behind, Quiet, AtEntry, Listing
  <2> QED
    BY <2>2, <2>4, <2>5, <2>6, <2>7
<1> QED
  BY <1>0, <1>1, OnceStep

\* A start: from the saved cursor, or from where main() seeks.
LEMMA StartOnce ==
  ASSUME TypesInv, OnceInv, start_watch \/ start_once
  PROVE  OnceInv'
<1>0. UNCHANGED <<kind, opt, reports, unclean, state, oldest, log>> /\ reread \subseteq reread' /\ pc = "down"
  BY DEF start_watch, start_once, start, journal
<1>1. ASSUME NEW i \in 1..MaxLog, Behind(i), ~Again(i)', opt.follow PROVE Behind(i)'
  <2>1. /\ pos' = Place /\ pc' = "check"
        /\ reread' = reread \cup (IF state # 0 /\ Place.sought THEN {state} ELSE {})
    BY <1>1 DEF start_watch, start_once, start
  <2>2. i <= state /\ state # 0 /\ state \in Nat /\ i <= Len(log) /\ Len(log) \in Nat /\ oldest \in Nat \ {0}
        /\ state <= Len(log)
    BY <1>0, <1>1, OnceNats DEF Behind
  <2>3. Place \in Places /\ Place.n \in Nat /\ Place.sought \in BOOLEAN
    BY PlaceIs DEF TypesInv, Places
  <2> SUFFICES IF Place.sought THEN i <= state /\ (i < Place.n \/ i < oldest) ELSE i <= Place.n
    BY <1>0, <2>1 DEF Behind, Quiet, AtEntry, Listing
  <2>4. CASE kind # "core"
    <3>1. Place.sought /\ Place.n = state
      BY <2>2, <2>4, PlaceIs DEF TypesInv, Sought
    <3>2. i # state
      BY <1>0, <1>1, <2>1, <2>2, <2>4, <3>1 DEF Again
    <3> QED
      BY <2>2, <3>1, <3>2
  <2>5. CASE kind = "core" /\ opt.tail
    <3>1. ~Place.sought /\ Place.n = Len(log)
      BY <2>5, PlaceIs DEF TypesInv, At
    <3> QED
      BY <2>2, <3>1
  <2>6. CASE kind = "core" /\ ~opt.tail
    <3>1. Place = abrt_journal_next(Sought(state))
      BY <2>2, <2>6, PlaceIs DEF TypesInv, Restored
    <3>2. Sought(state) \in Places /\ Sought(state).sought /\ Sought(state).n = state
      BY <2>2 DEF Sought, Places
    <3>3. /\ NextEntry(Sought(state)) = (IF oldest >= state THEN oldest ELSE state)
          /\ HasNext(Sought(state)) => Place.n = NextEntry(Sought(state)) /\ ~Place.sought
          /\ ~HasNext(Sought(state)) => Place = Sought(state) /\ NextEntry(Sought(state)) > Len(log)
      BY <2>2, <3>1, <3>2, NextIs
    <3>4. CASE HasNext(Sought(state))
      BY <2>2, <2>3, <3>3, <3>4
    <3>5. CASE ~HasNext(Sought(state))
      <4>1. Place.sought /\ i < oldest
        BY <2>2, <3>2, <3>3, <3>5
      <4> QED
        BY <2>2, <4>1
    <3> QED
      BY <3>4, <3>5
  <2>7. opt.tail \in BOOLEAN
    BY WatchNats DEF TypesInv
  <2> QED
    BY <2>4, <2>5, <2>6, <2>7
<1> QED
  BY <1>0, <1>1, OnceStep

\* The position moves on past what was reported.
LEMMA IterateOnce ==
  ASSUME TypesInv, OnceInv, iterate
  PROVE  OnceInv'
<1>0. UNCHANGED <<kind, opt, reports, unclean, reread, state, oldest, log>>
      /\ pc = "next" /\ pos' = abrt_journal_next(pos) /\ pc' = IF HasNext(pos) THEN "callback" ELSE "wait"
  BY DEF iterate, ghosts, journal
<1>1. ASSUME NEW i \in 1..MaxLog, Behind(i) PROVE Behind(i)'
  <2>1. IF pos.sought THEN i <= state /\ (i < pos.n \/ i < oldest) ELSE i <= pos.n
    BY <1>0, <1>1 DEF Behind, Quiet
  <2>2. Len(log) \in Nat /\ oldest \in Nat \ {0} /\ pos.n \in Nat /\ pos \in Places /\ pos.sought \in BOOLEAN
    BY OnceNats
  <2>3. CASE HasNext(pos)
    <3>1. pos'.n = NextEntry(pos) /\ NextEntry(pos) =
            LET k == IF pos.sought THEN pos.n ELSE pos.n + 1 IN IF oldest >= k THEN oldest ELSE k
      BY <1>0, <2>2, <2>3, NextIs
    <3>2. i < pos'.n
      BY <2>1, <2>2, <3>1
    <3> QED
      BY <1>0, <2>3, <3>2 DEF Behind, Quiet, AtEntry, Listing
  <2>4. CASE ~HasNext(pos)
    <3>1. pos' = pos
      BY <1>0, <2>2, <2>4, NextIs
    <3> QED
      BY <1>0, <2>1, <2>4, <3>1 DEF Behind, Quiet, AtEntry, Listing
  <2> QED
    BY <2>3, <2>4
<1> QED
  BY <1>0, <1>1, OnceStep

\* The cursor is saved at the position, which is past what was reported.
LEMMA StateOnce ==
  ASSUME TypesInv, OnceInv, truncate_state \/ write_state
  PROVE  OnceInv'
<1>0. UNCHANGED <<kind, opt, reports, unclean, reread, oldest, log, pos>> /\ pc \in Quiet
  BY DEF truncate_state, write_state, ghosts, journal, Quiet
<1>1. ASSUME NEW i \in 1..MaxLog, Behind(i) PROVE Behind(i)'
  <2>1. IF pos.sought THEN i <= state /\ (i < pos.n \/ i < oldest) ELSE i <= pos.n
    BY <1>0, <1>1 DEF Behind
  <2>2. pos.n \in Nat /\ pos.sought \in BOOLEAN
    BY OnceNats
  <2>3. CASE truncate_state /\ HasCursor(pos)
    <3>1. pc' \in {"last_write", "write"} /\ ~pos.sought
      BY <2>3 DEF truncate_state, HasCursor
    <3> QED
      BY <1>0, <2>1, <3>1 DEF Behind, Quiet, AtEntry, Listing
  <2>4. CASE truncate_state /\ ~HasCursor(pos)
    <3>1. pc' \in {"exit", "check"} /\ state' = state
      BY <2>4 DEF truncate_state
    <3>2. pos.sought
      BY <2>1, <2>2, <2>4 DEF HasCursor
    <3> QED
      BY <1>0, <2>1, <3>1, <3>2 DEF Behind, Quiet, AtEntry, Listing
  <2>5. CASE write_state
    <3>1. state' = pos.n /\ pc' \in {"check", "exit"} /\ ~pos.sought
      BY <2>5, OnceNats DEF write_state
    <3> QED
      BY <1>0, <2>1, <3>1 DEF Behind, Quiet, AtEntry, Listing
  <2> QED
    BY <2>3, <2>4, <2>5
<1> QED
  BY <1>0, <1>1, OnceStep

\* The journal grows and loses entries without moving the position past anything new.
LEMMA GrowOnce ==
  ASSUME TypesInv, OnceInv, vacuum \/ \E l \in NewLines[kind] : append(l)
  PROVE  OnceInv'
<1>0. UNCHANGED <<kind, opt, reports, unclean, reread, pos, state, pc, base, found>>
      /\ (oldest' = oldest \/ oldest' = oldest + 1)
  BY DEF vacuum, append, ghosts, work
<1>1. ASSUME NEW i \in 1..MaxLog, Behind(i) PROVE Behind(i)'
  <2>1. Listed(i)' <=> Listed(i)
    BY <1>0 DEF Listed
  <2>2. i < oldest => i < oldest'
    <3>1. oldest \in Nat
      BY OnceNats
    <3> QED
      BY <1>0, <3>1
  <2> QED
    BY <1>0, <1>1, <2>1, <2>2 DEF Behind
<1> QED
  BY <1>0, <1>1, OnceStep

\* The list is made, and ends.
LEMMA ListOnce ==
  ASSUME TypesInv, OnceInv, collect \/ end_of_list \/ finish_extraction
  PROVE  OnceInv'
<1>0. UNCHANGED <<kind, opt, reports, unclean, reread, state>>
  BY DEF collect, end_of_list, finish_extraction
<1>1. CASE collect
  <2>1. pc = "collect" /\ pc' = "process" /\ pos' = At(LastRead) /\ base' = pos.n - 1
    BY <1>1 DEF collect
  <2>2. /\ pos'.n = LastRead /\ InOrder(found', Len(lines')) /\ pos.n \in Nat /\ pos.n <= LastRead /\ LastRead \in Nat
        /\ Len(lines') \in Nat
    BY <1>1, <2>1, CollectTypes, LastReadIs DEF At, TypesInv
  <2>3. ASSUME NEW i \in 1..MaxLog, Behind(i) PROVE Behind(i)'
    <3>1. i < pos.n
      BY <2>1, <2>3 DEF Behind, AtEntry
    <3>2. ~Listed(i)'
      <4> SUFFICES ASSUME NEW k \in 1..Len(found'), i = base' + found'[k][1] PROVE FALSE
        BY DEF Listed
      <4>1. found'[k][1] \in 1..Len(lines')
        BY <2>2 DEF InOrder
      <4> QED
        BY <2>1, <2>2, <3>1, <4>1, SMTT(30)
    <3>3. i <= pos'.n
      BY <2>2, <3>1
    <3> QED
      BY <2>1, <3>2, <3>3 DEF Behind, Quiet, AtEntry, Listing
  <2> QED
    BY <1>0, <2>3, OnceStep
<1>2. CASE end_of_list
  <2>1. pc = "process" /\ pc' \in {"delay", "finish"} /\ pos' = pos /\ found' = <<>>
    BY <1>2 DEF end_of_list
  <2>2. ASSUME NEW i \in 1..MaxLog, Behind(i) PROVE Behind(i)'
    <3>1. ~Listed(i)'
      BY <2>1 DEF Listed
    <3> QED
      BY <2>1, <2>2, <3>1 DEF Behind, Quiet, AtEntry, Listing
  <2> QED
    BY <1>0, <2>2, OnceStep
<1>3. CASE finish_extraction
  <2>1. pc = "finish" /\ pc' = (IF opt.follow THEN "truncate" ELSE "exit")
        /\ pos' = IF kind = "oops" /\ opt.follow THEN At(Len(log)) ELSE pos
    BY <1>3 DEF finish_extraction, Saves, abrt_journal_seek_tail
  <2>2. ~pos.sought /\ pos.n <= Len(log) /\ pos.n \in Nat /\ Len(log) \in Nat
    BY <2>1, OnceNats DEF Listing
  <2>3. ~pos'.sought /\ pos.n <= pos'.n /\ pos'.n \in Nat
    BY <2>1, <2>2 DEF At
  <2>4. ASSUME NEW i \in 1..MaxLog, Behind(i), opt.follow PROVE Behind(i)'
    <3>1. i <= pos.n
      BY <2>1, <2>4 DEF Behind, Listing
    <3>2. i <= pos'.n
      BY <2>2, <2>3, <3>1
    <3> QED
      BY <2>1, <2>3, <2>4, <3>2 DEF Behind, Quiet, AtEntry, Listing
  <2> QED
    BY <1>0, <2>4, OnceStep
<1> QED
  BY <1>1, <1>2, <1>3

\* The entry at the position was not reported before.
LEMMA CoresOnce ==
  ASSUME TypesInv, OnceInv, abrt_journal_watch_cores
  PROVE  OnceInv'
<1>0. UNCHANGED <<kind, opt, unclean, reread, pos, state>> /\ pc = "crash"
      /\ pc' = (IF opt.follow THEN "truncate" ELSE "exit")
  BY DEF abrt_journal_watch_cores, Saves
<1>1. reports' = reports \/ reports' = [reports EXCEPT ![pos.n] = @ + 1]
  BY DEF abrt_journal_watch_cores, ignore_crash, save_crash
<1>2. kind = "core" /\ pos.n \in 1..MaxLog /\ reports \in [1..MaxLog -> Nat] /\ ~pos.sought /\ pos.n \in Nat
  BY <1>0, OnceNats, WatchNats DEF TypesInv, WatchTypes, PcInv, PlaceTypes, AtEntry
<1> SUFFICES ASSUME opt.follow, ~unclean, NEW i \in 1..MaxLog
             PROVE  (reports'[i] > 1 => Again(i)') /\ (reports'[i] > 0 /\ ~Again(i)' => Behind(i)')
  BY <1>0 DEF OnceInv
<1>3. ~Again(i) /\ ~Again(i)' /\ reports[i] \in Nat
  BY <1>0, <1>2 DEF Again
<1>4. (reports[i] > 1 => FALSE) /\ (reports[i] > 0 => i < pos.n)
  BY <1>0, <1>3 DEF OnceInv, Behind, AtEntry
<1>5. reports'[i] = reports[i] \/ (i = pos.n /\ reports'[i] = reports[i] + 1)
  BY <1>1, <1>2
<1>6. ~(reports'[i] > 1) /\ (reports'[i] > 0 => i <= pos.n)
  BY <1>2, <1>3, <1>4, <1>5
<1> QED
  BY <1>0, <1>2, <1>6 DEF Behind, Quiet, AtEntry, Listing

\* The head of the list was not reported before.
LEMMA CreateOnce ==
  ASSUME TypesInv, OnceInv, create_dump_dir
  PROVE  OnceInv'
<1>0. /\ UNCHANGED <<kind, opt, unclean, reread, state, pos, base>>
      /\ pc = "process" /\ found # <<>> /\ pc' \in {"pause", "process"}
  BY DEF create_dump_dir
<1>1. PICK saved \in BOOLEAN :
       /\ reports' = [reports EXCEPT ![base + Head(found)[1]] = @ + (IF saved THEN 1 ELSE 0)]
       /\ found' = IF saved \/ kind = "xorg" THEN Tail(found) ELSE found
  BY DEF create_dump_dir
<1>2. /\ base \in Nat /\ base + Len(lines) = pos.n /\ Len(lines) \in Nat /\ InOrder(found, Len(lines))
      /\ pos.n <= MaxLog /\ reports \in [1..MaxLog -> Nat] /\ MaxLog \in Nat /\ pos.n \in Nat
  <2>1. base \in Nat /\ base + Len(lines) = pos.n /\ Len(lines) \in Nat /\ InOrder(found, Len(lines))
    BY <1>0 DEF TypesInv, ListInv, Listing
  <2>2. MaxLog \in Nat /\ pos.n \in Nat /\ Len(log) \in Nat /\ pos.n <= Len(log) /\ Len(log) <= MaxLog
    BY <1>0, OnceNats, WatchNats DEF TypesInv, Listing
  <2>3. reports \in [1..MaxLog -> Nat]
    BY DEF TypesInv, WatchTypes, PlaceTypes
  <2> QED
    BY <2>1, <2>2, <2>3
<1>3. /\ Head(found) = found[1] /\ found[1][1] \in 1..Len(lines) /\ found[1][1] \in Nat
      /\ Len(found) \in Nat /\ Len(found) >= 1 /\ Len(Tail(found)) = Len(found) - 1
      /\ \A k \in 1..Len(Tail(found)) : Tail(found)[k] = found[k + 1] /\ k + 1 \in 1..Len(found)
  BY <1>0, <1>2, TailInOrder
<1>4. PICK e \in 1..MaxLog : e = base + found[1][1]
  BY <1>2, <1>3
<1>5. e <= pos.n /\ Listed(e)
  <2>1. e <= pos.n
    BY <1>2, <1>3, <1>4
  <2>2. 1 \in 1..Len(found)
    BY <1>3
  <2> QED
    BY <1>4, <2>1, <2>2 DEF Listed
<1> SUFFICES ASSUME opt.follow, ~unclean, NEW i \in 1..MaxLog
             PROVE  (reports'[i] > 1 => Again(i)') /\ (reports'[i] > 0 /\ ~Again(i)' => Behind(i)')
  BY <1>0 DEF OnceInv
<1>6. (Again(i)' <=> Again(i)) /\ reports[i] \in Nat
  BY <1>0, <1>2 DEF Again
<1>7. reports'[i] = reports[i] \/ (i = e /\ saved /\ reports'[i] = reports[i] + 1)
  <2>1. reports' = [reports EXCEPT ![e] = @ + (IF saved THEN 1 ELSE 0)] /\ reports \in [1..MaxLog -> Nat]
    BY <1>1, <1>2, <1>3, <1>4
  <2>2. reports'[i] = IF i = e THEN reports[i] + (IF saved THEN 1 ELSE 0) ELSE reports[i]
    BY <2>1
  <2> QED
    BY <1>6, <2>2
<1>8. /\ reports[i] > 1 => Again(i)
      /\ reports[i] > 0 /\ ~Again(i) => i <= pos.n /\ ~Listed(i)
  BY <1>0 DEF OnceInv, Behind, Listing
\* The list that is left has no entry twice.
<1>9. Listed(i)' => Listed(i) /\ (saved => i # e)
  <2> SUFFICES ASSUME NEW k \in 1..Len(found'), i = base + found'[k][1] PROVE Listed(i) /\ (saved => i # e)
    BY <1>0 DEF Listed
  <2>1. CASE found' = found /\ ~saved
    BY <2>1 DEF Listed
  <2>2. CASE found' = Tail(found)
    <3>1. found'[k] = found[k + 1] /\ k + 1 \in 1..Len(found) /\ 1 \in 1..Len(found)
      BY <1>3, <2>2
    <3>2. 1 < k + 1
      BY <1>3, <2>2
    <3>3. found[1][1] < found[k + 1][1] /\ found[k + 1][1] \in 1..Len(lines)
      BY <1>2, <3>1, <3>2 DEF InOrder
    <3>4. i # e
      <4>1. i = base + found[k + 1][1] /\ e = base + found[1][1]
        BY <1>4, <3>1
      <4>2. base \in Int /\ found[1][1] \in Int /\ found[k + 1][1] \in Int
        BY <1>2, <1>3, <3>3
      <4>3. found[1][1] < found[k + 1][1]
        BY <3>3
      <4>4. base + found[k + 1][1] # base + found[1][1]
        BY <4>2, <4>3
      <4> QED
        BY <4>1, <4>4
    <3> QED
      BY <3>1, <3>4 DEF Listed
  <2> QED
    BY <1>1, <2>1, <2>2
<1>10. CASE reports'[i] = reports[i] /\ ~(i = e /\ saved)
  <2>1. reports[i] > 0 /\ ~Again(i) => i <= pos.n /\ ~Listed(i)'
    BY <1>8, <1>9
  <2> QED
    BY <1>0, <1>6, <1>8, <1>10, <2>1 DEF Behind, Quiet, AtEntry, Listing
<1>11. CASE i = e /\ saved
  <2>1. ~Listed(i)' /\ i <= pos.n
    BY <1>5, <1>9, <1>11
  <2>2. Again(i) \/ reports[i] = 0
    BY <1>5, <1>6, <1>8, <1>11
  <2>3. reports'[i] > 1 => Again(i)
    BY <1>6, <1>7, <2>2
  <2> QED
    BY <1>0, <1>6, <2>1, <2>3 DEF Behind, Quiet, AtEntry, Listing
<1> QED
  BY <1>7, <1>10, <1>11

\* Every step keeps what became a problem behind the position and off the list.
LEMMA OnceKept == TypesInv /\ OnceInv /\ [Next]_vars => OnceInv'
<1>1. ASSUME OnceInv, UNCHANGED vars PROVE OnceInv'
  <2>1. UNCHANGED <<kind, opt, reports, unclean, reread, pos, state, pc, oldest, base, found>>
    BY <1>1 DEF vars, ghosts, journal, work
  <2>2. \A i : Behind(i)' <=> Behind(i)
    BY <2>1 DEF Behind, Listed
  <2> QED
    BY <1>1, <2>1, <2>2, OnceStep
<1>2. ASSUME kill PROVE OnceInv'
  BY <1>2 DEF kill, OnceInv
<1> QED
  BY <1>1, <1>2, StartOnce, MoveOnce, IterateOnce, CoresOnce, StateOnce, ListOnce, CreateOnce, GrowOnce
     DEF Next, Step

\* Nothing is passed over: the step of the invariant that is about what was handled.
LEMMA HandledKept == TypesInv /\ TypesInv' /\ HandledInv /\ [Next]_vars => HandledInv'
<1>1. ASSUME HandledInv, UNCHANGED vars PROVE HandledInv'
  <2>1. /\ UNCHANGED <<kind, opt, log, oldest, pos, state, pc, stopped, base, found>>
        /\ UNCHANGED <<reports, examined, excused, skipped>>
    BY <1>1 DEF vars, ghosts, journal, work, flags
  <2>2. \A n : Done(n)' <=> Done(n)
    BY <2>1 DEF Done, Notable, Suspicious, Accounted
  <2>3. ListDone' <=> ListDone
    BY <2>1 DEF ListDone, Notable, Suspicious, Accounted, Listed
  <2> QED
    BY <1>1, <2>1, <2>2, <2>3 DEF HandledInv, GoneExcused, StateDone, LoopDone, EntryDone
<1> QED
  BY <1>1, MoveHandled, StartHandled, IterateHandled, CoresHandled, CollectHandled, CreateHandled,
     EndHandled, FinishHandled, StateHandled, TermHandled, GrowHandled DEF Next, Step
-----------------------------------------------------------------------------
(***************************************************************************)
(* The queue of the core watch.                                            *)
(***************************************************************************)
QueueTypes ==
  /\ head \in Int /\ -1 <= head /\ head < QueueSize
  /\ queue \in [Slots -> [exe : Exes \cup {NoExe}, stamp : Nat]]
  /\ last \in [Exes -> Nat]

\* A slot has the time of its executable's last problem; who has none was pushed out
\* of a full queue; the slots before the next one are filled until all are.
StampInv == \A i \in Filled : queue[i].stamp = last[queue[i].exe]
SlotInv == \A e \in Exes : last[e] # 0 => SlotOf(e) # {} \/ Filled = Slots
RingInv == Filled = Slots \/ \A i \in Slots : i \in Filled <=> i < head

QueueInv == QueueTypes /\ (opt.follow => StampInv /\ SlotInv /\ RingInv)

\* The inductive invariant.
\* Only -e and the core watch pass entries over.
SkippedInv == skipped # {} => opt.tail \/ kind = "core"

Inv == TypesInv /\ HandledInv /\ OnceInv /\ QueueInv /\ SkippedInv

\* A step that leaves the queue alone.
LEMMA QueueLeft ==
  ASSUME QueueInv, UNCHANGED <<opt, throttling, last>>
  PROVE  QueueInv'
BY DEF QueueInv, QueueTypes, StampInv, SlotInv, RingInv, Filled, SlotOf, throttling

\* The queue is empty at first.
LEMMA InitQueue == Init => QueueInv
<1> SUFFICES ASSUME Init PROVE QueueInv
  OBVIOUS
<1>1. QueueTypes
  BY WatchAssumption DEF Init, QueueTypes, EmptySlot
<1>2. Filled = {}
  BY DEF Init, Filled, EmptySlot
<1>3. StampInv /\ SlotInv
  BY <1>2 DEF Init, StampInv, SlotInv
<1>4. RingInv
  BY <1>2 DEF Init, RingInv, Slots
<1> QED
  BY <1>1, <1>3, <1>4 DEF QueueInv

\* A start empties the queue.
LEMMA StartQueue ==
  ASSUME NEW once, start(once)
  PROVE  QueueTypes' /\ (StampInv /\ SlotInv /\ RingInv)'
<1>1. head' = -1 /\ queue' = [i \in Slots |-> EmptySlot] /\ last' = [e \in Exes |-> 0]
  BY DEF start
<1>2. QueueTypes'
  BY <1>1, WatchAssumption DEF QueueTypes, EmptySlot
<1>3. Filled' = {}
  BY <1>1 DEF Filled, EmptySlot
<1>4. StampInv' /\ SlotInv'
  BY <1>1, <1>3 DEF StampInv, SlotInv
<1>5. RingInv'
  BY <1>1, <1>3 DEF RingInv, Slots
<1> QED
  BY <1>2, <1>4, <1>5

\* One crash handled by abrt_journal_watch_cores(): an executable that is in the queue
\* gets its slot stamped, a new one takes the next slot.
LEMMA UpdateKeeps ==
  ASSUME QueueInv, StampInv, SlotInv, RingInv, NEW e \in Exes, NEW now \in Nat,
         last' = [last EXCEPT ![e] = now], abrt_journal_update_occurrence(e, now)
  PROVE  (QueueTypes /\ StampInv /\ SlotInv /\ RingInv)'
<1>0. QueueTypes /\ QueueSize \in Nat \ {0} /\ NoExe \notin Exes
  BY WatchAssumption DEF QueueInv
<1>1. last' \in [Exes -> Nat] /\ last'[e] = now /\ \A f \in Exes \ {e} : last'[f] = last[f]
  BY <1>0 DEF QueueTypes
<1>2. CASE SlotOf(e) # {}
  <2>1. /\ queue' = [i \in Slots |-> IF i \in SlotOf(e) THEN [exe |-> e, stamp |-> now] ELSE queue[i]]
        /\ head' = head
    BY <1>2 DEF abrt_journal_update_occurrence
  <2>2. \A i \in Slots : queue'[i].exe = queue[i].exe
                         /\ queue'[i].stamp = IF queue[i].exe = e THEN now ELSE queue[i].stamp
    BY <1>0, <2>1 DEF SlotOf, Filled
  <2>3. queue' \in [Slots -> [exe : Exes \cup {NoExe}, stamp : Nat]]
    BY <1>0, <2>1 DEF QueueTypes
  <2>4. Filled' = Filled /\ \A f \in Exes : SlotOf(f)' = SlotOf(f)
    BY <2>2 DEF Filled, SlotOf
  <2>5. StampInv'
    BY <1>0, <1>1, <2>2, <2>4 DEF StampInv, Filled, QueueTypes
  <2>6. SlotInv'
    BY <1>1, <1>2, <2>4 DEF SlotInv
  <2>7. RingInv'
    BY <2>1, <2>4 DEF RingInv
  <2> QED
    BY <1>0, <1>1, <2>1, <2>3, <2>5, <2>6, <2>7 DEF QueueTypes
<1>3. CASE SlotOf(e) = {}
  <2> DEFINE h == Max({head, 0})
  <2>1. queue' = [queue EXCEPT ![h] = [exe |-> e, stamp |-> now]] /\ head' = (h + 1) % QueueSize
    BY <1>3 DEF abrt_journal_update_occurrence
  <2>2. h = (IF head >= 0 THEN head ELSE 0)
    BY <1>0, MaxOfTwo DEF QueueTypes
  <2>3. h \in Slots /\ h \in Nat /\ h < QueueSize
    BY <1>0, <2>2 DEF QueueTypes, Slots
  <2>4. head' = (IF h + 1 = QueueSize THEN 0 ELSE h + 1)
    BY <1>0, <2>1, <2>3
  <2>5. Filled = Slots \/ \A i \in Slots : i \in Filled <=> i < h
    BY <1>0, <2>2 DEF RingInv, Slots, QueueTypes
  <2> HIDE DEF h
  <2>6. queue' \in [Slots -> [exe : Exes \cup {NoExe}, stamp : Nat]]
    BY <1>0, <2>1, <2>3 DEF QueueTypes
  <2>7. queue'[h].exe = e /\ queue'[h].stamp = now /\ \A i \in Slots \ {h} : queue'[i] = queue[i]
    BY <1>0, <2>1, <2>3 DEF QueueTypes
  <2>8. Filled' = Filled \cup {h} /\ \A i \in Filled : queue[i].exe # e
    BY <1>0, <1>3, <2>3, <2>7 DEF Filled, SlotOf
  <2>9. StampInv'
    BY <1>0, <1>1, <2>7, <2>8 DEF StampInv, Filled, QueueTypes
  <2>10. SlotInv'
    <3>1. CASE Filled = Slots
      BY <2>3, <2>8, <3>1 DEF SlotInv
    <3>2. CASE Filled # Slots
      <4>1. h \notin Filled
        BY <2>3, <2>5, <3>2
      <4>2. ASSUME NEW f \in Exes, last'[f] # 0 PROVE SlotOf(f)' # {}
        <5>1. CASE f = e
          BY <2>3, <2>7, <2>8, <5>1 DEF SlotOf
        <5>2. CASE f # e
          <6>1. PICK i \in SlotOf(f) : TRUE
            BY <1>1, <3>2, <4>2, <5>2 DEF SlotInv
          <6>2. i \in Slots \ {h} /\ i \in Filled' /\ queue'[i].exe = f
            BY <2>7, <2>8, <4>1, <6>1 DEF SlotOf, Filled
          <6> QED
            BY <6>2 DEF SlotOf
        <5> QED
          BY <5>1, <5>2
      <4> QED
        BY <4>2 DEF SlotInv
    <3> QED
      BY <3>1, <3>2
  <2>11. RingInv'
    <3>1. CASE Filled = Slots
      BY <2>3, <2>8, <3>1 DEF RingInv
    <3>2. CASE h + 1 = QueueSize /\ \A i \in Slots : i \in Filled <=> i < h
      BY <1>0, <2>3, <2>8, <3>2 DEF RingInv, Slots, Filled
    <3>3. CASE h + 1 # QueueSize /\ \A i \in Slots : i \in Filled <=> i < h
      BY <1>0, <2>3, <2>4, <2>8, <3>3 DEF RingInv, Slots
    <3> QED
      BY <2>5, <3>1, <3>2, <3>3
  <2>12. QueueTypes'
    BY <1>0, <1>1, <2>3, <2>4, <2>6 DEF QueueTypes
  <2> QED
    BY <2>9, <2>10, <2>11, <2>12
<1> QED
  BY <1>2, <1>3

\* An executable is put into the queue at the time of its problem.
LEMMA CoresQueue ==
  ASSUME TypesInv, QueueInv, abrt_journal_watch_cores
  PROVE  QueueInv'
<1>0. /\ pc = "crash" /\ kind = "core" /\ pos.n \in 1..Len(log) /\ log \in Seq(Exes \cup {"ignored"})
      /\ opt' = opt
  <2>1. pc = "crash" /\ opt' = opt
    BY DEF abrt_journal_watch_cores
  <2>2. kind = "core" /\ ~pos.sought /\ pos.n \in Nat /\ pos.n >= 1 /\ Len(log) \in Nat
    BY <2>1, WatchNats DEF TypesInv, WatchTypes, PcInv, AtEntry
  <2>3. pos.n <= Len(log) /\ log \in Seq(LinesOf[kind])
    BY <2>2 DEF TypesInv, WatchTypes, PlaceTypes, JournalTypes
  <2> QED
    BY <2>1, <2>2, <2>3 DEF LinesOf
<1>2. PICK now \in Throttle..MaxTime :
        \/ ignore_crash(log[pos.n])
        \/ log[pos.n] # "ignored" /\ save_crash(log[pos.n], now)
  BY DEF abrt_journal_watch_cores
<1>3. CASE ignore_crash(log[pos.n])
  BY <1>0, <1>3, QueueLeft DEF ignore_crash
<1>4. CASE log[pos.n] # "ignored" /\ save_crash(log[pos.n], now)
  <2>1. log[pos.n] \in Exes /\ now \in Nat
    BY <1>0, <1>4, WatchAssumption
  <2>2. last' = [last EXCEPT ![log[pos.n]] = now]
    BY <1>4 DEF save_crash
  <2>3. CASE opt.follow
    <3>1. abrt_journal_update_occurrence(log[pos.n], now)
      BY <1>4, <2>3 DEF save_crash
    <3> QED
      BY <2>1, <2>2, <2>3, <3>1, UpdateKeeps DEF QueueInv
  <2>4. CASE ~opt.follow
    BY <1>0, <1>4, <2>1, <2>2, <2>4 DEF save_crash, QueueInv, QueueTypes, throttling
  <2> QED
    BY <2>3, <2>4
<1> QED
  BY <1>2, <1>3, <1>4

\* Every step keeps the queue true to the problems.
LEMMA QueueKept == TypesInv /\ QueueInv /\ [Next]_vars => QueueInv'
<1> SUFFICES ASSUME TypesInv, QueueInv, [Next]_vars PROVE QueueInv'
  OBVIOUS
<1>1. CASE start_watch \/ start_once
  BY <1>1, StartQueue DEF start_watch, start_once, QueueInv
<1>2. CASE UNCHANGED <<opt, throttling, last>>
  BY <1>2, QueueLeft
<1>3. \/ start_watch \/ start_once \/ abrt_journal_watch_cores
      \/ UNCHANGED <<opt, throttling, last>>
  BY DEF Next, Step, check_loop, iterate, poll_journal, abrt_journal_watch_notify_strings, settle, collect,
     create_dump_dir, end_of_list, pause, finish_extraction, truncate_state, write_state, exit, term,
     kill, vacuum, append, vars, ghosts
<1> QED
  BY <1>1, <1>2, <1>3, CoresQueue
\* The other watches begin before the entries they have not read.
LEMMA SkippedKept ==
  ASSUME Inv, [Next]_vars
  PROVE  SkippedInv'
<1>1. CASE start_watch
  <2>1. kind' = kind /\ opt' = opt
    BY <1>1 DEF start_watch
  <2>2. opt.tail \/ kind = "core" \/ Place.sought
    BY DEF Place, Restored, Sought
  <2>3. Place.sought => skipped' = skipped
    BY <1>1 DEF start_watch
  <2> QED
    BY <2>1, <2>2, <2>3 DEF Inv, SkippedInv
<1>2. CASE UNCHANGED <<kind, opt, skipped>>
  BY <1>2 DEF Inv, SkippedInv
<1>3. start_watch \/ UNCHANGED <<kind, opt, skipped>>
  BY DEF Next, Step, start_once, start, check_loop, iterate, poll_journal, abrt_journal_watch_notify_strings,
     abrt_journal_watch_cores, settle, collect, create_dump_dir, end_of_list, pause, finish_extraction,
     truncate_state, write_state, exit, term, kill, vacuum, append, vars, ghosts
<1> QED
  BY <1>1, <1>2, <1>3
-----------------------------------------------------------------------------
\* The watches and their journal through any number of restarts, kills and signals:
\* what is behind the position and the cursor of abrt_journal_save_current_position()
\* was handled, what became a problem is behind them, and the queue of
\* abrt_journal_update_occurrence() knows the last problems of the executables.
THEOREM Invariance == Spec => []Inv
<1>1. Init => Inv
  <2>1. Init => SkippedInv
    BY DEF Init, SkippedInv
  <2> QED
    BY <2>1, InitTypes, InitHandled, InitOnce, InitQueue DEF Inv
<1>2. Inv /\ [Next]_vars => Inv'
  BY TypesKept, HandledKept, OnceKept, QueueKept, SkippedKept DEF Inv
<1> QED
  BY <1>1, <1>2, PTL DEF Spec

\* The cursor that abrt_journal_save_current_position() writes is never ahead of what
\* the watch has handled, given up or passed over, wherever it is stopped or killed.
THEOREM PositionHolds == Spec => []PositionNotAhead
<1>1. Inv => PositionNotAhead
  <2> SUFFICES ASSUME Inv, state # 0, NEW i \in 1..Len(log), Notable(i), i < state \/ (i = state /\ kind = "core")
               PROVE  Settled(i) \/ PassedOver(i)
    BY DEF PositionNotAhead
  <2>0. Accounted(i) => Settled(i) \/ PassedOver(i)
    BY DEF Inv, SkippedInv, Accounted, Settled, PassedOver
  <2>1. opt.follow
    BY WatchNats DEF Inv, TypesInv, WatchTypes, PcInv
  <2>2. Done(state - 1) /\ (kind = "core" => Done(state))
    BY <2>1 DEF Inv, HandledInv, StateDone
  <2>3. CASE i < state
    <3>1. i <= state - 1
      BY <2>3, WatchNats DEF Inv, TypesInv
    <3> QED
      BY <2>0, <2>2, <3>1 DEF Done
  <2>4. CASE i = state /\ kind = "core"
    <3>1. i <= state
      BY <2>4, WatchNats DEF Inv, TypesInv
    <3> QED
      BY <2>0, <2>2, <2>4, <3>1 DEF Done
  <2> QED
    BY <2>3, <2>4
<1> QED
  BY <1>1, Invariance, PTL

\* Over clean restarts an entry becomes a problem once, but for the entry that main() of
\* the oops and X watches looks at again.
THEOREM ReportedOnceHolds == Spec => []ReportedOnce
<1>1. Inv => ReportedOnce
  <2> SUFFICES ASSUME Inv, opt.follow, ~unclean, NEW i \in 1..Len(log), reports[i] > 1
               PROVE  kind # "core" /\ i \in reread
    BY DEF ReportedOnce
  <2>1. i \in 1..MaxLog
    <3>1. Len(log) \in Nat /\ Len(log) <= MaxLog /\ MaxLog \in Nat
      BY OnceNats, WatchAssumption DEF Inv
    <3> QED
      BY <3>1
  <2> QED
    BY <2>1 DEF Inv, OnceInv, Again
<1> QED
  BY <1>1, Invariance, PTL

\* Whatever lines a watch has collected, koops_extract_oopses_from_lines() and
\* process_xorg_bt() find neither too little nor too much in them.
THEOREM CrashesFoundHolds == Spec => []CrashesFound
<1>1. Inv => CrashesFound
  <2> SUFFICES ASSUME Inv, pc = "process" PROVE CrashesFound
    BY DEF CrashesFound
  <2>1. lines \in Seq(LinesOf[kind])
    BY DEF Inv, TypesInv, ListInv, Listing
  <2>2. kind = "oops" /\ countdown = MaxDumped => found = koops_extract_oopses_from_lines(lines)
    BY DEF Inv, TypesInv, ListInv, Listing
  <2>3. KoopsSound(lines, koops_extract_oopses_from_lines(lines))
        /\ KoopsComplete(lines, koops_extract_oopses_from_lines(lines))
    BY <2>1, OopsesExtracted
  <2>4. XorgComplete(lines, process_xorg_bt(lines))
    BY <2>1, XorgCrashesExtracted
  <2> QED
    BY <2>2, <2>3, <2>4 DEF CrashesFound
<1> QED
  BY <1>1, Invariance, PTL

\* abrt_journal_watch_cores() makes two problems of one executable no closer than the
\* limit, unless others have pushed it out of the queue.
THEOREM ThrottleHolds == Spec => ThrottleKept
<1>1. ASSUME Inv, [Next]_vars, NEW e \in Exes, opt.follow, last[e] # 0, last'[e] \notin {0, last[e]}
      PROVE  last'[e] - last[e] >= Throttle \/ Forgotten(e)
  <2>1. CASE start_watch \/ start_once
    BY <1>1, <2>1 DEF start_watch, start_once, start
  <2>2. CASE abrt_journal_watch_cores
    <3>1. PICK now \in Throttle..MaxTime :
            IF log[pos.n] = "ignored" \/ (opt.follow /\ Repeated(log[pos.n], now))
            THEN ignore_crash(log[pos.n])
            ELSE save_crash(log[pos.n], now) \/ ignore_crash(log[pos.n])
      BY <2>2 DEF abrt_journal_watch_cores
    <3>2. ~ignore_crash(log[pos.n])
      BY <1>1 DEF ignore_crash
    <3>3. ~Repeated(log[pos.n], now) /\ last' = [last EXCEPT ![log[pos.n]] = now]
      BY <1>1, <3>1, <3>2 DEF save_crash
    <3>4. log[pos.n] = e /\ last'[e] = now
      BY <1>1, <3>3 DEF Inv, QueueInv, QueueTypes
    <3>5. CASE SlotOf(e) = {}
      BY <1>1, <3>5 DEF Inv, QueueInv, SlotInv, Forgotten
    <3>6. CASE SlotOf(e) # {}
      <4>1. abrt_journal_get_last_occurrence(e) = last[e]
        BY <1>1, <3>6 DEF Inv, QueueInv, StampInv, SlotOf, abrt_journal_get_last_occurrence
      <4>2. now \in Nat /\ last[e] \in Nat /\ Throttle \in Nat
        BY <1>1, WatchAssumption DEF Inv, QueueInv, QueueTypes
      <4> QED
        BY <3>3, <3>4, <4>1, <4>2 DEF Repeated
    <3> QED
      BY <3>5, <3>6
  <2>3. CASE last' = last
    BY <1>1, <2>3
  <2> QED
    BY <1>1, <2>1, <2>2, <2>3 DEF Next, Step, check_loop, iterate, poll_journal,
       abrt_journal_watch_notify_strings, settle, collect, create_dump_dir, end_of_list, pause,
       finish_extraction, truncate_state, write_state, exit, term, kill, vacuum, append, vars, ghosts
<1>2. Inv /\ [Next]_vars =>
        [\A e \in Exes : opt.follow /\ last[e] # 0 /\ last'[e] \notin {0, last[e]} =>
           last'[e] - last[e] >= Throttle \/ Forgotten(e)]_vars
  BY <1>1
<1> QED
  BY <1>2, Invariance, PTL DEF Spec, ThrottleKept
=============================================================================
