--------------------------- MODULE Heatmap_proofs ---------------------------
(***************************************************************************)
(* Theorems about the heatmap and the tests it notes, for any peers and    *)
(* callers, bucket widths, window and retention.                           *)
(***************************************************************************)
EXTENDS Heatmap, FiniteSetTheorems, TLAPS

-----------------------------------------------------------------------------
(* The tests.                                                                *)

\* A test under way has measured its download when it uploads.
RunState == {Off} \cup [at : {"download"}, id : Nat]
                  \cup [at : {"upload"}, id : Nat, down : Measured]

Running(r) == test[r].at # "off"

\* Tests are numbered, and end after they began; none is too long under way.
Numbered ==
  /\ now \in Nat /\ IsFiniteSet(tests)
  /\ tests \subseteq [id : 1..Cardinality(tests), began : Nat, ended : Nat \cup {-1}]
  /\ \A t \in tests : /\ t.began =< now
                      /\ t.ended # -1 => t.began =< t.ended /\ t.ended =< now
                      /\ t.ended = -1 => now =< t.began + TestTime
  /\ \A t, u \in tests : t.id = u.id => t = u

\* Every caller's test is one of those that have not ended, and nobody else's.
Runs ==
  /\ test \in [Runner -> RunState]
  /\ \A r \in Runner : Running(r) => \E t \in tests : t.id = test[r].id /\ t.ended = -1
  /\ \A r, q \in Runner : Running(r) /\ Running(q) /\ test[r].id = test[q].id => r = q

\* The windows are those of the tests; one that is missing is of a test that ended
\* before everything that is still drawn.
WindowOf(t) == [id |-> t.id, from |-> t.began, to |-> IF t.ended = -1 THEN t.began ELSE t.ended]

Noted ==
  /\ windows \subseteq {WindowOf(t) : t \in tests}
  /\ \A t \in tests : WindowOf(t) \in windows \/ (t.ended # -1 /\ t.ended < now - Retention)

Measurements ==
  \A s \in stored : /\ \E t \in tests : t.id = s.id /\ t.ended >= 0
                    /\ s.down \/ s.up => s.loaded

TestInv == Numbered /\ Runs /\ Noted /\ Measurements

LEMMA TestFacts == /\ TestTime \in Nat /\ Retention \in Nat /\ Retention >= TestTime
                   /\ Span \in Nat /\ Retention >= Span
  BY TestAssumption, HeatAssumption

LEMMA TestInvInit == TestInit => TestInv
<1>. SUFFICES ASSUME TestInit PROVE TestInv
  OBVIOUS
<1>1. Numbered
  BY FS_EmptySet DEF TestInit, Numbered
<1>2. Runs
  BY DEF TestInit, Runs, RunState, Running, Off
<1>. QED
  BY <1>1, <1>2 DEF TestInit, TestInv, Noted, Measurements

LEMMA TestInvBegin ==
  ASSUME TestInv, NEW r \in Runner, Begin(r)
  PROVE  TestInv'
<1>. DEFINE n == Cardinality(tests)
            new == [id |-> n + 1, began |-> now, ended |-> -1]
<1>1. Numbered /\ Runs /\ Noted /\ Measurements
  BY DEF TestInv
<1>2. /\ test[r].at = "off" /\ now' = now /\ stored' = stored
      /\ test' = [test EXCEPT ![r] = [at |-> "download", id |-> n + 1]]
      /\ windows' = Kept \cup {[id |-> n + 1, from |-> now, to |-> now]}
      /\ tests' = tests \cup {new}
  BY DEF Begin
<1>3. n \in Nat /\ \A t \in tests : t.id # n + 1 /\ t.id \in 1..n
  BY <1>1, FS_CardinalityType DEF Numbered
<1>4. IsFiniteSet(tests') /\ Cardinality(tests') = n + 1
  <2>1. new \notin tests
    BY <1>3
  <2>. HIDE DEF new
  <2>. QED
    BY <1>1, <1>2, <2>1, FS_AddElement DEF Numbered
<1>. HIDE DEF n
<1>5. Numbered'
  <2>1. tests' \subseteq [id : 1..(n + 1), began : Nat, ended : Nat \cup {-1}]
    BY <1>1, <1>2, <1>3 DEF Numbered, n
  <2>2. \A t \in tests' : /\ t.began =< now
                          /\ t.ended # -1 => t.began =< t.ended /\ t.ended =< now
                          /\ t.ended = -1 => now =< t.began + TestTime
    BY <1>1, <1>2, TestFacts DEF Numbered
  <2>3. \A t, u \in tests' : t.id = u.id => t = u
    BY <1>1, <1>2, <1>3 DEF Numbered
  <2>. QED
    BY <1>1, <1>2, <1>4, <2>1, <2>2, <2>3 DEF Numbered
<1>6. Runs'
  <2>1. test' \in [Runner -> RunState]
    BY <1>1, <1>2, <1>3 DEF Runs, RunState
  <2>2. \A q \in Runner : q # r => test'[q] = test[q]
    BY <1>1, <1>2 DEF Runs
  <2>3. test'[r].id = n + 1 /\ test'[r].at = "download"
    BY <1>1, <1>2 DEF Runs
  <2>4. \A q \in Runner : q # r /\ Running(q) => test[q].id # n + 1
    BY <1>1, <1>3 DEF Runs
  <2>5. \A q \in Runner : Running(q)' => \E t \in tests' : t.id = test'[q].id /\ t.ended = -1
    <3>. SUFFICES ASSUME NEW q \in Runner, Running(q)'
                  PROVE  \E t \in tests' : t.id = test'[q].id /\ t.ended = -1
      OBVIOUS
    <3>1. CASE q = r
      <4>1. new \in tests' /\ new.id = n + 1 /\ new.ended = -1
        BY <1>2
      <4>. HIDE DEF new
      <4>. QED
        BY <2>3, <3>1, <4>1
    <3>2. CASE q # r
      BY <1>1, <1>2, <2>2, <3>2 DEF Runs, Running
    <3>. QED
      BY <3>1, <3>2
  <2>6. \A q, p \in Runner : Running(q)' /\ Running(p)' /\ test'[q].id = test'[p].id => q = p
    BY <1>1, <2>2, <2>3, <2>4 DEF Runs, Running
  <2>. QED
    BY <2>1, <2>5, <2>6 DEF Runs
<1>7. Noted'
  <2>1. [id |-> n + 1, from |-> now, to |-> now] = WindowOf(new)
    BY DEF WindowOf
  <2>2. windows' \subseteq {WindowOf(t) : t \in tests'}
    BY <1>1, <1>2, <2>1 DEF Noted, Kept
  <2>3. ASSUME NEW t \in tests
        PROVE  WindowOf(t) \in windows' \/ (t.ended # -1 /\ t.ended < now - Retention)
    <3>1. CASE t.ended = -1
      <4>1. WindowOf(t) \in windows /\ WindowOf(t).to = t.began
        BY <1>1, <3>1 DEF Noted, WindowOf
      <4>2. t.began >= now - Retention
        BY <1>1, <3>1, TestFacts DEF Numbered
      <4>. QED
        BY <1>2, <4>1, <4>2 DEF Kept
    <3>2. CASE t.ended # -1
      <4>1. WindowOf(t).to = t.ended /\ t.ended \in Nat
        BY <1>1, <3>2 DEF Numbered, WindowOf
      <4>. QED
        BY <1>1, <1>2, <3>2, <4>1, TestFacts DEF Noted, Kept, Numbered
    <3>. QED
      BY <3>1, <3>2
  <2>. QED
    BY <1>2, <2>1, <2>2, <2>3 DEF Noted
<1>8. Measurements'
  BY <1>1, <1>2 DEF Measurements
<1>. QED
  BY <1>5, <1>6, <1>7, <1>8 DEF TestInv

LEMMA TestInvDownload ==
  ASSUME TestInv, NEW r \in Runner, Download(r)
  PROVE  TestInv'
<1>1. PICK down \in Measured :
        test' = [test EXCEPT ![r] = [at |-> "upload", id |-> test[r].id, down |-> down]]
  BY DEF Download
<1>2. Runs /\ test[r].at = "download"
  BY DEF TestInv, Download
<1>3. test[r] \in [at : {"download"}, id : Nat]
  BY <1>2 DEF Runs, RunState, Off
<1>4. test' \in [Runner -> RunState]
  BY <1>1, <1>2, <1>3 DEF Runs, RunState
<1>5. \A q \in Runner : test'[q].id = test[q].id /\ (Running(q)' <=> Running(q))
  <2>1. test'[r].id = test[r].id /\ test'[r].at = "upload"
    BY <1>1, <1>2 DEF Runs
  <2>2. \A q \in Runner : q # r => test'[q] = test[q]
    BY <1>1, <1>2 DEF Runs
  <2>. QED
    BY <1>2, <2>1, <2>2 DEF Running
<1>6. now' = now /\ windows' = windows /\ stored' = stored /\ tests' = tests
  BY DEF Download
<1>7. Runs'
  BY <1>2, <1>4, <1>5, <1>6 DEF Runs
<1>. QED
  BY <1>6, <1>7 DEF TestInv, Numbered, Noted, Measurements

LEMMA TestInvUpload ==
  ASSUME TestInv, NEW r \in Runner, Upload(r)
  PROVE  TestInv'
<1>. DEFINE id == test[r].id
            down == test[r].down
<1>1. Numbered /\ Runs /\ Noted /\ Measurements
  BY DEF TestInv
<1>2. PICK up \in Measured :
        /\ windows' = {IF w.id = id THEN [w EXCEPT !.to = now] ELSE w : w \in windows}
        /\ stored' = IF ErrOf(down, up) THEN stored
                     ELSE stored \cup {[id |-> id, down |-> down.rate, up |-> up.rate,
                                        loaded |-> down.loaded \/ up.loaded]}
        /\ tests' = {IF t.id = id THEN [t EXCEPT !.ended = now] ELSE t : t \in tests}
  BY DEF Upload, Closed
<1>3. /\ test[r].at = "upload" /\ Running(r) /\ now' = now
      /\ test' = [test EXCEPT ![r] = Off]
  BY DEF Upload, Running
<1>4. PICK t0 \in tests : t0.id = id /\ t0.ended = -1
  BY <1>1, <1>3 DEF Runs
<1>. DEFINE t1 == [t0 EXCEPT !.ended = now]
<1>5. /\ t0 \in [id : 1..Cardinality(tests), began : Nat, ended : Nat \cup {-1}]
      /\ t0.began =< now /\ now \in Nat
  BY <1>1 DEF Numbered
<1>6. t1.id = id /\ t1.began = t0.began /\ t1.ended = now
  BY <1>4, <1>5
<1>7. \A t \in tests : t # t0 => t.id # id
  BY <1>1, <1>4 DEF Numbered
<1>8. tests' = (tests \ {t0}) \cup {t1}
  BY <1>2, <1>4, <1>7
<1>9. IsFiniteSet(tests') /\ Cardinality(tests') = Cardinality(tests)
  <2>1. IsFiniteSet(tests \ {t0}) /\ Cardinality(tests \ {t0}) = Cardinality(tests) - 1
    BY <1>1, FS_RemoveElement DEF Numbered
  <2>2. t1 \notin tests \ {t0}
    BY <1>6, <1>7
  <2>3. Cardinality(tests) \in Nat
    BY <1>1, FS_CardinalityType DEF Numbered
  <2>. DEFINE rest == tests \ {t0}
  <2>4. IsFiniteSet(rest) /\ Cardinality(rest) = Cardinality(tests) - 1 /\ t1 \notin rest
    BY <2>1, <2>2
  <2>. HIDE DEF t1, rest
  <2>5. IsFiniteSet(rest \cup {t1}) /\ Cardinality(rest \cup {t1}) = Cardinality(rest) + 1
    BY <2>4, FS_AddElement
  <2>. QED
    BY <1>8, <2>3, <2>4, <2>5 DEF rest
<1>10. Numbered'
  <2>1. t1 \in [id : 1..Cardinality(tests), began : Nat, ended : Nat \cup {-1}]
    BY <1>5
  <2>. HIDE DEF t1
  <2>2. tests' \subseteq [id : 1..Cardinality(tests'), began : Nat, ended : Nat \cup {-1}]
    BY <1>1, <1>8, <1>9, <2>1 DEF Numbered
  <2>3. \A t \in tests' : /\ t.began =< now
                          /\ t.ended # -1 => t.began =< t.ended /\ t.ended =< now
                          /\ t.ended = -1 => now =< t.began + TestTime
    BY <1>1, <1>5, <1>6, <1>8 DEF Numbered
  <2>4. \A t, u \in tests' : t.id = u.id => t = u
    BY <1>1, <1>6, <1>7, <1>8 DEF Numbered
  <2>. QED
    BY <1>3, <1>5, <1>9, <2>2, <2>3, <2>4 DEF Numbered
<1>11. Runs'
  <2>1. test' \in [Runner -> RunState] /\ test'[r].at = "off"
    BY <1>1, <1>3 DEF Runs, RunState, Off
  <2>2. \A q \in Runner : q # r => test'[q] = test[q]
    BY <1>1, <1>3 DEF Runs
  <2>3. ASSUME NEW q \in Runner, Running(q)'
        PROVE  /\ q # r /\ test'[q] = test[q] /\ Running(q)
               /\ \E t \in tests' : t.id = test'[q].id /\ t.ended = -1
    <3>1. q # r /\ test'[q] = test[q] /\ Running(q)
      BY <2>1, <2>2, <2>3 DEF Running
    <3>2. PICK t \in tests : t.id = test[q].id /\ t.ended = -1
      BY <1>1, <3>1 DEF Runs
    <3>3. test[q].id # id
      BY <1>1, <1>3, <3>1 DEF Runs
    <3>. QED
      BY <1>4, <1>8, <3>1, <3>2, <3>3
  <2>. QED
    BY <1>1, <2>1, <2>3 DEF Runs
<1>12. Noted'
  <2>1. [WindowOf(t0) EXCEPT !.to = now] = WindowOf(t1)
    BY <1>4, <1>5, <1>6 DEF WindowOf
  <2>2. WindowOf(t0) \in windows
    BY <1>1, <1>4 DEF Noted
  <2>3. \A t : WindowOf(t).id = t.id
    BY DEF WindowOf
  <2>. HIDE DEF t1
  <2>4. \A w \in windows : w = WindowOf(t0) \/ w.id # id
    BY <1>1, <1>7, <2>3 DEF Noted
  <2>5. WindowOf(t0).id = id
    BY <1>4, <2>3
  <2>6. windows' = (windows \ {WindowOf(t0)}) \cup {WindowOf(t1)}
    BY <1>2, <2>1, <2>2, <2>4, <2>5
  <2>7. windows' \subseteq {WindowOf(t) : t \in tests'}
    <3>1. \A w \in windows \ {WindowOf(t0)} : \E t \in tests \ {t0} : w = WindowOf(t)
      BY <1>1 DEF Noted
    <3>. QED
      BY <1>8, <2>6, <3>1
  <2>8. ASSUME NEW t \in tests'
        PROVE  WindowOf(t) \in windows' \/ (t.ended # -1 /\ t.ended < now - Retention)
    <3>1. CASE t = t1
      BY <2>6, <3>1
    <3>2. CASE t \in tests \ {t0}
      <4>1. WindowOf(t) # WindowOf(t0)
        BY <1>7, <2>3, <2>5, <3>2
      <4>. QED
        BY <1>1, <2>6, <3>2, <4>1 DEF Noted
    <3>. QED
      BY <1>8, <3>1, <3>2
  <2>. QED
    BY <1>3, <2>7, <2>8 DEF Noted
<1>13. Measurements'
  <2>1. ASSUME NEW s \in stored
        PROVE  /\ \E t \in tests' : t.id = s.id /\ t.ended >= 0
               /\ s.down \/ s.up => s.loaded
    <3>1. PICK t \in tests : t.id = s.id /\ t.ended >= 0
      BY <1>1 DEF Measurements
    <3>2. t # t0
      BY <1>4, <3>1
    <3>. QED
      BY <1>1, <1>8, <3>1, <3>2 DEF Measurements
  <2>2. ~ErrOf(down, up) => (down.rate \/ up.rate => down.loaded \/ up.loaded)
    BY DEF ErrOf, Unreliable
  <2>3. t1 \in tests' /\ t1.id = id /\ t1.ended >= 0
    BY <1>5, <1>6, <1>8
  <2>. DEFINE result == [id |-> id, down |-> down.rate, up |-> up.rate,
                         loaded |-> down.loaded \/ up.loaded]
  <2>4. result.id = id /\ (~ErrOf(down, up) => (result.down \/ result.up => result.loaded))
    BY <2>2
  <2>5. stored' = IF ErrOf(down, up) THEN stored ELSE stored \cup {result}
    BY <1>2
  <2>. HIDE DEF id, down, t1, result
  <2>6. ASSUME NEW s \in stored'
        PROVE  /\ \E t \in tests' : t.id = s.id /\ t.ended >= 0
               /\ s.down \/ s.up => s.loaded
    <3>1. CASE s \in stored
      BY <2>1, <3>1
    <3>2. CASE s \notin stored
      <4>1. s = result /\ ~ErrOf(down, up)
        BY <2>5, <2>6, <3>2
      <4>. QED
        BY <2>3, <2>4, <4>1
    <3>. QED
      BY <3>1, <3>2
  <2>. QED
    BY <2>6 DEF Measurements
<1>. QED
  BY <1>10, <1>11, <1>12, <1>13 DEF TestInv

\* Time does not pass a test by.
LEMMA TestInvPass ==
  ASSUME TestInv, InTime, now' = now + 1, UNCHANGED <<test, windows, stored, tests>>
  PROVE  TestInv'
<1>1. Numbered'
  BY TestFacts DEF TestInv, Numbered, InTime
<1>2. Noted'
  BY TestFacts DEF TestInv, Numbered, Noted
<1>. QED
  BY <1>1, <1>2 DEF TestInv, Runs, Running, Measurements

\* Every drawn cell is of a time whose tests have kept their windows.
LEMMA SnappedFacts ==
  ASSUME now \in Nat, NEW z \in Zoom
  PROVE  /\ Snapped(z).bucket = z /\ Snapped(z).from \in Int /\ Snapped(z).to \in Int
         /\ \E k \in Nat : Snapped(z).to = Snapped(z).from + k * z
         /\ Snapped(z).from > now - Span
<1>. DEFINE to == now \div z + 1
            k == Span \div z
<1>1. z \in Nat \ {0} /\ Span \in Nat
  BY HeatAssumption
<1>2. /\ to \in Int /\ k \in Nat /\ now < to * z
      /\ k * z =< Span
  BY <1>1
<1>3. /\ Snapped(z).bucket = z /\ Snapped(z).from = (to - k) * z /\ Snapped(z).to = to * z
  BY DEF Snapped, Window
<1>. HIDE DEF to, k
<1>4. (to - k) * z = to * z - k * z
  BY <1>1, <1>2
<1>. QED
  BY <1>1, <1>2, <1>3, <1>4

LEMMA ToldFromInv == TestInv => TestsTold
<1>. SUFFICES ASSUME TestInv PROVE TestsTold
  OBVIOUS
<1>1. Numbered /\ Noted /\ Measurements
  BY DEF TestInv
<1>2. ASSUME NEW t \in tests, NEW z \in Zoom, t.ended >= 0, NEW c \in Cells(Snapped(z))
      PROVE  LET lo == Snapped(z).from + c * z
             IN  t.id \in Notes(Snapped(z), c)
                   <=> (t.began..t.ended) \cap (lo..(lo + z - 1)) # {}
  <2>. DEFINE lo == Snapped(z).from + c * z
  <2>1. /\ z \in Nat \ {0} /\ Snapped(z).bucket = z /\ Snapped(z).from \in Int
        /\ Snapped(z).from > now - Span
    BY <1>1, SnappedFacts, HeatAssumption DEF Numbered
  <2>2. c \in Nat
    BY <2>1, SnappedFacts, <1>1 DEF Cells, Numbered
  <2>3. lo \in Int /\ lo > now - Span
    <3>1. c * z \in Nat
      BY <2>1, <2>2
    <3>. QED
      BY <1>1, <2>1, <3>1, TestFacts DEF Numbered
  <2>4. Notes(Snapped(z), c) = {n.id : n \in {n \in windows : n.from < lo + z /\ n.to >= lo}}
    BY <2>1 DEF Notes
  <2>. HIDE DEF lo
  <2>5. /\ t.began \in Nat /\ t.ended \in Nat /\ t.began =< t.ended /\ t.ended # -1
    BY <1>1, <1>2 DEF Numbered
  <2>6. (t.began..t.ended) \cap (lo..(lo + z - 1)) # {} <=> t.began < lo + z /\ t.ended >= lo
    <3>1. t.began < lo + z /\ t.ended >= lo
          => IF t.began >= lo THEN t.began \in (t.began..t.ended) \cap (lo..(lo + z - 1))
             ELSE lo \in (t.began..t.ended) \cap (lo..(lo + z - 1))
      BY <2>1, <2>3, <2>5
    <3>2. \A x \in (t.began..t.ended) \cap (lo..(lo + z - 1)) : t.began < lo + z /\ t.ended >= lo
      BY <2>1, <2>3, <2>5
    <3>. QED
      BY <3>1, <3>2
  <2>7. /\ WindowOf(t).id = t.id /\ WindowOf(t).from = t.began /\ WindowOf(t).to = t.ended
    BY <2>5 DEF WindowOf
  <2>8. \A n \in windows : n.id = t.id => n = WindowOf(t)
    <3>. SUFFICES ASSUME NEW n \in windows, n.id = t.id PROVE n = WindowOf(t)
      OBVIOUS
    <3>1. PICK u \in tests : n = WindowOf(u)
      BY <1>1 DEF Noted
    <3>2. u.id = t.id
      BY <3>1 DEF WindowOf
    <3>. QED
      BY <1>1, <3>1, <3>2 DEF Numbered
  <2>9. t.id \in Notes(Snapped(z), c) <=> WindowOf(t) \in windows /\ t.began < lo + z /\ t.ended >= lo
    BY <2>4, <2>7, <2>8
  <2>10. WindowOf(t) \in windows \/ t.ended < lo
    BY <1>1, <2>3, <2>5, TestFacts DEF Noted, Numbered
  <2>. QED
    BY <2>3, <2>5, <2>6, <2>9, <2>10 DEF lo
<1>. QED
  BY <1>1, <1>2 DEF TestsTold, Measurements

-----------------------------------------------------------------------------
(* Division towards zero, and the worst of values from -1 to 1.              *)

LEMMA QuotFacts ==
  ASSUME NEW x \in Int, NEW b \in Nat \ {0}
  PROVE  /\ Quot(x, b) \in Int
         /\ x >= 0 => Quot(x, b) >= 0 /\ Quot(x, b) * b =< x /\ x < Quot(x, b) * b + b
         /\ x < 0 => Quot(x, b) =< 0 /\ x =< Quot(x, b) * b /\ Quot(x, b) * b < x + b
<1>1. CASE x >= 0
  BY <1>1 DEF Quot
<1>2. CASE x < 0
  <2>. DEFINE q == (-x) \div b
  <2>1. q \in Int /\ q >= 0 /\ q * b =< -x /\ -x < q * b + b
    BY <1>2
  <2>2. Quot(x, b) = -q
    BY <1>2 DEF Quot
  <2>. HIDE DEF q
  <2>3. (-q) * b = -(q * b)
    BY <2>1
  <2>. QED
    BY <1>2, <2>1, <2>2, <2>3
<1>. QED
  BY <1>1, <1>2

LEMMA TimesLess ==
  ASSUME NEW x \in Int, NEW y \in Int, NEW b \in Nat \ {0}, x * b < y * b
  PROVE  x < y
  OBVIOUS

LEMMA TimesMono ==
  ASSUME NEW x \in Int, NEW y \in Int, NEW b \in Nat \ {0}, x =< y
  PROVE  x * b =< y * b
  OBVIOUS

\* What is not later is not in a later bucket.
LEMMA QuotMono ==
  ASSUME NEW x \in Int, NEW y \in Int, NEW b \in Nat \ {0}, x =< y
  PROVE  Quot(x, b) =< Quot(y, b)
<1>. DEFINE u == Quot(x, b)
            v == Quot(y, b)
<1>1. /\ u \in Int /\ v \in Int
      /\ x >= 0 => u >= 0 /\ u * b =< x /\ x < u * b + b
      /\ x < 0 => u =< 0 /\ x =< u * b /\ u * b < x + b
      /\ y >= 0 => v >= 0 /\ v * b =< y /\ y < v * b + b
      /\ y < 0 => v =< 0 /\ y =< v * b /\ v * b < y + b
  BY QuotFacts
<1>. HIDE DEF u, v
<1>2. CASE x < 0 /\ y >= 0
  BY <1>1, <1>2 DEF u, v
<1>3. CASE (x >= 0 /\ y >= 0) \/ (x < 0 /\ y < 0)
  <2>1. u * b < v * b + b
    BY <1>1, <1>3
  <2>2. u * b < (v + 1) * b
    BY <1>1, <2>1
  <2>3. u < v + 1
    BY <1>1, <2>2, TimesLess
  <2>. QED
    BY <1>1, <2>3 DEF u, v
<1>. QED
  BY <1>1, <1>2, <1>3 DEF u, v

\* What is not in a later bucket is later by less than two buckets.
LEMMA QuotClose ==
  ASSUME NEW x \in Int, NEW y \in Int, NEW b \in Nat \ {0}, Quot(x, b) =< Quot(y, b)
  PROVE  x =< y + 2 * b - 2
<1>. DEFINE u == Quot(x, b)
            v == Quot(y, b)
<1>1. /\ u \in Int /\ v \in Int /\ u =< v
      /\ x >= 0 => u >= 0 /\ u * b =< x /\ x < u * b + b
      /\ x < 0 => u =< 0 /\ x =< u * b /\ u * b < x + b
      /\ y >= 0 => v >= 0 /\ v * b =< y /\ y < v * b + b
      /\ y < 0 => v =< 0 /\ y =< v * b /\ v * b < y + b
  BY QuotFacts
<1>. HIDE DEF u, v
<1>2. u * b =< v * b
  BY <1>1, TimesMono
<1>3. u * b \in Int /\ v * b \in Int
  BY <1>1
<1>4. CASE x >= 0 /\ y < 0
  <2>1. u = 0 /\ v = 0
    BY <1>1, <1>4
  <2>2. u * b = 0 /\ v * b = 0
    BY <2>1
  <2>. QED
    BY <1>1, <1>4, <2>2
<1>5. CASE ~(x >= 0 /\ y < 0)
  BY <1>1, <1>2, <1>3, <1>5
<1>. QED
  BY <1>4, <1>5

LEMMA WorstFacts ==
  ASSUME NEW S \in SUBSET {-1, 0, 1}, -1 \in S
  PROVE  Max(S) \in {-1, 0, 1} /\ (Max(S) = 1 <=> 1 \in S)
<1>1. \E m \in S : \A x \in S : x =< m
  <2>1. CASE 1 \in S
    BY <2>1
  <2>2. CASE 1 \notin S /\ 0 \in S
    BY <2>2
  <2>3. CASE 1 \notin S /\ 0 \notin S
    BY <2>3
  <2>. QED
    BY <2>1, <2>2, <2>3
<1>2. Max(S) \in S /\ \A x \in S : x =< Max(S)
  BY <1>1 DEF Max
<1>. DEFINE m == Max(S)
<1>3. m \in {-1, 0, 1} /\ m \in S /\ \A x \in S : x =< m
  BY <1>2
<1>. HIDE DEF m
<1>4. m = 1 <=> 1 \in S
  BY <1>3
<1>. QED
  BY <1>3, <1>4 DEF m

-----------------------------------------------------------------------------
(* Rows of buckets.                                                          *)

\* A window is a whole number of buckets long.
Grid(w) == /\ w = Window(w.from, w.to, w.bucket)
           /\ w.from \in Int /\ w.to \in Int /\ w.bucket \in Nat \ {0}
           /\ \E k \in Nat : w.to = w.from + k * w.bucket

Kind == {"none", "clean", "lost", "down", "up"}
History(h) == \E n \in Nat : h \in [0..(n - 1) -> Kind]

HeatRow(h, w) == [c \in Cells(w) |-> Collapsed({LossIn(h, w, c), FlapIn(h, w, c)})]

\* What a peer had logged by then.
Until(h, n) == [t \in {t \in DOMAIN h : t < n} |-> h[t]]

LEMMA GridFacts ==
  ASSUME NEW w, NEW k \in Nat, Grid(w), w.to = w.from + k * w.bucket
  PROVE  Cells(w) = 0..(k - 1) /\ Cardinality(Cells(w)) = k
<1>. DEFINE b == w.bucket
<1>1. b \in Nat \ {0} /\ w.to - w.from = k * b
  BY DEF Grid
<1>2. (k * b + b - 1) \div b = k
  <2>. DEFINE q == (k * b + b - 1) \div b
  <2>1. k * b \in Nat
    BY <1>1
  <2>2. q \in Int /\ q * b =< k * b + b - 1 /\ k * b + b - 1 < q * b + b
    BY <1>1, <2>1
  <2>. HIDE DEF q, b
  <2>3. q * b < (k + 1) * b /\ k * b < (q + 1) * b
    BY <1>1, <2>1, <2>2
  <2>4. q < k + 1 /\ k < q + 1
    BY <1>1, <2>2, <2>3, TimesLess
  <2>. QED
    BY <2>2, <2>4 DEF q
<1>3. Cells(w) = 0..(k - 1)
  BY <1>1, <1>2 DEF Cells, Grid
<1>4. Cardinality(0..(k - 1)) = k
  BY FS_Interval
<1>. QED
  BY <1>3, <1>4

LEMMA RowFacts ==
  ASSUME NEW h, NEW w, NEW c \in Cells(w)
  PROVE  /\ HeatRow(h, w)[c] \in {-1, 0, 1}
         /\ HeatRow(h, w)[c] = 1 <=>
              \/ \E t \in Lost(h) : /\ w.from =< t /\ t < w.to
                                    /\ (t - w.from) \div w.bucket = c
              \/ \E f \in Flaps(h) : /\ f[2] < w.to
                                     /\ Quot(f[1] - w.from, w.bucket) =< c
                                     /\ c =< Quot(f[2] - w.from, w.bucket)
<1>. DEFINE S == {LossIn(h, w, c), FlapIn(h, w, c)} \cup {-1}
<1>1. HeatRow(h, w)[c] = Max(S)
  BY DEF HeatRow, Collapsed
<1>2. LossIn(h, w, c) \in {-1, 0, 1} /\ FlapIn(h, w, c) \in {-1, 1}
  BY DEF LossIn, FlapIn
<1>3. LossIn(h, w, c) = 1 <=> \E t \in Lost(h) : /\ w.from =< t /\ t < w.to
                                                 /\ (t - w.from) \div w.bucket = c
  BY DEF LossIn, Lost
<1>4. FlapIn(h, w, c) = 1 <=> \E f \in Flaps(h) : /\ f[2] < w.to
                                     /\ Quot(f[1] - w.from, w.bucket) =< c
                                     /\ c =< Quot(f[2] - w.from, w.bucket)
  BY DEF FlapIn
<1>5. Max(S) \in {-1, 0, 1} /\ (Max(S) = 1 <=> 1 \in S)
  BY <1>2, WorstFacts
<1>. QED
  BY <1>1, <1>3, <1>4, <1>5

LEMMA DrawnFacts ==
  ASSUME NEW h, NEW w, NEW v, NEW c \in Int, Grid(w), v.from \in Int, v.bucket \in Int,
         NEW row, row = HeatRow(h, w),
         NEW lo, lo = v.from + c * v.bucket,
         NEW first, first = Quot(lo - w.from, w.bucket),
         NEW last, last = Quot(lo + v.bucket - 1 - w.from, w.bucket)
  PROVE  Resampled(row, w.from, w.bucket, v, c) = 1 <=>
           \E j \in Cells(w) : first =< j /\ j =< last /\ row[j] = 1
<1>. DEFINE S == {-1} \cup {row[j] : j \in (first..last) \cap DOMAIN row}
<1>1. Resampled(row, w.from, w.bucket, v, c) = Max(S)
  BY DEF Resampled
<1>2. DOMAIN row = Cells(w) /\ Cells(w) \subseteq Nat
  BY DEF HeatRow, Cells
<1>3. \A j \in Cells(w) : row[j] \in {-1, 0, 1}
  BY RowFacts
<1>4. first \in Int /\ last \in Int
  <2>1. lo \in Int
    <3>1. c * v.bucket \in Int
      OBVIOUS
    <3>. QED
      BY <3>1
  <2>2. lo - w.from \in Int /\ lo + v.bucket - 1 - w.from \in Int /\ w.bucket \in Nat \ {0}
    BY <2>1 DEF Grid
  <2>. QED
    BY <2>2, QuotFacts
<1>5. \A j \in Int : j \in first..last <=> first =< j /\ j =< last
  BY <1>4
<1>6. S \subseteq {-1, 0, 1} /\ -1 \in S
  BY <1>2, <1>3
<1>7. Max(S) = 1 <=> 1 \in S
  BY <1>6, WorstFacts
<1>8. 1 \in S <=> \E j \in Cells(w) : first =< j /\ j =< last /\ row[j] = 1
  BY <1>2, <1>5
<1>. HIDE DEF S
<1>. QED
  BY <1>1, <1>7, <1>8

\* A row of one window drawn on the grid of another: nothing is lost, and nothing
\* shown that is two buckets away.
LEMMA RowHonest ==
  ASSUME NEW h, History(h), NEW w, NEW v, Grid(w), Grid(v), NEW c \in Cells(v)
  PROVE  LET Bad == Lost(h) \cup UNION {f[1]..f[2] : f \in {f \in Flaps(h) : f[2] < w.to}}
             lo == v.from + c * v.bucket
             cell == lo..(lo + v.bucket - 1)
             far == 2 * w.bucket - 2
             drawn == Resampled(HeatRow(h, w), w.from, w.bucket, v, c)
         IN  /\ Bad \cap cell \cap (w.from..(w.to - 1)) # {} => drawn = 1
             /\ drawn = 1 => Bad \cap ((lo - far)..(lo + v.bucket - 1 + far)) # {}
<1>. DEFINE Bad == Lost(h) \cup UNION {f[1]..f[2] : f \in {f \in Flaps(h) : f[2] < w.to}}
            lo == v.from + c * v.bucket
            hi == lo + v.bucket - 1
            far == 2 * w.bucket - 2
            row == HeatRow(h, w)
            b == w.bucket
            drawn == Resampled(row, w.from, b, v, c)
<1>1. /\ w.from \in Int /\ w.to \in Int /\ b \in Nat \ {0}
      /\ v.from \in Int /\ v.bucket \in Nat \ {0} /\ c \in Int
  BY DEF Grid, Cells
<1>2. lo \in Int /\ hi \in Int /\ far \in Nat /\ lo =< hi
  <2>1. c * v.bucket \in Int
    BY <1>1
  <2>. QED
    BY <1>1, <2>1
<1>3. PICK k \in Nat : w.to = w.from + k * b
  BY DEF Grid
<1>4. Cells(w) = 0..(k - 1)
  BY <1>3, GridFacts
<1>5. Lost(h) \subseteq Nat /\ \A f \in Flaps(h) : f[1] \in Nat /\ f[2] \in Nat /\ f[1] < f[2]
  <2>1. DOMAIN h \subseteq Nat
    BY DEF History
  <2>2. Lost(h) \subseteq Nat
    BY <2>1 DEF Lost
  <2>3. \A f \in Flaps(h) : f[1] \in DOMAIN h /\ f[2] \in DOMAIN h /\ f[1] < f[2]
    BY DEF Flaps
  <2>. QED
    BY <2>1, <2>2, <2>3
<1>6. drawn = 1 <=> \E j \in Cells(w) : /\ Quot(lo - w.from, b) =< j
                                        /\ j =< Quot(hi - w.from, b)
                                        /\ row[j] = 1
  <2>. DEFINE first == Quot(lo - w.from, b)
              last == Quot(hi - w.from, b)
  <2>1. hi - w.from = lo + v.bucket - 1 - w.from
    BY <1>1, <1>2
  <2>2. row = HeatRow(h, w) /\ lo = v.from + c * v.bucket
    OBVIOUS
  <2>3. /\ first = Quot(lo - w.from, w.bucket)
        /\ last = Quot(lo + v.bucket - 1 - w.from, w.bucket)
    BY <2>1
  <2>4. drawn = Resampled(row, w.from, w.bucket, v, c)
    OBVIOUS
  <2>. HIDE DEF row, lo, hi, first, last, drawn
  <2>5. v.from \in Int /\ v.bucket \in Int /\ c \in Int
    BY <1>1
  <2>6. drawn = 1 <=> \E j \in Cells(w) : first =< j /\ j =< last /\ row[j] = 1
    BY <2>2, <2>3, <2>4, <2>5, DrawnFacts
  <2>. QED
    BY <2>6 DEF first, last
<1>7. \A j \in Cells(w) : row[j] = 1 <=>
         \/ \E t \in Lost(h) : w.from =< t /\ t < w.to /\ (t - w.from) \div b = j
         \/ \E f \in Flaps(h) : /\ f[2] < w.to
                                /\ Quot(f[1] - w.from, b) =< j /\ j =< Quot(f[2] - w.from, b)
  BY RowFacts
<1>. HIDE DEF lo, hi, far, row, b, drawn
<1>8. ASSUME NEW x \in Bad, lo =< x, x =< hi, w.from =< x, x < w.to
      PROVE  drawn = 1
  <2>. DEFINE j == (x - w.from) \div b
  <2>1. x \in Int
    BY <1>1, <1>5
  <2>2. Quot(x - w.from, b) = j /\ j \in Nat
    BY <1>1, <1>8, <2>1 DEF Quot
  <2>3. j \in Cells(w)
    <3>1. j * b =< x - w.from
      BY <1>1, <1>8, <2>1
    <3>2. j * b < k * b
      BY <1>1, <1>3, <1>8, <2>1, <2>2, <3>1
    <3>. HIDE DEF j
    <3>3. j < k
      BY <1>1, <2>2, <3>2, TimesLess
    <3>. QED
      BY <1>4, <2>2, <3>3
  <2>4. Quot(lo - w.from, b) =< j /\ j =< Quot(hi - w.from, b)
    BY <1>1, <1>2, <1>8, <2>1, <2>2, QuotMono
  <2>5. row[j] = 1
    <3>1. CASE x \in Lost(h)
      BY <1>7, <1>8, <2>3, <3>1
    <3>2. CASE x \notin Lost(h)
      <4>1. PICK f \in Flaps(h) : f[2] < w.to /\ x \in f[1]..f[2]
        BY <3>2
      <4>2. Quot(f[1] - w.from, b) =< j /\ j =< Quot(f[2] - w.from, b)
        BY <1>1, <1>5, <2>1, <2>2, <4>1, QuotMono
      <4>. QED
        BY <1>7, <2>3, <4>1, <4>2
    <3>. QED
      BY <3>1, <3>2
  <2>. HIDE DEF j
  <2>. QED
    BY <1>6, <2>3, <2>4, <2>5
<1>9. ASSUME drawn = 1
      PROVE  \E x \in Bad : lo - far =< x /\ x =< hi + far
  <2>1. PICK j \in Cells(w) : /\ Quot(lo - w.from, b) =< j /\ j =< Quot(hi - w.from, b)
                              /\ row[j] = 1
    BY <1>6, <1>9
  <2>2. j \in Int
    BY <1>4
  <2>3. CASE \E t \in Lost(h) : w.from =< t /\ t < w.to /\ (t - w.from) \div b = j
    <3>1. PICK t \in Lost(h) : w.from =< t /\ t < w.to /\ (t - w.from) \div b = j
      BY <2>3
    <3>2. t \in Int /\ Quot(t - w.from, b) = j
      BY <1>1, <1>5, <3>1 DEF Quot
    <3>3. lo - w.from =< (t - w.from) + far /\ t - w.from =< (hi - w.from) + far
      BY <1>1, <1>2, <2>1, <3>2, QuotClose DEF far, b
    <3>. QED
      BY <1>1, <1>2, <3>2, <3>3
  <2>4. CASE \E f \in Flaps(h) : /\ f[2] < w.to
                                /\ Quot(f[1] - w.from, b) =< j /\ j =< Quot(f[2] - w.from, b)
    <3>1. PICK f \in Flaps(h) : /\ f[2] < w.to
                                /\ Quot(f[1] - w.from, b) =< j /\ j =< Quot(f[2] - w.from, b)
      BY <2>4
    <3>2. f[1] \in Int /\ f[2] \in Int /\ f[1] < f[2]
      BY <1>5
    <3>3. /\ Quot(lo - w.from, b) =< Quot(f[2] - w.from, b)
          /\ Quot(f[1] - w.from, b) =< Quot(hi - w.from, b)
      <4>1. Quot(lo - w.from, b) \in Int /\ Quot(hi - w.from, b) \in Int
            /\ Quot(f[1] - w.from, b) \in Int /\ Quot(f[2] - w.from, b) \in Int
        <5>1. /\ lo - w.from \in Int /\ hi - w.from \in Int
              /\ f[1] - w.from \in Int /\ f[2] - w.from \in Int
          BY <1>1, <1>2, <3>2
        <5>. QED
          BY <1>1, <5>1, QuotFacts
      <4>. QED
        BY <2>1, <2>2, <3>1, <4>1
    <3>4. lo - w.from =< (f[2] - w.from) + far /\ f[1] - w.from =< (hi - w.from) + far
      BY <1>1, <1>2, <3>2, <3>3, QuotClose DEF far, b
    <3>5. f[1]..f[2] \subseteq Bad
      BY <3>1
    <3>. HIDE DEF Bad
    <3>6. CASE f[1] >= lo - far
      BY <1>1, <1>2, <3>2, <3>4, <3>5, <3>6
    <3>7. CASE f[1] < lo - far
      <4>1. lo - far \in f[1]..f[2]
        BY <1>1, <1>2, <3>2, <3>4, <3>7
      <4>. QED
        BY <1>1, <1>2, <3>5, <4>1
    <3>. QED
      BY <1>2, <3>2, <3>6, <3>7
  <2>. QED
    BY <1>7, <2>1, <2>3, <2>4
<1>10. Bad \subseteq Int
  BY <1>1, <1>5
<1>. HIDE DEF Bad
<1>11. Bad \cap (lo..hi) \cap (w.from..(w.to - 1)) # {} => drawn = 1
  BY <1>1, <1>2, <1>8, <1>10
<1>12. drawn = 1 => Bad \cap ((lo - far)..(hi + far)) # {}
  BY <1>1, <1>2, <1>9, <1>10
<1>. QED
  BY <1>11, <1>12 DEF Bad, lo, hi, far, row, b, drawn

-----------------------------------------------------------------------------
(* The loop.                                                                 *)

\* What peers answered: rows of what they had logged by then.
Answers(rows, w) ==
  /\ DOMAIN rows \subseteq Peer
  /\ \A p \in DOMAIN rows : /\ rows[p].asOf \in 0..now
                            /\ rows[p].row = HeatRow(Until(logged[p], rows[p].asOf), w)

CacheTold ==
  DOMAIN cache.rows = {} \/ \E to \in Int :
    LET w == Window(cache.from, to, cache.bucket) IN Grid(w) /\ Answers(cache.rows, w)

HeatInv ==
  /\ now \in Nat
  /\ logged \in [Peer -> [0..(now - 1) -> Kind]]
  /\ want = NoWindow \/ Grid(want)
  /\ loop = [at |-> loop.at, window |-> loop.window, left |-> loop.left, rows |-> loop.rows]
  /\ loop.at = "pull" => Grid(loop.window) /\ Answers(loop.rows, loop.window)
  /\ CacheTold

\* What was logged by an earlier time stays so.
LEMMA UntilKept ==
  ASSUME NEW m \in Nat, NEW n \in 0..m, NEW h \in [0..(m - 1) -> Kind],
         NEW g \in [0..m -> Kind], \A t \in 0..(m - 1) : g[t] = h[t]
  PROVE  Until(g, n) = Until(h, n)
<1>1. {t \in DOMAIN g : t < n} = 0..(n - 1) /\ {t \in DOMAIN h : t < n} = 0..(n - 1)
  OBVIOUS
<1>2. \A t \in 0..(n - 1) : g[t] = h[t]
  OBVIOUS
<1>. QED
  BY <1>1, <1>2 DEF Until

LEMMA UntilFacts ==
  ASSUME NEW m \in Nat, NEW n \in 0..m, NEW h \in [0..(m - 1) -> Kind]
  PROVE  Until(h, n) \in [0..(n - 1) -> Kind] /\ Until(h, m) = h
<1>1. {t \in DOMAIN h : t < n} = 0..(n - 1) /\ {t \in DOMAIN h : t < m} = 0..(m - 1)
  OBVIOUS
<1>. QED
  BY <1>1 DEF Until

LEMMA AnswersKept ==
  ASSUME HeatInv, Pass, NEW rows, NEW w, Answers(rows, w)
  PROVE  Answers(rows, w)'
<1>. SUFFICES ASSUME NEW p \in DOMAIN rows
              PROVE  /\ rows[p].asOf \in 0..now'
                     /\ Until(logged'[p], rows[p].asOf) = Until(logged[p], rows[p].asOf)
  BY DEF Answers
<1>1. p \in Peer /\ rows[p].asOf \in 0..now /\ now \in Nat /\ now' = now + 1
  BY DEF Answers, HeatInv, Pass
<1>2. PICK e \in [Peer -> Kind] :
        logged' = [q \in Peer |-> [t \in 0..now |-> IF t = now THEN e[q] ELSE logged[q][t]]]
  BY DEF Pass, Kind
<1>3. logged[p] \in [0..(now - 1) -> Kind]
  BY <1>1 DEF HeatInv
<1>4. logged'[p] \in [0..now -> Kind] /\ \A t \in 0..(now - 1) : logged'[p][t] = logged[p][t]
  BY <1>1, <1>2, <1>3
<1>5. Until(logged'[p], rows[p].asOf) = Until(logged[p], rows[p].asOf)
  BY <1>1, <1>3, <1>4, UntilKept
<1>. QED
  BY <1>1, <1>5

LEMMA HeatInvInit == Init => HeatInv
<1>. SUFFICES ASSUME Init PROVE HeatInv
  OBVIOUS
<1>1. now = 0 /\ logged = [p \in Peer |-> <<>>]
  BY DEF Init, TestInit
<1>2. <<>> \in [0..(0 - 1) -> Kind]
  <2>1. 0..(0 - 1) = {}
    OBVIOUS
  <2>. QED
    BY <2>1
<1>3. logged \in [Peer -> [0..(now - 1) -> Kind]]
  BY <1>1, <1>2
<1>. QED
  BY <1>1, <1>3 DEF Init, HeatInv, CacheTold, Waiting

LEMMA HeatInvPass ==
  ASSUME HeatInv, Pass
  PROVE  HeatInv'
<1>1. now' = now + 1 /\ UNCHANGED <<want, loop, cache>>
  BY DEF Pass
<1>2. logged' \in [Peer -> [0..now -> Kind]]
  <2>1. PICK e \in [Peer -> Kind] :
          logged' = [q \in Peer |-> [t \in 0..now |-> IF t = now THEN e[q] ELSE logged[q][t]]]
    BY DEF Pass, Kind
  <2>. QED
    BY <2>1 DEF HeatInv
<1>3. now' - 1 = now /\ now' \in Nat
  BY <1>1 DEF HeatInv
<1>4. loop.at = "pull" => Answers(loop.rows, loop.window)'
  BY <1>1, AnswersKept DEF HeatInv
<1>5. CacheTold'
  <2>1. ASSUME NEW to \in Int, Answers(cache.rows, Window(cache.from, to, cache.bucket))
        PROVE  Answers(cache.rows, Window(cache.from, to, cache.bucket))'
    BY <1>1, <2>1, AnswersKept
  <2>2. CacheTold
    BY DEF HeatInv
  <2>. QED
    BY <1>1, <2>1, <2>2 DEF CacheTold, Answers
<1>. QED
  BY <1>1, <1>2, <1>3, <1>4, <1>5 DEF HeatInv

LEMMA HeatInvDraw ==
  ASSUME HeatInv, NEW z \in Zoom, Draw(z)
  PROVE  HeatInv'
<1>1. want' = Snapped(z) /\ UNCHANGED <<now, logged, loop, cache>>
  BY DEF Draw
<1>2. Grid(Snapped(z))
  <2>1. /\ Snapped(z).bucket = z /\ Snapped(z).from \in Int /\ Snapped(z).to \in Int
        /\ \E k \in Nat : Snapped(z).to = Snapped(z).from + k * z
    BY SnappedFacts DEF HeatInv
  <2>2. z \in Nat \ {0}
    BY HeatAssumption
  <2>3. Snapped(z) = Window(Snapped(z).from, Snapped(z).to, Snapped(z).bucket)
    BY DEF Snapped, Window
  <2>. QED
    BY <2>1, <2>2, <2>3 DEF Grid
<1>. QED
  BY <1>1, <1>2 DEF HeatInv, CacheTold, Answers

LEMMA HeatInvWake ==
  ASSUME HeatInv, NEW kicked \in BOOLEAN, Wake(kicked)
  PROVE  HeatInv'
<1>1. UNCHANGED <<now, logged, want, cache>>
  BY DEF Wake, testVars
<1>2. CASE loop' = loop
  BY <1>1, <1>2 DEF HeatInv, CacheTold, Answers
<1>3. CASE loop' # loop
  <2>1. loop' = [at |-> "pull", window |-> want, left |-> Peer, rows |-> <<>>] /\ want.bucket # 0
    BY <1>3 DEF Wake
  <2>2. Grid(want)
    BY <2>1 DEF HeatInv, NoWindow, Window
  <2>3. Answers(<<>>, want)
    BY DEF Answers
  <2>. QED
    BY <1>1, <2>1, <2>2, <2>3 DEF HeatInv, CacheTold, Answers
<1>. QED
  BY <1>2, <1>3

LEMMA HeatInvPull ==
  ASSUME HeatInv, NEW p \in Peer, Pull(p)
  PROVE  HeatInv'
<1>. DEFINE rows == [q \in DOMAIN loop.rows \cup {p} |->
                       IF q = p THEN LossHeat(logged[p], loop.window) ELSE loop.rows[q]]
<1>1. UNCHANGED <<now, logged, want, cache>> /\ loop.at = "pull"
  BY DEF Pull, testVars
<1>2. PICK answers \in BOOLEAN :
        loop' = [loop EXCEPT !.left = @ \ {p}, !.rows = IF answers THEN rows ELSE @]
  BY DEF Pull
<1>3. loop' = [at |-> loop.at, window |-> loop.window, left |-> loop.left \ {p},
               rows |-> IF answers THEN rows ELSE loop.rows]
  BY <1>2 DEF HeatInv
<1>4. Grid(loop.window) /\ Answers(loop.rows, loop.window)
  BY <1>1 DEF HeatInv
<1>5. Answers(rows, loop.window)
  <2>1. /\ LossHeat(logged[p], loop.window).asOf = now
        /\ LossHeat(logged[p], loop.window).row = HeatRow(logged[p], loop.window)
    BY DEF LossHeat, HeatRow
  <2>2. Until(logged[p], now) = logged[p] /\ now \in 0..now
    BY UntilFacts DEF HeatInv
  <2>3. /\ rows[p].asOf \in 0..now
        /\ rows[p].row = HeatRow(Until(logged[p], rows[p].asOf), loop.window)
    BY <2>1, <2>2
  <2>4. ASSUME NEW q \in DOMAIN loop.rows
        PROVE  /\ rows[q].asOf \in 0..now
               /\ rows[q].row = HeatRow(Until(logged[q], rows[q].asOf), loop.window)
    BY <1>4, <2>3 DEF Answers
  <2>5. DOMAIN rows = DOMAIN loop.rows \cup {p}
    OBVIOUS
  <2>. HIDE DEF rows
  <2>. QED
    BY <1>4, <2>3, <2>4, <2>5 DEF Answers
<1>. HIDE DEF rows
<1>6. Answers(loop.rows, loop.window)'
  BY <1>1, <1>3, <1>4, <1>5 DEF Answers
<1>. QED
  BY <1>1, <1>3, <1>4, <1>6 DEF HeatInv, CacheTold, Answers

LEMMA HeatInvFile ==
  ASSUME HeatInv, File
  PROVE  HeatInv'
<1>1. /\ UNCHANGED <<now, logged, want>> /\ loop.at = "pull"
      /\ loop' = Waiting
      /\ cache' = [from |-> loop.window.from, bucket |-> loop.window.bucket, rows |-> loop.rows]
  BY DEF File, Filed, testVars
<1>2. PICK w : w = loop.window /\ Grid(w) /\ Answers(loop.rows, w)
  BY <1>1 DEF HeatInv
<1>3. /\ w.to \in Int /\ w = Window(cache'.from, w.to, cache'.bucket)
      /\ cache'.rows = loop.rows
  BY <1>1, <1>2 DEF Grid
<1>4. Answers(cache.rows, w)'
  BY <1>1, <1>2, <1>3 DEF Answers
<1>5. CacheTold'
  BY <1>2, <1>3, <1>4 DEF CacheTold, Answers
<1>6. /\ loop' = [at |-> loop'.at, window |-> loop'.window, left |-> loop'.left, rows |-> loop'.rows]
      /\ loop'.at # "pull"
  BY <1>1 DEF Waiting
<1>. QED
  BY <1>1, <1>5, <1>6 DEF HeatInv

LEMMA HeatInvNext ==
  ASSUME HeatInv, [Next]_vars
  PROVE  HeatInv'
<1>1. CASE Pass
  BY <1>1, HeatInvPass
<1>2. ASSUME NEW z \in Zoom, Draw(z) PROVE HeatInv'
  BY <1>2, HeatInvDraw
<1>3. ASSUME NEW kicked \in BOOLEAN, Wake(kicked) PROVE HeatInv'
  BY <1>3, HeatInvWake
<1>4. ASSUME NEW p \in Peer, Pull(p) PROVE HeatInv'
  BY <1>4, HeatInvPull
<1>5. CASE File
  BY <1>5, HeatInvFile
<1>6. CASE TestNext /\ UNCHANGED heatVars
  <2>1. now' = now
    BY <1>6 DEF TestNext, Begin, Download, Upload
  <2>. QED
    BY <1>6, <2>1 DEF heatVars, HeatInv, CacheTold, Answers
<1>7. CASE UNCHANGED vars
  BY <1>7 DEF vars, testVars, heatVars, HeatInv, CacheTold, Answers
<1>. QED
  BY <1>1, <1>2, <1>3, <1>4, <1>5, <1>6, <1>7 DEF Next

LEMMA TestInvNext ==
  ASSUME TestInv, [Next]_vars
  PROVE  TestInv'
<1>1. CASE Pass
  BY <1>1, TestInvPass DEF Pass
<1>2. ASSUME NEW r \in Runner, Begin(r) \/ Download(r) \/ Upload(r) PROVE TestInv'
  BY <1>2, TestInvBegin, TestInvDownload, TestInvUpload
<1>3. CASE UNCHANGED <<now, test, windows, stored, tests>>
  BY <1>3 DEF TestInv, Numbered, Runs, Running, Noted, Measurements
<1>4. ASSUME \/ \E z \in Zoom : Draw(z)
             \/ \E kicked \in BOOLEAN : Wake(kicked)
             \/ \E p \in Peer : Pull(p)
             \/ File
             \/ UNCHANGED vars
      PROVE  UNCHANGED <<now, test, windows, stored, tests>>
  BY <1>4 DEF Draw, Wake, Pull, File, vars, testVars
<1>. QED
  BY <1>1, <1>2, <1>3, <1>4 DEF Next, TestNext

LEMMA CellsFromInv == HeatInv => CellsHonest
<1>. SUFFICES ASSUME HeatInv, want.bucket > 0, NEW p \in DOMAIN cache.rows, NEW c \in Cells(want)
              PROVE  LET a == cache.rows[p]
                         h == Until(logged[p], a.asOf)
                         end == cache.from + cache.bucket * Cardinality(DOMAIN a.row)
                         Bad == Lost(h) \cup UNION {f[1]..f[2] : f \in {f \in Flaps(h) : f[2] < end}}
                         lo == want.from + c * want.bucket
                         cell == lo..(lo + want.bucket - 1)
                         far == 2 * cache.bucket - 2
                         drawn == Resampled(a.row, cache.from, cache.bucket, want, c)
                     IN  /\ Bad \cap cell \cap (cache.from..(end - 1)) # {} => drawn = 1
                         /\ drawn = 1 => Bad \cap ((lo - far)..(lo + want.bucket - 1 + far)) # {}
  BY DEF CellsHonest, Until
<1>. DEFINE a == cache.rows[p]
            h == Until(logged[p], a.asOf)
<1>1. Grid(want)
  BY DEF HeatInv, NoWindow, Window
<1>2. PICK to \in Int : /\ Grid(Window(cache.from, to, cache.bucket))
                        /\ Answers(cache.rows, Window(cache.from, to, cache.bucket))
  BY DEF HeatInv, CacheTold
<1>. DEFINE w == Window(cache.from, to, cache.bucket)
<1>3. w.from = cache.from /\ w.to = to /\ w.bucket = cache.bucket
  BY DEF Window
<1>4. p \in Peer /\ a.asOf \in 0..now /\ a.row = HeatRow(h, w)
  BY <1>2 DEF Answers
<1>5. History(h)
  <2>1. now \in Nat /\ logged[p] \in [0..(now - 1) -> Kind]
    BY <1>4 DEF HeatInv
  <2>. QED
    BY <1>4, <2>1, UntilFacts DEF History
<1>6. cache.from + cache.bucket * Cardinality(DOMAIN a.row) = w.to
  <2>. HIDE DEF w, a, h
  <2>1. PICK k \in Nat : w.to = w.from + k * w.bucket
    BY <1>2 DEF Grid, w
  <2>2. Cardinality(Cells(w)) = k
    BY <1>2, <2>1, GridFacts DEF w
  <2>3. DOMAIN a.row = Cells(w)
    BY <1>4 DEF HeatRow
  <2>4. w.bucket \in Int /\ cache.bucket * k = k * w.bucket
    BY <1>2, <1>3 DEF Grid, w
  <2>. QED
    BY <1>3, <2>1, <2>2, <2>3, <2>4
<1>. HIDE DEF a, h, w
<1>7. Grid(w)
  BY <1>2 DEF w
<1>. QED
  BY <1>1, <1>3, <1>4, <1>5, <1>6, <1>7, RowHonest DEF a, h

-----------------------------------------------------------------------------
(* The theorems.                                                             *)

\* Tests are told apart by their numbers, no two callers run the same one, and the
\* window of one is there until it is older than all that is kept (internet.go,
\* runInternet; test_events.go).
THEOREM TestsInvariant == Spec => []TestInv
<1>1. Init => TestInv
  BY TestInvInit DEF Init
<1>2. TestInv /\ [Next]_vars => TestInv'
  BY TestInvNext
<1>. QED
  BY <1>1, <1>2, PTL DEF Spec

\* TestsTold: the map notes a test in the cells of the time it ran in and in no
\* other, and what is stored of a test was measured (test_events.go, testNotes;
\* internet.go, runInternet).
THEOREM Told == Spec => []TestsTold
  BY TestsInvariant, ToldFromInv, PTL

\* Whatever is asked for while the loop pulls, its rows and the cache's are what the
\* peers had logged when they answered, on the grid they are filed under
\* (heatsync.go, heatSyncLoop).
THEOREM HeatInvariant == Spec => []HeatInv
<1>1. HeatInv /\ [Next]_vars => HeatInv'
  BY HeatInvNext
<1>. QED
  BY <1>1, HeatInvInit, PTL DEF Spec

\* CellsHonest: the cache of one window drawn on the grid of another loses no loss or
\* flap and shows none that is two cached buckets away (heatsync.go, resampleRows).
THEOREM Drawn == Spec => []CellsHonest
  BY HeatInvariant, CellsFromInv, PTL

=============================================================================
