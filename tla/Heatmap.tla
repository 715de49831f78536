------------------------------ MODULE Heatmap ------------------------------
(***************************************************************************)
(* The loss heatmap (appcore/heatsync.go, LossHeat in appcore.go, the      *)
(* buckets of store/store.go, test_events.go, the zoom in ui.go).  The UI  *)
(* asks for a window that moves with time and with the zoom; a loop pulls  *)
(* the peers' buckets for the window that was asked for last, peer after   *)
(* peer, into a cache; what is drawn is the cache put onto the grid of the *)
(* moment.  The tests that ran here are noted in the cells.                *)
(*                                                                         *)
(* Time goes in steps of the finest bucket.  A machine's links are taken   *)
(* together (collapseMachine): in a step a peer logs one of a clean sample,*)
(* a lost one, the end or the return of its link, or nothing.  A share of  *)
(* losses is abstracted to clean (0) or not (1), no data is -1.            *)
(***************************************************************************)
EXTENDS InternetTest, Sequences, FiniteSetsExt, Functions

CONSTANTS
  Peer,
  Zoom,      \* bucket widths
  Span       \* heatWindowSec

\* Windows of tests are kept as long as any cell is drawn.
ASSUME HeatAssumption == /\ Zoom \subseteq Nat \ {0} /\ Span \in Nat
                         /\ Retention >= Span /\ \A z \in Zoom : Span >= z

VARIABLES
  logged,   \* logged[p]: what p's database has, step by step
  want,     \* heatFrom, heatTo, heatBucket: the window the UI asked for
  kick,     \* heatKick has a signal
  loop,     \* heatSyncLoop: the window it read, the peers left, their rows
  cache     \* heatPeerRows, heatPeerFrom, heatPeerBucket

heatVars == <<logged, want, kick, loop, cache>>
vars == <<testVars, heatVars>>

-----------------------------------------------------------------------------
(* Data.                                                                     *)

\* Go's division, towards zero.
Quot(x, y) == IF x < 0 THEN -((-x) \div y) ELSE x \div y

Window(from, to, bucket) == [from |-> from, to |-> to, bucket |-> bucket]
NoWindow == Window(0, 0, 0)
Cells(w) == 0..((w.to - w.from + w.bucket - 1) \div w.bucket - 1)

\* heatWindow(): the grid of a zoom at this moment.
Snapped(z) == LET to == now \div z + 1 IN Window((to - Span \div z) * z, to * z, z)

\* Losses, and pairs of an end of the link and its next return.
Lost(h) == {t \in DOMAIN h : h[t] = "lost"}
Flaps(h) == {f \in (DOMAIN h) \X (DOMAIN h) :
               /\ h[f[1]] = "down" /\ h[f[2]] = "up" /\ f[1] < f[2]
               /\ \A t \in (f[1] + 1)..(f[2] - 1) : h[t] \notin {"down", "up"}}

\* LossBuckets() and LinkStateBuckets(): what a cell of a link, or of the
\* adapter, shows.
LossIn(h, w, c) ==
  LET T == {t \in DOMAIN h : w.from =< t /\ t < w.to /\ (t - w.from) \div w.bucket = c}
  IN  IF T \cap Lost(h) # {} THEN 1 ELSE IF \E t \in T : h[t] = "clean" THEN 0 ELSE -1
FlapIn(h, w, c) ==
  IF \E f \in Flaps(h) : /\ f[2] < w.to /\ Quot(f[1] - w.from, w.bucket) =< c
                         /\ c =< Quot(f[2] - w.from, w.bucket)
  THEN 1 ELSE -1

\* collapseMachine(): the worst of a machine's rows that have data.
Collapsed(rows) == Max(rows \cup {-1})

\* A peer's answer; asOf is history: when it was given.
LossHeat(h, w) == [row |-> [c \in Cells(w) |-> Collapsed({LossIn(h, w, c), FlapIn(h, w, c)})],
                   asOf |-> now]

\* resampleRows(): the worst of the cached buckets a cell overlaps.
Resampled(row, from, bucket, w, c) ==
  LET lo == w.from + c * w.bucket
      first == Quot(lo - from, bucket)
      last == Quot(lo + w.bucket - 1 - from, bucket)
  IN  Max({-1} \cup {row[j] : j \in (first..last) \cap DOMAIN row})

\* Slip: what was pulled is filed under the window asked for meanwhile.
FiledAnew == [from |-> want.from, bucket |-> want.bucket, rows |-> loop.rows]

Filed == [from |-> loop.window.from, bucket |-> loop.window.bucket, rows |-> loop.rows]

\* testNotes(): the windows that reach into a cell.
Notes(w, c) ==
  LET lo == w.from + c * w.bucket
  IN  {n.id : n \in {n \in windows : n.from < lo + w.bucket /\ n.to >= lo}}

-----------------------------------------------------------------------------
Waiting == [at |-> "wait", window |-> NoWindow, left |-> {}, rows |-> <<>>]

Init ==
  /\ TestInit
  /\ logged = [p \in Peer |-> <<>>]
  /\ want = NoWindow /\ kick = FALSE
  /\ loop = Waiting
  /\ cache = [from |-> 0, bucket |-> 0, rows |-> <<>>]

\* A step of time; logged[p] is a function on the steps gone by.
Pass ==
  /\ InTime
  /\ \E e \in [Peer -> {"none", "clean", "lost", "down", "up"}] :
       LET n == Cardinality({p \in Peer : e[p] # "none"})
       IN  /\ left["steps"] > 0 /\ left["events"] >= n
           /\ left' = [left EXCEPT !["steps"] = @ - 1, !["events"] = @ - n]
           /\ logged' = [p \in Peer |->
                           [t \in 0..now |-> IF t = now THEN e[p] ELSE logged[p][t]]]
  /\ now' = now + 1
  /\ UNCHANGED <<test, windows, stored, tests, want, kick, loop, cache>>

\* The UI draws: a window that has moved is asked for, and the loop kicked
\* unless it has been already.
Draw(z) ==
  /\ left["draws"] > 0 /\ left' = [left EXCEPT !["draws"] = @ - 1]
  /\ want' = Snapped(z)
  /\ kick' = (kick \/ want.from # want'.from \/ want.bucket # z)
  /\ UNCHANGED <<now, test, windows, stored, tests, logged, loop, cache>>

\* The loop is woken by its ticker or by the kick; there is nothing to pull
\* before the first window.
Wake(kicked) ==
  /\ loop.at = "wait" /\ (kicked => kick)
  /\ kick' = (kick /\ ~kicked)
  /\ loop' = IF want.bucket = 0 THEN loop
             ELSE [at |-> "pull", window |-> want, left |-> Peer, rows |-> <<>>]
  /\ UNCHANGED <<testVars, logged, want, cache>>

\* One peer answers with its buckets, or does not.
Pull(p) ==
  /\ loop.at = "pull" /\ p \in loop.left
  /\ \E answers \in BOOLEAN :
       loop' = [loop EXCEPT
         !.left = @ \ {p},
         !.rows = IF answers
                  THEN [q \in DOMAIN @ \cup {p} |->
                          IF q = p THEN LossHeat(logged[p], loop.window) ELSE @[q]]
                  ELSE @]
  /\ UNCHANGED <<testVars, logged, want, kick, cache>>

File ==
  /\ loop.at = "pull" /\ loop.left = {}
  /\ cache' = Filed
  /\ loop' = Waiting
  /\ UNCHANGED <<testVars, logged, want, kick>>

Next ==
  \/ Pass
  \/ \E z \in Zoom : Draw(z)
  \/ \E kicked \in BOOLEAN : Wake(kicked)
  \/ \E p \in Peer : Pull(p)
  \/ File
  \/ TestNext /\ UNCHANGED heatVars

Spec == Init /\ [][Next]_vars

-----------------------------------------------------------------------------
(* Properties.                                                               *)

\* Whatever window the cache was pulled for, and whichever is drawn now: a loss
\* that the peer had logged when it was asked is drawn in its cell, as far as the
\* cached window goes, and so is a flap that was over by the end of that window;
\* and what is drawn is less than two cached buckets away from a loss or flap
\* (heatsync.go, heatWindow and resampleRows).
CellsHonest ==
  want.bucket > 0 => \A p \in DOMAIN cache.rows, c \in Cells(want) :
    LET a == cache.rows[p]
        h == [t \in {t \in DOMAIN logged[p] : t < a.asOf} |-> logged[p][t]]
        end == cache.from + cache.bucket * Cardinality(DOMAIN a.row)
        Bad == Lost(h) \cup UNION {f[1]..f[2] : f \in {f \in Flaps(h) : f[2] < end}}
        lo == want.from + c * want.bucket
        cell == lo..(lo + want.bucket - 1)
        far == 2 * cache.bucket - 2
        drawn == Resampled(a.row, cache.from, cache.bucket, want, c)
    IN  /\ Bad \cap cell \cap (cache.from..(end - 1)) # {} => drawn = 1
        /\ drawn = 1 => Bad \cap ((lo - far)..(lo + want.bucket - 1 + far)) # {}

\* Whenever and at whatever zoom the map is drawn, a test that has ended is noted in
\* the cells of the time it ran in, and in no other, however the tests of the UI and
\* of peers overlap; and what is stored of it was measured: both its phases went
\* through, and a rate comes with a latency under load (test_events.go; internet.go,
\* runInternet).
TestsTold ==
  /\ \A t \in tests, z \in Zoom : t.ended >= 0 =>
       \A c \in Cells(Snapped(z)) :
         LET lo == Snapped(z).from + c * z
         IN  t.id \in Notes(Snapped(z), c)
               <=> (t.began..t.ended) \cap (lo..(lo + z - 1)) # {}
  /\ \A s \in stored :
       /\ \E t \in tests : t.id = s.id /\ t.ended >= 0
       /\ s.down \/ s.up => s.loaded

=============================================================================
