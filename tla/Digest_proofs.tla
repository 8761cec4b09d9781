--------------------------- MODULE Digest_proofs ---------------------------
(***************************************************************************)
(* What Digest promises for any number of users, items and concurrent      *)
(* manual runs, for every look-back and schedule: the type invariant, no   *)
(* reprint, and nothing skipped.                                           *)
(*                                                                         *)
(* Neither property is inductive alone: both relate rows of the archive,   *)
(* which a run inserts some steps after it chose its window from the rows  *)
(* of that moment.  RunSound says what a run still knows by then: all rows *)
(* it read lie before its window, an exclusive bound is the end of a row,  *)
(* and what it gathered is its window, up to items stored since.           *)
(***************************************************************************)
EXTENDS Digest, TLAPS

USE CountsAssumption, LookbacksAssumption

\* What a call of run_all has established between two of its steps: about
\* time, about its window, and about what it gathered.
EndPassed(r) ==
  run[r].stage \in {"boundary", "gather", "build"} => run[r].end <= now

WindowSound(r) ==
  LET w == run[r] IN
    w.stage \in {"gather", "build"} =>
      /\ w.known <= Len(archive[w.user])
      /\ w.floor <= w.start
      /\ \A m \in 1..w.known : archive[w.user][m].end <= w.start
      /\ w.start > w.floor =>
           \E m \in Rows(w.user) : archive[w.user][m].end = w.start

ChosenSound(r) ==
  LET w == run[r] IN
    w.stage = "build" =>
      /\ \A i \in w.chosen : Stored(i) /\ InWindow(w, item[i].published)
      /\ \A i \in Items :
           Stored(i) /\ InWindow(w, item[i].published)
             => i \in w.chosen \/ w.end <= item[i].stored

RunSound(r) == EndPassed(r) /\ WindowSound(r) /\ ChosenSound(r)

RunsSound == \A r \in Runs : RunSound(r)

\* What holds of every row that was inserted.
RowSound(u, n) ==
  LET d == archive[u][n] IN
    /\ d.known < n
    /\ d.floor <= d.start
    /\ d.end <= now
    /\ \A m \in 1..d.known : archive[u][m].end <= d.start
    /\ \A i \in d.items : Stored(i) /\ InWindow(d, item[i].published)

RowsSound == \A u \in Users : \A n \in Rows(u) : RowSound(u, n)

IInv == TypeOK /\ RunsSound /\ RowsSound /\ NothingSkipped

-----------------------------------------------------------------------------
\* The record of a call, under way or not, is a run record.
LEMMA CallType ==
  ASSUME NEW stage \in {"idle", "starting", "boundary", "gather", "build"},
         NEW over \in Lookbacks \cup {None}, NEW end \in Times,
         NEW floor \in Int, NEW user \in Users
  PROVE  Call(stage, over, end, floor, user) \in RunRecords
BY DEF Call, RunRecords

\* So is that of a call that has not begun or has ended.
LEMMA IdleType ==
  /\ Idle \in RunRecords
  /\ \A over \in Lookbacks \cup {None} :
       Call("starting", over, 0, 0, 1) \in RunRecords
<1>1. 0 \in Times /\ 1 \in Users
  BY DEF Times, Users
<1>2. None \in Lookbacks \cup {None} /\ 0 \in Int
  OBVIOUS
<1>3. Idle \in RunRecords
  BY <1>1, <1>2, CallType DEF Idle
<1>4. ASSUME NEW over \in Lookbacks \cup {None}
      PROVE  Call("starting", over, 0, 0, 1) \in RunRecords
  BY <1>1, <1>2, CallType
<1> QED BY <1>3, <1>4

\* The loop moves on to a user of the list, or ends.
LEMMA NextUserType ==
  ASSUME NEW rec \in RunRecords
  PROVE  NextUser(rec) \in RunRecords
<1>1. CASE rec.user = NumUsers
  BY <1>1, IdleType DEF NextUser
<1>2. CASE rec.user # NumUsers
  <2>1. rec.user + 1 \in Users
    BY <1>2 DEF RunRecords, Users
  <2>2. Call("boundary", rec.over, rec.end, rec.floor, rec.user + 1)
          \in RunRecords
    BY <2>1, CallType DEF RunRecords
  <2> QED BY <1>2, <2>2 DEF NextUser
<1> QED BY <1>1, <1>2

\* Type correctness of every variable.
LEMMA TypeStep == TypeOK /\ [Next]_vars => TypeOK'
<1> SUFFICES ASSUME TypeOK, [Next]_vars PROVE TypeOK'
  OBVIOUS
<1> USE DEF TypeOK
<1>1. CASE Fire
  <2>1. Call("starting", None, 0, 0, 1) \in RunRecords
    BY IdleType
  <2>2. now \div Minute \in Int
    BY DEF Times
  <2>3. lastRun' \in Int
    BY <1>1, <2>2 DEF Fire
  <2>4. run' \in [Runs -> RunRecords]
    BY <1>1, <2>1 DEF Fire, StartWith, Update, Runs
  <2>5. started' \in 0..MaxRuns
    BY <1>1 DEF Fire, StartWith
  <2> QED BY <1>1, <2>3, <2>4, <2>5 DEF Fire
<1>2. ASSUME NEW m \in Manuals, NEW over \in Lookbacks \cup {None},
             Trigger(m, over)
      PROVE  TypeOK'
  <2>1. Call("starting", over, 0, 0, 1) \in RunRecords
    BY IdleType
  <2>2. run' \in [Runs -> RunRecords]
    BY <1>2, <2>1 DEF Trigger, StartWith, Update, Runs
  <2>3. started' \in 0..MaxRuns
    BY <1>2 DEF Trigger, StartWith
  <2> QED BY <1>2, <2>2, <2>3 DEF Trigger, settings
<1>3. ASSUME NEW r \in Runs, RunStep(r) PROVE TypeOK'
  <2>0. run[r] \in RunRecords
    OBVIOUS
  <2>1. CASE Begin(r)
    <3> DEFINE floor == now - (IF run[r].over = None THEN lookback
                                                     ELSE run[r].over)
    <3>1. floor \in Int
      <4>1. run[r].over \in Lookbacks \cup {None}
        BY <2>0 DEF RunRecords
      <4>2. now \in Int /\ lookback \in Int
        BY DEF Times
      <4>3. CASE run[r].over = None
        BY <4>2, <4>3
      <4>4. CASE run[r].over \in Lookbacks
        <5> HIDE DEF TypeOK
        <5>1. run[r].over \in Int
          <6>1. Lookbacks \subseteq Int
            BY LookbacksAssumption
          <6> QED BY <4>4, <6>1
        <5> QED BY <4>2, <5>1
      <4> QED BY <4>1, <4>3, <4>4
    <3>2. 1 \in Users
      BY DEF Users
    <3>3. Call("boundary", run[r].over, now, floor, 1) \in RunRecords
      BY <2>0, <3>1, <3>2, CallType DEF RunRecords
    <3> QED BY <2>1, <3>3 DEF Begin, Update, settings
  <2>2. CASE BeginFails(r)
    BY <2>2, IdleType DEF BeginFails, Update, settings
  <2>3. CASE ReadBoundary(r)
    <3>1. run[r].user \in Users
      BY <2>0 DEF RunRecords
    <3>2. LastEnd(run[r].user) \subseteq Int
      <4>1. archive[run[r].user] \in Seq(Digests)
        BY <3>1
      <4>2. \A n \in Rows(run[r].user) : archive[run[r].user][n] \in Digests
        BY <4>1 DEF Rows
      <4> QED BY <4>2 DEF LastEnd, Digests, Times
    <3>3. PICK lastEnd \in LastEnd(run[r].user) \cup {None} :
            LET used == IF run[r].over = None THEN lastEnd ELSE None IN
            run' = [run EXCEPT ![r] = [run[r] EXCEPT
              !.stage = "gather",
              !.start = PeriodStart(used, run[r].floor),
              !.known = IF used = None THEN 0
                        ELSE Len(archive[run[r].user])]]
      BY <2>3 DEF ReadBoundary, Update
    <3> DEFINE used == IF run[r].over = None THEN lastEnd ELSE None
               known == IF used = None THEN 0 ELSE Len(archive[run[r].user])
    <3>4. PeriodStart(used, run[r].floor) \in Int /\ known \in Nat
      BY <2>0, <3>1, <3>2 DEF PeriodStart, None, RunRecords
    <3> HIDE DEF used, known
    <3>5. [run[r] EXCEPT !.stage = "gather",
             !.start = PeriodStart(used, run[r].floor),
             !.known = known] \in RunRecords
      BY <2>0, <3>4 DEF RunRecords
    <3>6. run' \in [Runs -> RunRecords]
      BY <3>3, <3>5 DEF used, known
    <3> QED BY <2>3, <3>6 DEF ReadBoundary, settings
  <2>4. CASE Gather(r)
    <3>1. run'[r] \in RunRecords
      BY <2>0, <2>4, NextUserType DEF Gather, Update, RunRecords
    <3> QED BY <2>4, <3>1 DEF Gather, Update, settings
  <2>5. CASE Archive(r)
    <3>1. run[r].user \in Users
      BY <2>0 DEF RunRecords
    <3> DEFINE d == [start |-> run[r].start, floor |-> run[r].floor,
                     end |-> run[r].end, over |-> run[r].over,
                     known |-> run[r].known, items |-> run[r].chosen]
    <3>2. d \in Digests
      BY <2>0 DEF RunRecords, Digests
    <3>3. archive' = [archive EXCEPT ![run[r].user] = Append(@, d)]
      BY <2>5 DEF Archive
    <3> HIDE DEF d
    <3>4. archive' \in [Users -> Seq(Digests)]
      BY <3>1, <3>2, <3>3
    <3> QED BY <2>0, <2>5, <3>4, NextUserType
            DEF Archive, Update, settings
  <2>6. CASE BuildFails(r)
    BY <2>0, <2>6, NextUserType DEF BuildFails, Update, settings
  <2> QED BY <1>3, <2>1, <2>2, <2>3, <2>4, <2>5, <2>6 DEF RunStep
<1>4. ASSUME NEW i \in Items, NEW published \in Times, StoreItem(i, published)
      PROVE  TypeOK'
  BY <1>4 DEF StoreItem, settings
<1>5. ASSUME NEW value \in Lookbacks, SetLookback(value) PROVE TypeOK'
  BY <1>5 DEF SetLookback
<1>6. CASE ClockTicks
  BY <1>6 DEF ClockTicks, settings, Times
<1>7. CASE Restart
  BY <1>7, IdleType DEF Restart, settings
<1>8. CASE UNCHANGED vars
  BY <1>8 DEF vars, settings
<1> QED BY <1>1, <1>2, <1>3, <1>4, <1>5, <1>6, <1>7, <1>8 DEF Next

-----------------------------------------------------------------------------
\* Items are stored once, at a time that is not before any earlier moment.
ItemsKept ==
  /\ now \in Times /\ now' \in Times /\ now <= now'
  /\ \A i \in Items : item'[i] = item[i] \/ (~Stored(i) /\ item'[i].stored = now)

\* A run that does not move stays sound while others do, as long as the rows
\* of its user are only added to.
LEMMA SameRun ==
  ASSUME TypeOK, ItemsKept, NEW r \in Runs, run'[r] = run[r], RunSound(r),
         \A u \in Users : /\ Len(archive[u]) <= Len(archive'[u])
                          /\ Len(archive'[u]) \in Nat
                          /\ \A n \in Rows(u) : archive'[u][n] = archive[u][n]
  PROVE  RunSound(r)'
<1>1. run[r] \in RunRecords
  BY DEF TypeOK
<1>2. EndPassed(r)'
  BY <1>1 DEF ItemsKept, RunSound, EndPassed, RunRecords, Times
<1>3. WindowSound(r)'
  <2> SUFFICES ASSUME run[r].stage \in {"gather", "build"}
               PROVE  WindowSound(r)'
    BY DEF WindowSound
  <2> DEFINE u == run[r].user
  <2>1. u \in Users /\ run[r].known \in Nat /\ Len(archive[u]) \in Nat
    BY <1>1 DEF RunRecords, TypeOK
  <2>2. run[r].known <= Len(archive[u])
    BY DEF RunSound, WindowSound
  <2>3. \A m \in Rows(u) : m \in Rows(u)' /\ archive'[u][m] = archive[u][m]
    BY <2>1 DEF Rows
  <2>4. 1..run[r].known \subseteq Rows(u)
    BY <2>1, <2>2 DEF Rows
  <2>5. run[r].known <= Len(archive'[u])
    BY <2>1, <2>2
  <2> QED BY <2>3, <2>4, <2>5 DEF RunSound, WindowSound
<1>4. ChosenSound(r)'
  <2> SUFFICES ASSUME run[r].stage = "build"
               PROVE  ChosenSound(r)'
    BY DEF ChosenSound
  <2>1. run[r].end <= now
    BY DEF RunSound, EndPassed
  <2>2. \A i \in Items : Stored(i) => Stored(i)' /\ item'[i] = item[i]
    BY DEF ItemsKept, Stored
  <2>3. \A i \in run[r].chosen : i \in Items
    BY <1>1 DEF RunRecords
  <2> QED BY <2>1, <2>2, <2>3
          DEF RunSound, ChosenSound, ItemsKept, Stored, InWindow
<1> QED BY <1>2, <1>3, <1>4 DEF RunSound

\* While no row is inserted, the archive stays sound and covers what it did;
\* an item that is stored now is stored after all rows.
LEMMA SameRows ==
  ASSUME TypeOK, ItemsKept, UNCHANGED archive, RowsSound, NothingSkipped
  PROVE  RowsSound' /\ NothingSkipped'
<1>1. \A i \in Items : Stored(i) => Stored(i)' /\ item'[i] = item[i]
  BY DEF ItemsKept, Stored
<1>2. \A u \in Users : \A n \in Rows(u) : archive[u][n] \in Digests
  BY DEF TypeOK, Rows
<1>3. RowsSound'
  <2> SUFFICES ASSUME NEW u \in Users, NEW n \in Rows(u)
               PROVE  RowSound(u, n)'
    BY DEF RowsSound, Rows
  <2>1. RowSound(u, n) /\ archive[u][n] \in Digests
    BY <1>2 DEF RowsSound
  <2> QED BY <1>1, <2>1 DEF RowSound, ItemsKept, Digests, Times, InWindow
<1>4. NothingSkipped'
  <2> SUFFICES ASSUME NEW u \in Users, NEW i \in Items, Stored(i)',
                      NEW n \in Rows(u),
                      item'[i].published <= archive[u][n].end
               PROVE  \E k \in Rows(u) :
                        LET d == archive[u][k] IN
                          \/ i \in d.items
                          \/ /\ item'[i].published <= d.end
                             /\ d.end <= item'[i].stored
                          \/ /\ item'[i].published < d.start
                             /\ \A m \in 1..(k - 1) :
                                  archive[u][m].end < item'[i].published
    BY DEF NothingSkipped, Rows
  <2>1. CASE item'[i] = item[i]
    <3>1. Stored(i)
      BY <2>1 DEF Stored
    <3> QED BY <2>1, <3>1 DEF NothingSkipped
  <2>2. CASE item'[i].stored = now
    BY <2>2 DEF RowsSound, RowSound
  <2> QED BY <2>1, <2>2 DEF ItemsKept
<1> QED BY <1>3, <1>4

-----------------------------------------------------------------------------
\* The steps of a run that do not insert a row.
LEMMA RunMoves ==
  ASSUME IInv, TypeOK', UNCHANGED <<now, item, archive>>, NEW r \in Runs,
         \A q \in Runs \ {r} : run'[q] = run[q], RunSound(r)'
  PROVE  IInv'
<1>1. ItemsKept
  BY DEF IInv, TypeOK, ItemsKept, Times
<1>2. \A u \in Users : Len(archive[u]) \in Nat
  BY DEF IInv, TypeOK
<1>3. ASSUME NEW q \in Runs PROVE RunSound(q)'
  BY <1>1, <1>2, SameRun DEF IInv, RunsSound
<1> QED BY <1>1, <1>3, SameRows DEF IInv, RunsSound

\* A call that is not under way is sound.
LEMMA QuietRun ==
  ASSUME NEW r \in Runs, run'[r].stage \in {"idle", "starting"}
  PROVE  RunSound(r)'
BY DEF RunSound, EndPassed, WindowSound, ChosenSound

\* A call that goes on to a user, within its run, is sound.
LEMMA BoundaryRun ==
  ASSUME NEW r \in Runs, run'[r].stage = "boundary", run'[r].end <= now'
  PROVE  RunSound(r)'
BY DEF RunSound, EndPassed, WindowSound, ChosenSound

\* So is a call after NextUser.
LEMMA NextUserSound ==
  ASSUME TypeOK, NEW r \in Runs, RunSound(r), now' = now,
         run[r].stage \in {"gather", "build"}, run'[r] = NextUser(run[r])
  PROVE  RunSound(r)'
<1>1. CASE run[r].user = NumUsers
  BY <1>1, QuietRun DEF NextUser, Idle, Call
<1>2. CASE run[r].user # NumUsers
  <2>1. run'[r].stage = "boundary" /\ run'[r].end = run[r].end
    BY <1>2 DEF NextUser, Call
  <2> QED BY <2>1, BoundaryRun DEF RunSound, EndPassed
<1> QED BY <1>1, <1>2

\* ReadBoundary opens a sound window: MAX(period_end) is the end of a row and
\* not before the end of any other.
LEMMA ReadBoundarySound ==
  ASSUME IInv, TypeOK', NEW r \in Runs, ReadBoundary(r)
  PROVE  IInv'
<1> DEFINE u == run[r].user
<1>1. run[r] \in RunRecords /\ u \in Users
  BY DEF IInv, TypeOK, RunRecords
<1>2. PICK lastEnd \in LastEnd(u) \cup {None} :
        LET used == IF run[r].over = None THEN lastEnd ELSE None IN
        run' = [run EXCEPT ![r] = [run[r] EXCEPT
          !.stage = "gather",
          !.start = PeriodStart(used, run[r].floor),
          !.known = IF used = None THEN 0 ELSE Len(archive[u])]]
  BY DEF ReadBoundary, Update
<1> DEFINE used == IF run[r].over = None THEN lastEnd ELSE None
<1>3. /\ run'[r].stage = "gather"
      /\ run'[r].user = u /\ run'[r].end = run[r].end
      /\ run'[r].floor = run[r].floor
      /\ run'[r].start = PeriodStart(used, run[r].floor)
      /\ run'[r].known = IF used = None THEN 0 ELSE Len(archive[u])
  BY <1>1, <1>2 DEF IInv, TypeOK, RunRecords
<1>4. UNCHANGED <<now, item, archive>> /\ \A q \in Runs \ {r} : run'[q] = run[q]
  BY <1>2 DEF ReadBoundary, IInv, TypeOK
<1>5. Len(archive[u]) \in Nat /\ \A n \in Rows(u) : archive[u][n].end \in Int
  <2>1. archive[u] \in Seq(Digests)
    BY <1>1 DEF IInv, TypeOK
  <2>2. \A n \in Rows(u) : archive[u][n] \in Digests
    BY <2>1 DEF Rows
  <2>3. \A d \in Digests : d.end \in Int
    BY DEF Digests, Times
  <2> QED BY <2>1, <2>2, <2>3
<1>6. EndPassed(r)'
  BY <1>3, <1>4 DEF IInv, RunsSound, RunSound, EndPassed, ReadBoundary
<1>7. WindowSound(r)'
  <2>1. CASE used = None
    BY <1>1, <1>3, <1>4, <1>5, <2>1 DEF WindowSound, PeriodStart, RunRecords
  <2>2. CASE used # None
    <3>1. used \in LastEnd(u)
      BY <1>2, <2>2
    <3>2. \E m \in Rows(u) : archive[u][m].end = used
      BY <3>1 DEF LastEnd
    <3>3. \A m \in Rows(u) : archive[u][m].end <= used
      BY <3>1 DEF LastEnd
    <3>4. used \in Int /\ run[r].floor \in Int
      BY <1>1, <1>5, <3>2 DEF RunRecords
    <3> HIDE DEF used
    <3>5. /\ run[r].floor <= run'[r].start /\ used <= run'[r].start
          /\ run'[r].start > run[r].floor => run'[r].start = used
      BY <1>3, <2>2, <3>4 DEF PeriodStart
    <3>6. run'[r].known = Len(archive[u]) /\ run'[r].start \in Int
      BY <1>3, <2>2, <3>4 DEF PeriodStart
    <3>7. \A m \in Rows(u) : archive[u][m].end <= run'[r].start
      BY <1>5, <3>3, <3>4, <3>5, <3>6
    <3> QED BY <1>3, <1>4, <1>5, <3>2, <3>5, <3>6, <3>7 DEF WindowSound, Rows
  <2> QED BY <2>1, <2>2
<1>8. ChosenSound(r)'
  BY <1>3 DEF ChosenSound
<1> QED BY <1>4, <1>6, <1>7, <1>8, RunMoves DEF RunSound

\* Gather leaves out nothing that is stored and lies in the window.
LEMMA GatherSound ==
  ASSUME IInv, TypeOK', NEW r \in Runs, Gather(r)
  PROVE  IInv'
<1> DEFINE chosen == {i \in Items : Stored(i)
                                     /\ InWindow(run[r], item[i].published)}
<1>1. run[r] \in RunRecords
  BY DEF IInv, TypeOK
<1>2. UNCHANGED <<now, item, archive>> /\ \A q \in Runs \ {r} : run'[q] = run[q]
  BY DEF Gather, Update, IInv, TypeOK
<1>3. CASE chosen = {}
  <2>1. run'[r] = NextUser(run[r])
    BY <1>3 DEF Gather, Update, IInv, TypeOK
  <2>2. RunSound(r)'
    BY <1>2, <2>1, NextUserSound DEF Gather, IInv, RunsSound
  <2> QED BY <1>2, <2>2, RunMoves
<1>4. CASE chosen # {}
  <2>1. run'[r] = [run[r] EXCEPT !.stage = "build", !.chosen = chosen]
    BY <1>4 DEF Gather, Update, IInv, TypeOK
  <2> HIDE DEF chosen
  <2>2. /\ run'[r].stage = "build" /\ run'[r].chosen = chosen
        /\ run'[r].user = run[r].user /\ run'[r].end = run[r].end
        /\ run'[r].floor = run[r].floor /\ run'[r].start = run[r].start
        /\ run'[r].known = run[r].known
    BY <1>1, <2>1 DEF RunRecords
  <2>3. run[r].stage = "gather" /\ RunSound(r)
    BY DEF Gather, IInv, RunsSound
  <2>4. EndPassed(r)' /\ WindowSound(r)'
    BY <1>2, <2>2, <2>3 DEF RunSound, EndPassed, WindowSound, Rows
  <2>5. ChosenSound(r)'
    BY <1>2, <2>2 DEF ChosenSound, InWindow, Stored, chosen
  <2> QED BY <1>2, <2>4, <2>5, RunMoves DEF RunSound
<1> QED BY <1>3, <1>4

\* The row of a run's window: nothing stored is lost by the rows before it,
\* the window and the items the run gathered.
LEMMA ArchiveSound ==
  ASSUME IInv, TypeOK', NEW r \in Runs, Archive(r)
  PROVE  IInv'
<1> DEFINE w == run[r]
           d == [start |-> w.start, floor |-> w.floor, end |-> w.end,
                 over |-> w.over, known |-> w.known, items |-> w.chosen]
<1>0. w \in RunRecords /\ w.user \in Users /\ archive[w.user] \in Seq(Digests)
  BY DEF IInv, TypeOK, RunRecords
<1>a. PICK u \in Users : u = w.user
  BY <1>0
<1>b. PICK last \in Nat : last = Len(archive[u]) + 1
  BY <1>0, <1>a
<1>1. w \in RunRecords /\ w.user = u /\ archive[u] \in Seq(Digests)
  BY <1>0, <1>a
<1>2. /\ d.start = w.start /\ d.floor = w.floor /\ d.end = w.end
      /\ d.known = w.known /\ d.items = w.chosen
  OBVIOUS
<1>3. /\ archive' = [archive EXCEPT ![u] = Append(@, d)]
      /\ w.stage = "build" /\ UNCHANGED <<now, item>>
      /\ run' = [run EXCEPT ![r] = NextUser(w)]
  BY <1>1 DEF Archive, Update
<1>4. RunSound(r) /\ \A q \in Runs : RunSound(q)
  BY DEF IInv, RunsSound
<1>5. d \in Digests
  BY <1>1 DEF RunRecords, Digests
<1> HIDE DEF d
<1>6. /\ Len(archive[u]) \in Nat /\ Len(archive'[u]) = last
      /\ archive'[u][last] = d
      /\ \A k \in Rows(u) : archive'[u][k] = archive[u][k]
  BY <1>1, <1>3, <1>5, <1>b DEF Rows, IInv, TypeOK
<1>7. \A v \in Users \ {u} : archive'[v] = archive[v]
  BY <1>3 DEF IInv, TypeOK
<1>8. \A v \in Users : /\ Len(archive[v]) <= Len(archive'[v])
                       /\ Len(archive'[v]) \in Nat
                       /\ \A k \in Rows(v) : archive'[v][k] = archive[v][k]
  <2>1. \A v \in Users : Len(archive[v]) \in Nat
    BY DEF IInv, TypeOK
  <2> QED BY <1>6, <1>7, <1>b, <2>1
<1>9. /\ Rows(u)' = Rows(u) \cup {last} /\ last \notin Rows(u)
      /\ \A v \in Users \ {u} : Rows(v)' = Rows(v)
  BY <1>6, <1>7, <1>b DEF Rows
<1>10. ItemsKept
  BY <1>3 DEF IInv, TypeOK, ItemsKept, Times
<1>11. RunsSound'
  <2>1. RunSound(r)'
    <3>1. run'[r] = NextUser(w)
      BY <1>3 DEF IInv, TypeOK
    <3> QED BY <1>3, <1>4, <3>1, NextUserSound DEF IInv
  <2>2. ASSUME NEW q \in Runs \ {r} PROVE RunSound(q)'
    <3>1. run'[q] = run[q]
      BY <1>3 DEF IInv, TypeOK
    <3> QED BY <1>4, <1>8, <1>10, <3>1, SameRun DEF IInv
  <2> QED BY <2>1, <2>2 DEF RunsSound
<1>12. RowsSound'
  <2>1. ASSUME NEW v \in Users, NEW k \in Rows(v) PROVE RowSound(v, k)'
    <3>1. RowSound(v, k) /\ archive'[v][k] = archive[v][k]
      BY <1>8 DEF IInv, RowsSound
    <3>2. archive[v][k] \in Digests
      <4>1. archive[v] \in Seq(Digests)
        BY DEF IInv, TypeOK
      <4> QED BY <4>1 DEF Rows
    <3>3. 1..archive[v][k].known \subseteq Rows(v)
      <4>1. archive[v][k].known \in Nat /\ archive[v][k].known < k
        BY <3>1, <3>2 DEF RowSound, Digests
      <4>2. Len(archive[v]) \in Nat
        BY DEF IInv, TypeOK
      <4> QED BY <4>1, <4>2 DEF Rows
    <3>4. \A m \in 1..archive[v][k].known : archive'[v][m] = archive[v][m]
      BY <1>8, <3>3
    <3> QED BY <1>3, <3>1, <3>4 DEF RowSound, Stored, InWindow
  <2>2. RowSound(u, last)'
    <3>1. w.known <= Len(archive[u]) /\ w.known \in Nat
      BY <1>1, <1>3, <1>4 DEF RunSound, WindowSound, RunRecords
    <3>2. 1..w.known \subseteq Rows(u)
      BY <1>6, <3>1 DEF Rows
    <3>3. \A m \in 1..w.known : archive'[u][m].end <= w.start
      BY <1>1, <1>3, <1>4, <1>6, <3>2 DEF RunSound, WindowSound
    <3>4. w.known < last /\ w.floor <= w.start /\ w.end <= now
      BY <1>3, <1>4, <1>6, <1>b, <3>1 DEF RunSound, WindowSound, EndPassed
    <3>5. \A i \in w.chosen : Stored(i) /\ InWindow(w, item[i].published)
      BY <1>3, <1>4 DEF RunSound, ChosenSound
    <3> QED BY <1>2, <1>3, <1>6, <3>3, <3>4, <3>5
            DEF RowSound, Stored, InWindow
  <2> QED BY <1>9, <2>1, <2>2 DEF RowsSound
<1>13. NothingSkipped'
  <2> SUFFICES ASSUME NEW v \in Users, NEW i \in Items, Stored(i),
                      NEW n \in Rows(v)',
                      item[i].published <= archive'[v][n].end
               PROVE  \E k \in Rows(v)' :
                        LET e == archive'[v][k] IN
                          \/ i \in e.items
                          \/ /\ item[i].published <= e.end
                             /\ e.end <= item[i].stored
                          \/ /\ item[i].published < e.start
                             /\ \A m \in 1..(k - 1) :
                                  archive'[v][m].end < item[i].published
    BY <1>3 DEF NothingSkipped, Stored
  <2> DEFINE p == item[i].published
  <2>1. CASE \E k \in Rows(v) : p <= archive[v][k].end
    <3>1. PICK k \in Rows(v) :
            LET e == archive[v][k] IN
              \/ i \in e.items
              \/ p <= e.end /\ e.end <= item[i].stored
              \/ p < e.start /\ \A m \in 1..(k - 1) : archive[v][m].end < p
      BY <2>1 DEF IInv, NothingSkipped
    <3>2. 1..(k - 1) \subseteq Rows(v)
      <4>1. Len(archive[v]) \in Nat
        BY DEF IInv, TypeOK
      <4> QED BY <4>1 DEF Rows
    <3>3. /\ k \in Rows(v)' /\ archive'[v][k] = archive[v][k]
          /\ \A m \in 1..(k - 1) : archive'[v][m] = archive[v][m]
      BY <1>8, <1>9, <3>2
    <3> QED BY <3>1, <3>3
  <2>2. CASE \A k \in Rows(v) : ~(p <= archive[v][k].end)
    <3>1. v = u /\ n = last
      BY <1>8, <1>9, <2>2
    <3>2. p <= w.end
      BY <1>2, <1>6, <3>1
    <3>3. p \in Int /\ w.start \in Int /\ w.floor \in Int
      <4>1. item[i] \in [published : Times \cup {None},
                         stored : Times \cup {None}]
        BY DEF IInv, TypeOK
      <4>2. p \in Int
        BY <4>1 DEF Times, None
      <4>3. w.start \in Int /\ w.floor \in Int
        BY <1>1 DEF RunRecords
      <4> QED BY <4>2, <4>3
    <3>4. \A k \in Rows(u) : archive[u][k].end < p
      <4>1. \A k \in Rows(u) : archive[u][k] \in Digests
        BY <1>1 DEF Rows
      <4>2. \A e \in Digests : e.end \in Int
        BY DEF Digests, Times
      <4> QED BY <2>2, <3>1, <3>3, <4>1, <4>2
    <3>5. CASE p < w.start
      <4>1. 1..(last - 1) = Rows(u)
        BY <1>6, <1>b DEF Rows
      <4>2. \A m \in 1..(last - 1) : archive'[u][m].end < p
        BY <1>6, <3>4, <4>1
      <4> QED BY <1>2, <1>6, <1>9, <3>1, <3>5, <4>2
    <3>6. CASE ~(p < w.start)
      <4>1. w.start > w.floor => p # w.start
        BY <1>1, <1>3, <1>4, <3>3, <3>4 DEF RunSound, WindowSound
      <4>2. InWindow(w, p)
        BY <3>2, <3>3, <3>6, <4>1 DEF InWindow
      <4>3. i \in w.chosen \/ w.end <= item[i].stored
        BY <1>3, <1>4, <4>2 DEF RunSound, ChosenSound
      <4> QED BY <1>2, <1>6, <1>9, <3>1, <3>2, <4>3
    <3> QED BY <3>5, <3>6
  <2> QED BY <2>1, <2>2
<1> QED BY <1>11, <1>12, <1>13 DEF IInv

-----------------------------------------------------------------------------
\* A step around the runs: items are kept, no row is inserted, and each run
\* stays or is over.
LEMMA WorldMoves ==
  ASSUME IInv, TypeOK', ItemsKept, UNCHANGED archive,
         \A r \in Runs : run'[r] = run[r] \/ run'[r].stage \in {"idle", "starting"}
  PROVE  IInv'
<1>1. \A u \in Users : Len(archive[u]) \in Nat
  BY DEF IInv, TypeOK
<1>2. ASSUME NEW r \in Runs PROVE RunSound(r)'
  <2>1. CASE run'[r] = run[r]
    BY <1>1, <2>1, SameRun DEF IInv, RunsSound
  <2>2. CASE run'[r].stage \in {"idle", "starting"}
    BY <2>2, QuietRun
  <2> QED BY <2>1, <2>2
<1> QED BY <1>2, SameRows DEF IInv, RunsSound

\* The inductive invariant holds at the start.
LEMMA InvInit == Init => IInv
<1> SUFFICES ASSUME Init PROVE IInv
  OBVIOUS
<1>1. TypeOK
  <2>1. archive \in [Users -> Seq(Digests)]
    BY DEF Init
  <2>2. item \in [Items -> [published : Times \cup {None},
                            stored : Times \cup {None}]]
    BY DEF Init, NotStored
  <2> QED BY <2>1, <2>2, IdleType DEF Init, TypeOK, Times, None
<1>2. RunsSound
  BY DEF Init, Idle, Call, RunsSound, RunSound, EndPassed, WindowSound,
         ChosenSound
<1>3. \A u \in Users : Rows(u) = {}
  BY DEF Init, Rows
<1> QED BY <1>1, <1>2, <1>3 DEF IInv, RowsSound, NothingSkipped

\* Every step keeps it.
LEMMA InvStep == IInv /\ [Next]_vars => IInv'
<1> SUFFICES ASSUME IInv, [Next]_vars PROVE IInv'
  OBVIOUS
<1>0. TypeOK'
  BY TypeStep DEF IInv
<1>1. CASE Fire
  <2>1. ItemsKept /\ UNCHANGED archive
    BY <1>1 DEF Fire, IInv, TypeOK, ItemsKept, Times
  <2>2. run' = [run EXCEPT !["cron"] = Call("starting", None, 0, 0, 1)]
    BY <1>1 DEF Fire, StartWith, Update
  <2>3. \A r \in Runs : run'[r] = run[r] \/ run'[r].stage = "starting"
    BY <2>2 DEF Call, IInv, TypeOK
  <2> QED BY <1>0, <2>1, <2>3, WorldMoves
<1>2. ASSUME NEW m \in Manuals, NEW over \in Lookbacks \cup {None},
             Trigger(m, over)
      PROVE  IInv'
  <2>1. ItemsKept /\ UNCHANGED archive
    BY <1>2 DEF Trigger, IInv, TypeOK, ItemsKept, Times
  <2>2. run' = [run EXCEPT ![m] = Call("starting", over, 0, 0, 1)]
    BY <1>2 DEF Trigger, StartWith, Update
  <2>3. \A r \in Runs : run'[r] = run[r] \/ run'[r].stage = "starting"
    BY <2>2 DEF Call, IInv, TypeOK
  <2> QED BY <1>0, <2>1, <2>3, WorldMoves
<1>3. ASSUME NEW r \in Runs, RunStep(r) PROVE IInv'
  <2>1. CASE Begin(r)
    <3> DEFINE floor == now - (IF run[r].over = None THEN lookback
                                                     ELSE run[r].over)
    <3>1. /\ run' = [run EXCEPT ![r] =
                       Call("boundary", run[r].over, now, floor, 1)]
          /\ UNCHANGED <<now, item, archive>>
      BY <2>1 DEF Begin, Update
    <3>2. /\ run'[r] = Call("boundary", run[r].over, now, floor, 1)
          /\ \A q \in Runs \ {r} : run'[q] = run[q]
      BY <3>1 DEF IInv, TypeOK
    <3>3. run'[r].stage = "boundary" /\ run'[r].end <= now'
      BY <3>1, <3>2 DEF Call, IInv, TypeOK, Times
    <3> QED BY <1>0, <3>1, <3>2, <3>3, BoundaryRun, RunMoves
  <2>2. CASE BeginFails(r)
    <3>1. /\ run' = [run EXCEPT ![r] = Idle]
          /\ UNCHANGED <<now, item, archive>>
      BY <2>2 DEF BeginFails, Update
    <3>2. /\ run'[r].stage = "idle"
          /\ \A q \in Runs \ {r} : run'[q] = run[q]
      BY <3>1 DEF Idle, Call, IInv, TypeOK
    <3> QED BY <1>0, <3>1, <3>2, QuietRun, RunMoves
  <2>3. CASE BuildFails(r)
    <3>1. /\ run' = [run EXCEPT ![r] = NextUser(run[r])]
          /\ run[r].stage \in {"gather", "build"}
          /\ UNCHANGED <<now, item, archive>>
      BY <2>3 DEF BuildFails, Update
    <3>2. /\ run'[r] = NextUser(run[r])
          /\ \A q \in Runs \ {r} : run'[q] = run[q]
      BY <3>1 DEF IInv, TypeOK
    <3>3. RunSound(r)'
      BY <3>1, <3>2, NextUserSound DEF IInv, RunsSound
    <3> QED BY <1>0, <3>1, <3>2, <3>3, RunMoves
  <2> QED BY <1>0, <1>3, <2>1, <2>2, <2>3, ReadBoundarySound, GatherSound,
             ArchiveSound DEF RunStep
<1>4. ASSUME NEW i \in Items, NEW published \in Times, StoreItem(i, published)
      PROVE  IInv'
  <2>1. \A j \in Items : item'[j] = item[j]
                          \/ (~Stored(j) /\ item'[j].stored = now)
    BY <1>4 DEF StoreItem, IInv, TypeOK
  <2>2. ItemsKept
    BY <1>4, <2>1 DEF StoreItem, ItemsKept, IInv, TypeOK, Times
  <2> QED BY <1>0, <1>4, <2>2, WorldMoves DEF StoreItem
<1>5. ASSUME NEW value \in Lookbacks, SetLookback(value) PROVE IInv'
  <2>1. ItemsKept
    BY <1>5 DEF SetLookback, ItemsKept, IInv, TypeOK, Times
  <2> QED BY <1>0, <1>5, <2>1, WorldMoves DEF SetLookback
<1>6. CASE ClockTicks
  <2>1. ItemsKept
    BY <1>6 DEF ClockTicks, ItemsKept, IInv, TypeOK, Times
  <2> QED BY <1>0, <1>6, <2>1, WorldMoves DEF ClockTicks
<1>7. CASE Restart
  <2>1. ItemsKept
    BY <1>7 DEF Restart, ItemsKept, IInv, TypeOK, Times
  <2>2. \A r \in Runs : run'[r].stage = "idle"
    BY <1>7 DEF Restart, Idle, Call
  <2> QED BY <1>0, <1>7, <2>1, <2>2, WorldMoves DEF Restart
<1>8. CASE UNCHANGED vars
  <2>1. ItemsKept
    BY <1>8 DEF vars, ItemsKept, IInv, TypeOK, Times
  <2> QED BY <1>0, <1>8, <2>1, WorldMoves DEF vars
<1> QED BY <1>1, <1>2, <1>3, <1>4, <1>5, <1>6, <1>7, <1>8 DEF Next

-----------------------------------------------------------------------------
\* The strengthened invariant, of all behaviours: what every run under way
\* and every row of the archive still know of the rows before them.
THEOREM Inductive == Spec => []IInv
<1> QED BY InvInit, InvStep, PTL DEF Spec

\* Every variable keeps its type: run_all's loop ends with the last user.
THEOREM TypeCorrect == Spec => []TypeOK
<1>1. IInv => TypeOK
  BY DEF IInv
<1> QED BY <1>1, Inductive, PTL

\* A row shares an item with a row its run knew of only at a boundary that
\* was exactly the look-back away (digest/mod.rs, start_exclusive).
LEMMA SharedItem == IInv => NoReprint
<1> SUFFICES ASSUME IInv, NEW u \in Users, NEW n \in Rows(u),
                    NEW m \in 1..archive[u][n].known,
                    NEW i \in archive[u][n].items \cap archive[u][m].items
             PROVE  /\ item[i].published = archive[u][n].floor
                    /\ item[i].published = archive[u][m].end
  BY DEF NoReprint
<1> DEFINE d == archive[u][n]
           b == archive[u][m]
           p == item[i].published
<1>1. RowSound(u, n) /\ d \in Digests /\ archive[u] \in Seq(Digests)
  BY DEF IInv, RowsSound, TypeOK, Rows
<1>2. m \in Rows(u)
  BY <1>1 DEF RowSound, Rows, Digests
<1>3. RowSound(u, m) /\ b \in Digests
  BY <1>1, <1>2 DEF IInv, RowsSound, Rows
<1>4. i \in Items
  BY <1>1 DEF Digests
<1>5. InWindow(d, p) /\ InWindow(b, p) /\ b.end <= d.start /\ d.floor <= d.start
  BY <1>1, <1>3 DEF RowSound
<1>6. p \in Int /\ d.start \in Int /\ d.floor \in Int /\ b.end \in Int
  <2>1. item[i] \in [published : Times \cup {None},
                     stored : Times \cup {None}]
    BY <1>4 DEF IInv, TypeOK
  <2>2. p \in Int
    BY <2>1 DEF Times, None
  <2>3. d.start \in Int /\ d.floor \in Int /\ b.end \in Int
    <3>1. \A e \in Digests : e.start \in Int /\ e.floor \in Int /\ e.end \in Int
      BY DEF Digests, Times
    <3> HIDE DEF d, b
    <3> QED BY <1>1, <1>3, <3>1
  <2> QED BY <2>2, <2>3
<1> HIDE DEF d, b, p
<1>7. p = b.end /\ p = d.start /\ ~(d.start > d.floor)
  BY <1>5, <1>6 DEF InWindow
<1> QED BY <1>5, <1>6, <1>7 DEF d, b, p

\* No reprint, for every schedule of runs, failures and restarts.
THEOREM NoReprintHolds == Spec => []NoReprint
<1> QED BY Inductive, SharedItem, PTL

\* Nothing is skipped, for every schedule of runs, failures and restarts.
THEOREM NothingSkippedHolds == Spec => []NothingSkipped
<1>1. IInv => NothingSkipped
  BY DEF IInv
<1> QED BY <1>1, Inductive, PTL
=============================================================================
