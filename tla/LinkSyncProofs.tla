--------------------------- MODULE LinkSyncProofs ---------------------------
(***************************************************************************)
(* Theorems about LinkSync, for any links, histories, runs and bounds.     *)
(***************************************************************************)
EXTENDS LinkSync, FiniteSetTheorems, TLAPS

USE LinkSyncAssumption, NoLinkRecord DEF LinkSyncAssumption

-----------------------------------------------------------------------------
(* Types *)

\* A run's fields, whichever its step
LEMMA RunFields ==
  ASSUME NEW run \in Running
  PROVE  /\ run.pc \in {"getStored", "getFresh", "execute", "announce"}
         /\ run.link \in Links
         /\ run.stored \in Record \cup {NoRecord}
         /\ run.fresh \in Nat
         /\ run.tries \in 1..MaxTries
         /\ run.loud \in BOOLEAN
         /\ run # Idle
         /\ run = [pc |-> run.pc, link |-> run.link, stored |-> run.stored,
                   fresh |-> run.fresh, tries |-> run.tries, loud |-> run.loud]
BY DEF Running, Idle

\* A run with a step of its own is in flight
LEMMA Stepping ==
  ASSUME TypeOK, NEW t \in Tasks, task[t] # Idle \/ task[t].pc # "idle"
  PROVE  task[t] \in Running
BY DEF TypeOK, Idle

\* A new attempt is a run that read nothing yet
LEMMA AttemptType ==
  ASSUME NEW k \in Links, NEW n \in 1..MaxTries, NEW loud \in BOOLEAN
  PROVE  /\ Attempt(k, n, loud) \in Running
         /\ Attempt(k, n, loud).pc = "getStored"
         /\ Attempt(k, n, loud).link = k
         /\ Attempt(k, n, loud).stored = NoRecord
         /\ Attempt(k, n, loud).fresh = 0
BY DEF Attempt, Running

LEMMA RowFields ==
  ASSUME NEW r \in Record
  PROVE  /\ r.rev \in Nat /\ r.up \in BOOLEAN /\ r.other \in Others
         /\ r.updated_at \in Nat /\ r.asOf \in Nat
         /\ r # NoRecord
BY DEF Record

\* The script of a link, and the index of its state
LEMMA ScriptType ==
  ASSUME TypeOK, NEW k \in Links
  PROVE  /\ States(k) \in Seq(State)
         /\ Kind(k) \in Kinds
         /\ now[k] \in 0..Len(States(k))
         /\ now[k] \in Nat
         /\ Len(States(k)) \in Nat
<1>1. script[k] \in Scripts
  BY DEF TypeOK
<1>2. script[k] \in [kind : Kinds, states : Seq(State)]
  BY <1>1
<1>3. States(k) \in Seq(State) /\ Kind(k) \in Kinds
  BY <1>2 DEF States, Kind
<1>4. Len(States(k)) \in Nat
  BY <1>3
<1>5. now[k] \in 0..Len(States(k))
  BY DEF TypeOK
<1>. QED
  BY <1>3, <1>4, <1>5

\* A state in which the link is there has contents to write
LEMMA ContentsType ==
  ASSUME TypeOK, NEW k \in Links, NEW i \in Nat, i <= now[k], IsThere(k, i)
  PROVE  /\ i # 0
         /\ Contents(k, i).up \in BOOLEAN
         /\ Contents(k, i).up = (StateOf(k, i).state = "up")
         /\ Contents(k, i).other \in Others
         /\ Contents(k, i).other = StateOf(k, i).other
         /\ Contents(k, i).updated_at \in Nat
         /\ Contents(k, i).updated_at = IF Kind(k) = "policy" THEN i ELSE 0
<1>1. i # 0
  BY DEF IsThere, StateOf
<1>2. i \in 1..Len(States(k))
  BY <1>1, ScriptType
<1>3. States(k)[i] \in State
  BY <1>2, ScriptType
<1>4. StateOf(k, i) \in State
  BY <1>1, <1>3 DEF StateOf
<1>5. StateOf(k, i).other \in Others
  BY <1>4 DEF State
<1>. QED
  BY <1>1, <1>5 DEF Contents

LEMMA RowType ==
  ASSUME NEW rev \in Nat, NEW c, c.up \in BOOLEAN, c.other \in Others,
         c.updated_at \in Nat, NEW i \in Nat
  PROVE  /\ Row(rev, c, i) \in Record
         /\ Row(rev, c, i) # NoRecord
         /\ Row(rev, c, i).rev = rev
         /\ Row(rev, c, i).up = c.up
         /\ Row(rev, c, i).other = c.other
         /\ Row(rev, c, i).updated_at = c.updated_at
         /\ Row(rev, c, i).asOf = i
BY DEF Row, Record

-----------------------------------------------------------------------------
(* Rows and the states they were taken from *)

\* A row made of the contents of state i says what state i says
LEMMA CreatedSays ==
  ASSUME TypeOK, NEW k \in Links, NEW i \in Nat, i <= now[k], IsThere(k, i)
  PROVE  LET r == Row(0, Contents(k, i), i)
         IN  r \in Record /\ Reflects(k, r) /\ Says(k, r, i)
<1>. DEFINE r == Row(0, Contents(k, i), i)
<1>1. /\ r \in Record /\ r # NoRecord
      /\ r.up = (StateOf(k, i).state = "up")
      /\ r.other = StateOf(k, i).other
      /\ r.updated_at = IF Kind(k) = "policy" THEN i ELSE 0
      /\ r.asOf = i
  BY ContentsType, RowType
<1>. HIDE DEF r
<1>2. Says(k, r, i)
  BY <1>1 DEF Says, Tells
<1>3. Reflects(k, r)
  BY <1>1, <1>2 DEF Reflects
<1>. QED
  BY <1>1, <1>2, <1>3 DEF r

\* What an update takes over of a link that is there
LEMMA FreshFacts ==
  ASSUME TypeOK, NEW k \in Links, NEW i \in Nat, i <= now[k], IsThere(k, i),
         NEW s \in Record
  PROVE  LET c == FreshContents(k, s, i)
         IN  /\ LinkUpdate(k, s, i) = c
             /\ c.up \in BOOLEAN /\ c.up = (StateOf(k, i).state = "up")
             /\ c.other \in Others
             /\ Tells(k, i) => c.other = StateOf(k, i).other
             /\ c.updated_at \in Nat
             /\ c.updated_at = IF Kind(k) = "policy" THEN i ELSE 0
<1>. DEFINE c == FreshContents(k, s, i)
            d == Contents(k, i)
<1>1. /\ d.up \in BOOLEAN /\ d.up = (StateOf(k, i).state = "up")
      /\ d.other \in Others /\ d.other = StateOf(k, i).other
      /\ d.updated_at \in Nat
      /\ d.updated_at = IF Kind(k) = "policy" THEN i ELSE 0
  BY ContentsType
<1>2. c = [up |-> d.up, other |-> IF Tells(k, i) THEN d.other ELSE s.other,
           updated_at |-> d.updated_at]
  BY DEF FreshContents, Contents
<1>3. LinkUpdate(k, s, i) = c
  BY DEF LinkUpdate
<1>4. s.other \in Others
  BY RowFields
<1>. HIDE DEF c, d
<1>5. /\ c.up = d.up /\ c.other = IF Tells(k, i) THEN d.other ELSE s.other
      /\ c.updated_at = d.updated_at
  BY <1>2
<1>. QED
  BY <1>1, <1>3, <1>4, <1>5 DEF c

\* An update that changes a row s makes it say what state i says
LEMMA UpdatedSays ==
  ASSUME TypeOK, NEW k \in Links, NEW i \in Nat, i <= now[k],
         NEW s \in Record, Reflects(k, s), LinkUpdate(k, s, i) # ContentsOf(s),
         NEW rev \in Nat
  PROVE  LET r == Row(rev, LinkUpdate(k, s, i), i)
         IN  r \in Record /\ Reflects(k, r) /\ Says(k, r, i)
<1>. DEFINE r == Row(rev, LinkUpdate(k, s, i), i)
<1>1. CASE IsThere(k, i)
  <2>. DEFINE c == LinkUpdate(k, s, i)
  <2>1. /\ c.up \in BOOLEAN /\ c.up = (StateOf(k, i).state = "up")
        /\ c.other \in Others
        /\ Tells(k, i) => c.other = StateOf(k, i).other
        /\ c.updated_at \in Nat
        /\ c.updated_at = IF Kind(k) = "policy" THEN i ELSE 0
    BY <1>1, FreshFacts
  <2>. HIDE DEF c
  <2>2. /\ r \in Record /\ r # NoRecord
        /\ r.up = (StateOf(k, i).state = "up")
        /\ Tells(k, i) => r.other = StateOf(k, i).other
        /\ r.updated_at = IF Kind(k) = "policy" THEN i ELSE 0
        /\ r.asOf = i
    <3>. DEFINE q == Row(rev, c, i)
    <3>1. /\ q \in Record /\ q # NoRecord /\ q.up = c.up /\ q.other = c.other
          /\ q.updated_at = c.updated_at /\ q.asOf = i
      <4>1. c.up \in BOOLEAN
        BY <2>1, Zenon
      <4>2. c.other \in Others /\ c.updated_at \in Nat
        BY <2>1
      <4>. QED
        BY <4>1, <4>2, RowType
    <3>2. r = q
      BY DEF c
    <3>. HIDE DEF q, r
    <3>3. /\ q.up = (StateOf(k, i).state = "up")
          /\ Tells(k, i) => q.other = StateOf(k, i).other
          /\ q.updated_at = IF Kind(k) = "policy" THEN i ELSE 0
      BY <2>1, <3>1, Zenon
    <3>. QED
      BY <3>1, <3>2, <3>3
  <2>. HIDE DEF r
  <2>3. Says(k, r, i)
    BY <1>1, <2>2 DEF Says
  <2>4. Reflects(k, r)
    BY <1>1, <2>2, <2>3 DEF Reflects
  <2>. QED
    BY <2>2, <2>3, <2>4 DEF r
<1>2. CASE ~IsThere(k, i)
  <2>1. Kind(k) = "peer" /\ LinkUpdate(k, s, i) = [ContentsOf(s) EXCEPT !.up = FALSE]
    BY <1>2 DEF LinkUpdate, FreshContents, Tells
  <2>2. /\ LinkUpdate(k, s, i).up = FALSE
        /\ LinkUpdate(k, s, i).other \in Others
        /\ LinkUpdate(k, s, i).updated_at = s.updated_at
    <3>1. LinkUpdate(k, s, i) = [up |-> FALSE, other |-> s.other,
                                 updated_at |-> s.updated_at]
      BY <2>1 DEF ContentsOf
    <3>. QED
      BY <3>1, RowFields
  <2>3. s.updated_at = 0
    BY <2>1, RowFields DEF Reflects
  <2>4. /\ r \in Record /\ r # NoRecord
        /\ r.up = FALSE
        /\ r.updated_at = 0
        /\ r.asOf = i
    <3>. DEFINE c == LinkUpdate(k, s, i)
    <3>0. c.up \in BOOLEAN
      BY <2>2, Zenon
    <3>1. c.other \in Others /\ c.updated_at \in Nat
      BY <2>2, <2>3
    <3>2. c.up = FALSE /\ c.updated_at = 0
      BY <2>2, <2>3
    <3>. HIDE DEF c
    <3>3. Row(rev, c, i) \in Record /\ Row(rev, c, i) # NoRecord
      BY <3>0, <3>1, RowType
    <3>4. /\ Row(rev, c, i).up = c.up
          /\ Row(rev, c, i).updated_at = c.updated_at
          /\ Row(rev, c, i).asOf = i
      BY DEF Row
    <3>. QED
      BY <3>2, <3>3, <3>4 DEF c
  <2>. HIDE DEF r
  <2>5. Says(k, r, i)
    BY <1>2, <2>4 DEF Says, Tells
  <2>6. Reflects(k, r)
    BY <1>2, <2>1, <2>4, <2>5 DEF Reflects
  <2>. QED
    BY <2>4, <2>5, <2>6 DEF r
<1>. QED
  BY <1>1, <1>2

\* A row that needs no update for state i says what state i says, and if it is
\* a policy's and the policy is there, it was taken from state i
LEMMA UnchangedSays ==
  ASSUME TypeOK, NEW k \in Links, NEW i \in Nat, i <= now[k],
         NEW s \in Record, Reflects(k, s), LinkUpdate(k, s, i) = ContentsOf(s)
  PROVE  /\ Says(k, s, i)
         /\ (Kind(k) = "policy" /\ IsThere(k, i)) => s.asOf = i
<1>1. CASE IsThere(k, i)
  <2>. DEFINE c == LinkUpdate(k, s, i)
  <2>1. /\ c.up = (StateOf(k, i).state = "up")
        /\ Tells(k, i) => c.other = StateOf(k, i).other
        /\ c.updated_at = IF Kind(k) = "policy" THEN i ELSE 0
    BY <1>1, FreshFacts
  <2>2. s.up = c.up /\ s.other = c.other /\ s.updated_at = c.updated_at
    BY DEF ContentsOf
  <2>. HIDE DEF c
  <2>3. /\ s # NoRecord
        /\ s.up = (StateOf(k, i).state = "up")
        /\ Tells(k, i) => s.other = StateOf(k, i).other
        /\ Kind(k) = "policy" => s.updated_at = i
    BY <2>1, <2>2, RowFields
  <2>4. Kind(k) = "policy" => s.updated_at = s.asOf
    BY <2>3 DEF Reflects
  <2>. QED
    BY <1>1, <2>3, <2>4 DEF Says
<1>2. CASE ~IsThere(k, i)
  <2>1. Kind(k) = "peer" => s.up = FALSE
    <3>1. Kind(k) = "peer" => ContentsOf(s) = [ContentsOf(s) EXCEPT !.up = FALSE]
      BY <1>2 DEF LinkUpdate, FreshContents, Tells
    <3>2. ContentsOf(s).up = s.up /\ [ContentsOf(s) EXCEPT !.up = FALSE].up = FALSE
      BY DEF ContentsOf
    <3>. QED
      BY <3>1, <3>2
  <2>. QED
    BY <1>2, <2>1 DEF Says, Tells
<1>. QED
  BY <1>1, <1>2

LEMMA EarlierTransitive ==
  ASSUME NEW r \in Record \cup {NoRecord}, NEW s \in Record \cup {NoRecord},
         NEW w \in Record, Earlier(s, r),
         r # NoRecord => r.rev < w.rev /\ r.asOf <= w.asOf
  PROVE  Earlier(s, w)
<1>1. CASE s = NoRecord
  BY <1>1 DEF Earlier
<1>2. CASE s # NoRecord
  <2>1. s \in Record /\ r \in Record
    BY <1>2 DEF Earlier
  <2>2. s.rev <= r.rev /\ s.asOf <= r.asOf /\ r.rev < w.rev /\ r.asOf <= w.asOf
    BY <1>2, <2>1 DEF Earlier
  <2>3. s.rev < w.rev /\ s.asOf <= w.asOf /\ w # NoRecord
    BY <2>1, <2>2, RowFields
  <2>4. s.rev # w.rev /\ s.rev <= w.rev
    BY <2>1, <2>3, RowFields
  <2>. QED
    BY <2>3, <2>4 DEF Earlier
<1>. QED
  BY <1>1, <1>2

-----------------------------------------------------------------------------
(* Steps of one run that write no row *)

\* A run that moves, starts or ends keeps the invariant if what it holds is
\* sound, and if it still catches up when it would have.
LEMMA RunMoves ==
  ASSUME LinkInv, NEW t \in Tasks, NEW run \in Running \cup {Idle},
         \A u \in Tasks : task'[u] = IF u = t THEN run ELSE task[u],
         UNCHANGED <<script, now, record, overlap>>, TypeOK',
         run # Idle => RunIsSound(run),
         (run # Idle /\ ~overlap[run.link]) => RunIsFresh(run),
         \A k \in Links : ~missed'[k] => ~missed[k],
         \A k \in Links :
           (~missed'[k] /\ IsLate(k) /\ WillCatchUp(task[t], k)) => WillCatchUp(run, k)
  PROVE  LinkInv'
<1>. USE DEF LinkInv
<1>0. script' = script /\ now' = now /\ record' = record /\ overlap' = overlap
  OBVIOUS
<1>1. RowsReflect'
  BY <1>0 DEF RowsReflect, Reflects, Says, Tells, StateOf, States, Kind, IsThere
<1>2. RunsAreSound'
  <2>. SUFFICES ASSUME NEW u \in Tasks, task'[u] # Idle
                PROVE  RunIsSound(task[u])'
    BY DEF RunsAreSound
  <2>1. RunIsSound(task'[u])
    BY <1>0 DEF RunsAreSound
  <2>2. Reflects(task[u].link, task[u].stored)'
    <3>1. Reflects(task'[u].link, task'[u].stored)
      BY <2>1 DEF RunIsSound
    <3>2. PICK k, r : k = task'[u].link /\ r = task'[u].stored
      OBVIOUS
    <3>3. Reflects(k, r)
      BY <3>1, <3>2, Zenon
    <3>4. Says(k, r, r.asOf) => Says(k, r, r.asOf)'
      BY <1>0 DEF Says, Tells, StateOf, States, Kind, IsThere
    <3>5. IsThere(k, r.asOf) => IsThere(k, r.asOf)'
      BY <1>0 DEF StateOf, States, IsThere
    <3>6. Reflects(k, r)'
      BY <1>0, <3>3, <3>4, <3>5 DEF Reflects, Kind
    <3>. QED
      BY <3>2, <3>6, Zenon
  <2>3. Earlier(task[u].stored, record[task[u].link])'
    <3>1. Earlier(task'[u].stored, record[task'[u].link])
      BY <2>1 DEF RunIsSound
    <3>. QED
      BY <1>0, <3>1 DEF Earlier
  <2>. QED
    BY <1>0, <2>1, <2>2, <2>3 DEF RunIsSound
<1>3. RunsAreFresh'
  <2>. SUFFICES ASSUME NEW u \in Tasks, task'[u] # Idle, ~overlap'[task'[u].link]
                PROVE  RunIsFresh(task[u])'
    BY DEF RunsAreFresh
  <2>1. RunIsFresh(task'[u])
    BY <1>0 DEF RunsAreFresh
  <2>. QED
    BY <1>0, <2>1 DEF RunIsFresh, Matches, Says, Tells, StateOf, States, Kind, IsThere
<1>4. LateIsInHand'
  <2>. SUFFICES ASSUME NEW k \in Links, ~missed'[k], IsLate(k)'
                PROVE  \E u \in Tasks : WillCatchUp(task[u], k)'
    BY DEF LateIsInHand
  <2>1. IsLate(k) /\ ~missed[k]
    BY <1>0 DEF IsLate, AsOf, Matches, Says, Tells, StateOf, States, Kind, IsThere
  <2>2. PICK u \in Tasks : WillCatchUp(task[u], k)
    BY <2>1 DEF LateIsInHand
  <2>3. WillCatchUp(task'[u], k)
    BY <1>0, <2>1, <2>2
  <2>. QED
    BY <1>0, <2>3 DEF WillCatchUp
<1>. QED
  BY <1>1, <1>2, <1>3, <1>4

\* An attempt that begins holds nothing, so nothing of it can be old
LEMMA AttemptIsSound ==
  ASSUME LinkInv, NEW k \in Links, NEW n \in 1..MaxTries, NEW loud \in BOOLEAN
  PROVE  /\ Attempt(k, n, loud) \in Running
         /\ Attempt(k, n, loud) # Idle
         /\ RunIsSound(Attempt(k, n, loud))
         /\ RunIsFresh(Attempt(k, n, loud))
         /\ WillCatchUp(Attempt(k, n, loud), k)
<1>. DEFINE run == Attempt(k, n, loud)
<1>1. /\ run \in Running /\ run # Idle /\ run.pc = "getStored" /\ run.link = k
      /\ run.stored = NoRecord /\ run.fresh = 0
  BY AttemptType, RunFields
<1>. HIDE DEF run
<1>2. now[k] \in Nat
  BY ScriptType DEF LinkInv
<1>3. RunIsSound(run)
  BY <1>1, <1>2 DEF RunIsSound, Reflects, Earlier
<1>4. RunIsFresh(run) /\ WillCatchUp(run, k)
  BY <1>1 DEF RunIsFresh, WillCatchUp
<1>. QED
  BY <1>1, <1>3, <1>4 DEF run

\* syncCurrentRecords starts a run
LEMMA SyncQuietlyKeeps ==
  ASSUME LinkInv, NEW k \in Links, SyncQuietly(k)
  PROVE  LinkInv'
<1>1. PICK t \in Tasks : /\ task[t] = Idle
                         /\ task' = [task EXCEPT ![t] = Attempt(k, 1, FALSE)]
  BY DEF SyncQuietly, Start
<1>2. 1 \in 1..MaxTries /\ FALSE \in BOOLEAN
  OBVIOUS
<1>3. /\ Attempt(k, 1, FALSE) \in Running
      /\ RunIsSound(Attempt(k, 1, FALSE))
      /\ RunIsFresh(Attempt(k, 1, FALSE))
  BY <1>2, AttemptIsSound
<1>4. TypeOK'
  <2>1. task' \in [Tasks -> Running \cup {Idle}]
    BY <1>1, <1>3 DEF LinkInv, TypeOK
  <2>2. quiet' \in 0..MaxQuiet
    BY DEF SyncQuietly, LinkInv, TypeOK
  <2>. QED
    BY <2>1, <2>2 DEF SyncQuietly, LinkInv, TypeOK, lnd, ghosts, States
<1>5. \A j \in Links : ~WillCatchUp(task[t], j)
  BY <1>1 DEF WillCatchUp
<1>6. UNCHANGED <<script, now, record, overlap, missed>>
  BY DEF SyncQuietly, lnd, ghosts
<1>7. \A u \in Tasks : task'[u] = IF u = t THEN Attempt(k, 1, FALSE) ELSE task[u]
  BY <1>1 DEF LinkInv, TypeOK
<1>. QED
  BY <1>1, <1>3, <1>4, <1>5, <1>6, <1>7, RunMoves

\* getStored: the row that is read is the row that is there
LEMMA GetStoredKeeps ==
  ASSUME LinkInv, NEW t \in Tasks, GetStored(t)
  PROVE  LinkInv'
<1>. DEFINE old == task[t]
            k == old.link
            run == [old EXCEPT !.pc = "getFresh", !.stored = record[k]]
<1>1. old \in Running /\ old.pc = "getStored"
  BY Stepping DEF GetStored, LinkInv
<1>2. k \in Links /\ record[k] \in Record \cup {NoRecord}
  BY <1>1, RunFields DEF LinkInv, TypeOK
<1>3. \A u \in Tasks : task'[u] = IF u = t THEN run ELSE task[u]
  BY DEF GetStored, LinkInv, TypeOK
<1>4. /\ run \in Running /\ run # Idle
      /\ run.pc = "getFresh" /\ run.link = k
      /\ run.stored = record[k] /\ run.fresh = old.fresh
  BY <1>1, <1>2 DEF Running, Idle
<1>. HIDE DEF run
<1>5. RunIsSound(run)
  <2>1. Reflects(k, record[k]) /\ Earlier(record[k], record[k])
    BY <1>2, RowFields DEF LinkInv, RowsReflect, Earlier
  <2>2. old.fresh <= now[k]
    BY <1>1, RunFields DEF LinkInv, RunsAreSound, RunIsSound
  <2>. QED
    BY <1>4, <2>1, <2>2 DEF RunIsSound
<1>6. RunIsFresh(run)
  BY <1>4 DEF RunIsFresh
<1>7. TypeOK'
  <2>1. task' \in [Tasks -> Running \cup {Idle}]
    BY <1>1, <1>2, <1>4 DEF GetStored, LinkInv, TypeOK, run
  <2>. QED
    BY <2>1 DEF GetStored, LinkInv, TypeOK, lnd, ghosts, bounds, States
<1>8. \A j \in Links : WillCatchUp(old, j) => WillCatchUp(run, j)
  BY <1>1, <1>4 DEF WillCatchUp
<1>9. UNCHANGED <<script, now, record, overlap, missed>>
  BY DEF GetStored, lnd, ghosts
<1>. QED
  BY <1>3, <1>4, <1>5, <1>6, <1>7, <1>8, <1>9, RunMoves

\* getFresh: LND is asked after the row was read
LEMMA GetFreshKeeps ==
  ASSUME LinkInv, NEW t \in Tasks, GetFresh(t)
  PROVE  LinkInv'
<1>. DEFINE old == task[t]
            k == old.link
            run == [old EXCEPT !.pc = "execute", !.fresh = now[k]]
<1>1. old \in Running /\ old.pc = "getFresh" /\ old # Idle
  BY Stepping, RunFields DEF GetFresh, LinkInv
<1>2. k \in Links /\ now[k] \in Nat /\ old.stored \in Record \cup {NoRecord}
  BY <1>1, RunFields, ScriptType DEF LinkInv
<1>3. \A u \in Tasks : task'[u] = IF u = t THEN run ELSE task[u]
  BY DEF GetFresh, LinkInv, TypeOK
<1>4. /\ run \in Running /\ run # Idle
      /\ run.pc = "execute" /\ run.link = k
      /\ run.stored = old.stored /\ run.fresh = now[k]
  BY <1>1, <1>2 DEF Running, Idle
<1>. HIDE DEF run
<1>5. RunIsSound(run)
  <2>1. Reflects(k, old.stored) /\ Earlier(old.stored, record[k])
    BY <1>1 DEF LinkInv, RunsAreSound, RunIsSound
  <2>2. old.stored # NoRecord => old.stored.asOf <= now[k]
    BY <2>1 DEF Reflects
  <2>. QED
    BY <1>2, <1>4, <2>1, <2>2 DEF RunIsSound
<1>6. ~overlap[run.link] => RunIsFresh(run)
  BY <1>1, <1>4 DEF LinkInv, RunsAreFresh, RunIsFresh
<1>7. TypeOK'
  <2>1. task' \in [Tasks -> Running \cup {Idle}]
    BY <1>1, <1>2, <1>4 DEF GetFresh, LinkInv, TypeOK, run
  <2>. QED
    BY <2>1 DEF GetFresh, LinkInv, TypeOK, lnd, ghosts, bounds, States
<1>8. \A j \in Links : WillCatchUp(old, j) => WillCatchUp(run, j)
  BY <1>1, <1>4 DEF WillCatchUp
<1>9. UNCHANGED <<script, now, record, overlap, missed>>
  BY DEF GetFresh, lnd, ghosts
<1>. QED
  BY <1>3, <1>4, <1>5, <1>6, <1>7, <1>8, <1>9, RunMoves

-----------------------------------------------------------------------------
(* Runs that end, and runs that begin anew *)

\* A call to RunMoves for a run that ends
LEMMA RunEnds ==
  ASSUME LinkInv, NEW t \in Tasks, Finish(t),
         UNCHANGED <<script, now, record, overlap>>, TypeOK',
         \A k \in Links : ~missed'[k] => ~missed[k],
         \A k \in Links :
           ~(~missed'[k] /\ IsLate(k) /\ WillCatchUp(task[t], k))
  PROVE  LinkInv'
<1>1. \A u \in Tasks : task'[u] = IF u = t THEN Idle ELSE task[u]
  BY DEF Finish, LinkInv, TypeOK
<1>. QED
  BY <1>1, RunMoves

\* A failed attempt: the next one reads all anew, the last one counts as missed
LEMMA RetryKeeps ==
  ASSUME LinkInv, NEW t \in Tasks, task[t] # Idle, RetryOrGiveUp(t),
         UNCHANGED <<script, now, record, emitted, born, overlap, quiet>>,
         faults' \in 0..MaxFaults
  PROVE  LinkInv'
<1>. DEFINE old == task[t]
            k == old.link
            again == Attempt(k, old.tries + 1, old.loud)
<1>1. old \in Running
  BY Stepping DEF LinkInv
<1>2. k \in Links /\ old.tries \in 1..MaxTries /\ old.loud \in BOOLEAN
  BY <1>1, RunFields
<1>3. CASE old.tries < MaxTries
  <2>1. task' = [task EXCEPT ![t] = again] /\ missed' = missed
    BY <1>3 DEF RetryOrGiveUp
  <2>2. old.tries + 1 \in 1..MaxTries
    BY <1>2, <1>3
  <2>3. /\ again \in Running
        /\ RunIsSound(again)
        /\ RunIsFresh(again)
        /\ WillCatchUp(again, k)
    BY <1>2, <2>2, AttemptIsSound
  <2>. HIDE DEF again
  <2>4. \A u \in Tasks : task'[u] = IF u = t THEN again ELSE task[u]
    BY <2>1 DEF LinkInv, TypeOK
  <2>5. TypeOK'
    <3>1. task' \in [Tasks -> Running \cup {Idle}]
      BY <2>1, <2>3 DEF LinkInv, TypeOK
    <3>. QED
      BY <2>1, <3>1 DEF LinkInv, TypeOK, States
  <2>6. \A j \in Links : WillCatchUp(old, j) => WillCatchUp(again, j)
    BY <2>3 DEF WillCatchUp
  <2>. QED
    BY <2>1, <2>3, <2>4, <2>5, <2>6, RunMoves
<1>4. CASE ~(old.tries < MaxTries)
  <2>1. Finish(t) /\ missed' = [missed EXCEPT ![k] = TRUE]
    BY <1>4 DEF RetryOrGiveUp
  <2>2. missed' \in [Links -> BOOLEAN]
    BY <2>1 DEF LinkInv, TypeOK
  <2>3. TypeOK'
    <3>1. task' \in [Tasks -> Running \cup {Idle}]
      BY <2>1 DEF LinkInv, TypeOK, Finish
    <3>. QED
      BY <2>2, <3>1 DEF LinkInv, TypeOK, States
  <2>4. \A j \in Links : ~missed'[j] => ~missed[j] /\ j # k
    BY <2>1 DEF LinkInv, TypeOK
  <2>5. \A j \in Links : WillCatchUp(old, j) => j = k
    BY DEF WillCatchUp
  <2>. QED
    BY <2>1, <2>3, <2>4, <2>5, RunEnds
<1>. QED
  BY <1>3, <1>4

LEMMA ConflictKeeps ==
  ASSUME LinkInv, NEW t \in Tasks, Conflict(t)
  PROVE  LinkInv'
<1>1. task[t] # Idle
  BY DEF Conflict, Idle
<1>2. faults' \in 0..MaxFaults
  BY DEF Conflict, bounds, LinkInv, TypeOK
<1>. QED
  BY <1>1, <1>2, RetryKeeps DEF Conflict, lnd, bounds

LEMMA CallFailsKeeps ==
  ASSUME LinkInv, NEW t \in Tasks, CallFails(t)
  PROVE  LinkInv'
<1>1. faults' \in 0..MaxFaults
  BY DEF CallFails, LinkInv, TypeOK
<1>. QED
  BY <1>1, RetryKeeps DEF CallFails, lnd

\* An announcement counts one turn at most
LEMMA AnnounceKeeps ==
  ASSUME LinkInv, NEW t \in Tasks, Announce(t)
  PROVE  LinkInv'
<1>. DEFINE k == task[t].link
<1>1. task[t] \in Running
  BY Stepping DEF Announce, LinkInv
<1>2. k \in Links
  BY <1>1, RunFields
<1>3. emitted' \in [Links -> [{"up", "down"} -> Nat]]
  <2>. DEFINE counts == [e \in {"up", "down"} |->
                           IF task[t].loud /\ e \in Turned(t)
                           THEN emitted[k][e] + 1 ELSE emitted[k][e]]
  <2>1. emitted[k] \in [{"up", "down"} -> Nat]
    BY <1>2 DEF LinkInv, TypeOK
  <2>2. counts \in [{"up", "down"} -> Nat]
    BY <2>1
  <2>3. emitted' = [emitted EXCEPT ![k] = counts]
    BY DEF Announce
  <2>. HIDE DEF counts
  <2>. QED
    BY <2>2, <2>3 DEF LinkInv, TypeOK
<1>4. TypeOK'
  <2>1. task' \in [Tasks -> Running \cup {Idle}]
    BY DEF LinkInv, TypeOK, Announce, Finish
  <2>. QED
    BY <1>3, <2>1 DEF Announce, LinkInv, TypeOK, lnd, ghosts, bounds, States
<1>5. \A j \in Links : ~WillCatchUp(task[t], j)
  BY DEF Announce, WillCatchUp
<1>. QED
  BY <1>4, <1>5, RunEnds DEF Announce, lnd, ghosts

\* A run that finds nothing to do leaves a row that has the last change, when
\* the state it compared with is the last
LEMMA NothingToDoKeeps ==
  ASSUME LinkInv, NEW t \in Tasks, NothingToDo(t)
  PROVE  LinkInv'
<1>. DEFINE old == task[t]
            s == old.stored
<1>1. old \in Running /\ old # Idle /\ old.pc = "execute"
  BY Stepping, RunFields DEF NothingToDo, LinkInv
<1>2. s \in Record \cup {NoRecord} /\ old.link \in Links
  BY <1>1, RunFields
<1>3. TypeOK'
  <2>1. task' \in [Tasks -> Running \cup {Idle}]
    BY DEF LinkInv, TypeOK, NothingToDo, Finish
  <2>. QED
    BY <2>1 DEF NothingToDo, LinkInv, TypeOK, lnd, ghosts, bounds, States
<1>4. ASSUME NEW k \in Links, old.link = k, old.fresh = now[k]
      PROVE  ~IsLate(k)
  <2>1. RunIsSound(old) /\ (~overlap[k] => RunIsFresh(old))
    BY <1>1, <1>4 DEF LinkInv, RunsAreSound, RunsAreFresh
  <2>2. ~overlap[k] => s = record[k] \/ Matches(k)
    BY <1>1, <1>4, <2>1 DEF RunIsFresh
  <2>3. CASE s = NoRecord
    <3>1. ~IsThere(k, now[k])
      BY <1>4, <2>3 DEF NothingToDo, ShouldCreate
    <3>2. ~overlap[k] => Matches(k)
      BY <2>2, <2>3, <3>1 DEF Matches, Says, Tells
    <3>. QED
      BY <3>1, <3>2 DEF IsLate
  <2>4. CASE s # NoRecord
    <3>1. LinkUpdate(k, s, now[k]) = ContentsOf(s)
      BY <1>4, <2>4 DEF NothingToDo, ShouldUpdate
    <3>2. Reflects(k, s) /\ Earlier(s, record[k])
      BY <1>4, <2>1 DEF RunIsSound
    <3>3. now[k] \in Nat /\ now[k] <= now[k]
      BY ScriptType DEF LinkInv
    <3>4. s \in Record /\ TypeOK
      BY <1>2, <2>4 DEF LinkInv
    <3>5. /\ Says(k, s, now[k])
          /\ (Kind(k) = "policy" /\ IsThere(k, now[k])) => s.asOf = now[k]
      BY <3>1, <3>2, <3>3, <3>4, UnchangedSays
    <3>6. CASE Kind(k) = "policy"
      <4>1. record[k] # NoRecord /\ s.asOf <= record[k].asOf
        BY <2>4, <3>2 DEF Earlier
      <4>2. AsOf(record[k]) = record[k].asOf /\ record[k].asOf \in Nat
        BY <4>1, RowFields DEF AsOf, LinkInv, TypeOK
      <4>. QED
        BY <3>3, <3>5, <3>6, <4>1, <4>2 DEF IsLate
    <3>7. CASE Kind(k) # "policy"
      <4>1. ~overlap[k] => Matches(k)
        BY <2>2, <3>5 DEF Matches
      <4>. QED
        BY <3>7, <4>1 DEF IsLate
    <3>. QED
      BY <3>6, <3>7
  <2>. QED
    BY <2>3, <2>4
<1>5. \A k \in Links : ~(IsLate(k) /\ WillCatchUp(old, k))
  BY <1>1, <1>4 DEF WillCatchUp
<1>. QED
  BY <1>3, <1>5, RunEnds DEF NothingToDo, lnd, ghosts

-----------------------------------------------------------------------------
(* The writes *)

\* A row that a run writes on top of an older one, or of none
LEMMA RunWrites ==
  ASSUME LinkInv, NEW t \in Tasks, NEW k \in Links, NEW row \in Record,
         task[t] \in Running, task[t].pc = "execute", task[t].link = k,
         Reflects(k, row), Says(k, row, task[t].fresh), row.asOf = task[t].fresh,
         record[k] # NoRecord => record[k].rev < row.rev,
         record[k] # NoRecord => record[k].asOf <= row.asOf,
         record' = [record EXCEPT ![k] = row],
         task' = [task EXCEPT ![t].pc = "announce"],
         UNCHANGED <<script, now, overlap, missed>>, TypeOK'
  PROVE  LinkInv'
<1>. DEFINE old == task[t]
            done == [old EXCEPT !.pc = "announce"]
<1>1. /\ \A u \in Tasks : u # t => task'[u] = task[u]
      /\ task'[t] = done
      /\ \A j \in Links : record'[j] = IF j = k THEN row ELSE record[j]
  BY DEF LinkInv, TypeOK
<1>2. /\ done # Idle /\ done.pc = "announce" /\ done.link = k
      /\ done.stored = old.stored /\ done.fresh = old.fresh
  BY DEF Running, Idle
<1>. HIDE DEF done
<1>3. script' = script /\ now' = now /\ overlap' = overlap /\ missed' = missed
  OBVIOUS
<1>4. \A j, i : (IsThere(j, i)' <=> IsThere(j, i)) /\ Kind(j)' = Kind(j)
  BY <1>3 DEF IsThere, StateOf, States, Kind
<1>5. \A j, r, i : Says(j, r, i) => Says(j, r, i)'
  BY <1>3 DEF Says, Tells, IsThere, StateOf, States, Kind
<1>6. \A j, r, i : Says(j, r, i)' => Says(j, r, i)
  BY <1>3 DEF Says, Tells, IsThere, StateOf, States, Kind
<1>7. \A j, r : Reflects(j, r) => Reflects(j, r)'
  BY <1>3, <1>4, <1>5 DEF Reflects
<1>8. old # Idle /\ RunIsSound(old) /\ (~overlap[k] => RunIsFresh(old))
  BY RunFields DEF LinkInv, RunsAreSound, RunsAreFresh
<1>9. now[k] \in Nat /\ row.asOf \in Nat
  BY ScriptType, RowFields DEF LinkInv
<1>10. RowsReflect'
  <2>1. \A j \in Links : Reflects(j, record'[j])
    BY <1>1 DEF LinkInv, RowsReflect
  <2>. QED
    BY <1>7, <2>1, Zenon DEF RowsReflect
<1>11. RunsAreSound'
  <2>. SUFFICES ASSUME NEW u \in Tasks, task'[u] # Idle
                PROVE  RunIsSound(task[u])'
    BY DEF RunsAreSound
  <2>. DEFINE l == task[u].link
              s == task[u].stored
  <2>1. /\ task[u] \in Running /\ RunIsSound(task[u])
        /\ task'[u].link = l /\ task'[u].stored = s /\ task'[u].fresh = task[u].fresh
        /\ task'[u].pc = task[u].pc \/ (task[u].pc = "execute" /\ task'[u].pc = "announce")
    BY <1>1, <1>2, <1>8, Stepping DEF LinkInv, RunsAreSound
  <2>2. l \in Links /\ s \in Record \cup {NoRecord}
    BY <2>1, RunFields
  <2>3. Reflects(l, s)'
    <3>1. Reflects(l, s)
      BY <2>1 DEF RunIsSound
    <3>. QED
      BY <1>7, <2>1, <3>1, Zenon
  <2>4. Earlier(s, record'[l])
    <3>1. Earlier(s, record[l])
      BY <2>1 DEF RunIsSound
    <3>2. CASE l = k
      <4>1. record[k] \in Record \cup {NoRecord} /\ record'[k] = row
        BY <1>1 DEF LinkInv, TypeOK
      <4>. QED
        BY <2>2, <3>1, <3>2, <4>1, EarlierTransitive
    <3>3. CASE l # k
      BY <1>1, <2>2, <3>1, <3>3
    <3>. QED
      BY <3>2, <3>3
  <2>5. /\ task[u].fresh <= now[l]
        /\ (task'[u].pc \in {"execute", "announce"} /\ s # NoRecord)
             => s.asOf <= task[u].fresh
    BY <2>1 DEF RunIsSound
  <2>. QED
    BY <1>3, <2>1, <2>3, <2>4, <2>5 DEF RunIsSound
<1>12. ~overlap[k] => Matches(k)'
  <2>1. ~overlap[k] => old.fresh = now[k]
    BY <1>8 DEF RunIsFresh
  <2>2. ~overlap[k] => Says(k, record'[k], now'[k])
    BY <1>1, <1>3, <2>1
  <2>. QED
    BY <1>5, <2>2, Zenon DEF Matches
<1>13. \A j \in Links : j # k => (Matches(j)' <=> Matches(j))
  <2>. SUFFICES ASSUME NEW j \in Links, j # k
                PROVE  Matches(j)' <=> Matches(j)
    OBVIOUS
  <2>1. record'[j] = record[j] /\ now'[j] = now[j]
    BY <1>1, <1>3
  <2>. QED
    BY <1>5, <1>6, <2>1, Zenon DEF Matches
<1>14. RunsAreFresh'
  <2>. SUFFICES ASSUME NEW u \in Tasks, task'[u] # Idle, ~overlap'[task'[u].link]
                PROVE  RunIsFresh(task[u])'
    BY DEF RunsAreFresh
  <2>. DEFINE l == task[u].link
  <2>1. /\ task[u] \in Running
        /\ task'[u].link = l /\ task'[u].fresh = task[u].fresh
        /\ task'[u].stored = task[u].stored
        /\ task'[u].pc = task[u].pc \/ (task[u].pc = "execute" /\ task'[u].pc = "announce")
    BY <1>1, <1>2, <1>8, Stepping DEF LinkInv
  <2>2. l \in Links /\ RunIsFresh(task[u])
    BY <1>3, <2>1, RunFields DEF LinkInv, RunsAreFresh
  <2>3. task'[u].pc \in {"execute", "announce"} => task'[u].fresh = now'[l]
    BY <1>3, <2>1, <2>2 DEF RunIsFresh
  <2>4. task'[u].pc \in {"getFresh", "execute"}
          => task'[u].stored = record'[l] \/ Matches(l)'
    BY <1>1, <1>3, <1>12, <1>13, <2>1, <2>2 DEF RunIsFresh
  <2>. QED
    BY <2>1, <2>3, <2>4 DEF RunIsFresh
<1>15. LateIsInHand'
  <2>. SUFFICES ASSUME NEW j \in Links, ~missed'[j], IsLate(j)'
                PROVE  \E u \in Tasks : WillCatchUp(task[u], j)'
    BY DEF LateIsInHand
  <2>1. IsLate(j) /\ (j = k => old.fresh # now[k])
    <3>1. CASE j = k
      <4>1. Kind(k) = "policy"
        BY <1>3, <1>12, <3>1 DEF IsLate, Kind
      <4>2. /\ IsThere(k, now[k])'
            /\ AsOf(record'[k]) < now'[k]
        <5>1. Kind(k)' = "policy" /\ IsLate(k)'
          BY <1>4, <3>1, <4>1, Zenon
        <5>. QED
          BY <5>1 DEF IsLate
      <4>3. IsThere(k, now[k]) /\ AsOf(row) < now[k]
        BY <1>1, <1>3, <1>4, <4>2
      <4>4. AsOf(row) = row.asOf
        BY RowFields DEF AsOf
      <4>5. AsOf(record[k]) <= row.asOf
        BY <1>9 DEF AsOf
      <4>6. AsOf(record[k]) \in Nat
        BY RowFields DEF AsOf, LinkInv, TypeOK
      <4>7. AsOf(record[k]) < now[k] /\ row.asOf # now[k]
        BY <1>9, <4>3, <4>4, <4>5, <4>6
      <4>. QED
        BY <3>1, <4>1, <4>3, <4>7 DEF IsLate
    <3>2. CASE j # k
      <4>1. record'[j] = record[j] /\ now'[j] = now[j] /\ overlap'[j] = overlap[j]
        BY <1>1, <1>3, <3>2
      <4>2. Matches(j)' <=> Matches(j)
        BY <1>13, <3>2
      <4>3. Kind(j)' = Kind(j)
        BY <1>4
      <4>4. IsThere(j, now[j])' <=> IsThere(j, now[j])
        BY <1>4, <4>1, Zenon
      <4>. QED
        BY <3>2, <4>1, <4>2, <4>3, <4>4 DEF IsLate, AsOf
    <3>. QED
      BY <3>1, <3>2
  <2>2. PICK u \in Tasks : WillCatchUp(task[u], j)
    BY <1>3, <2>1 DEF LinkInv, LateIsInHand
  <2>3. u # t
    BY <2>1, <2>2 DEF WillCatchUp
  <2>4. task'[u] = task[u] /\ now'[j] = now[j]
    BY <1>1, <1>3, <2>3
  <2>. QED
    BY <2>2, <2>4 DEF WillCatchUp
<1>. QED
  BY <1>10, <1>11, <1>14, <1>15 DEF LinkInv

\* A row that is new: there was none
LEMMA ExecuteCreateKeeps ==
  ASSUME LinkInv, NEW t \in Tasks, ExecuteCreate(t)
  PROVE  LinkInv'
<1>. DEFINE k == task[t].link
            i == task[t].fresh
            row == Row(0, Contents(k, i), i)
<1>1. task[t] \in Running /\ task[t] # Idle /\ task[t].pc = "execute"
  BY Stepping, RunFields DEF ExecuteCreate, LinkInv
<1>2. k \in Links /\ i \in Nat /\ RunIsSound(task[t])
  BY <1>1, RunFields DEF LinkInv, RunsAreSound
<1>3. i <= now[k] /\ IsThere(k, i) /\ TypeOK /\ record[k] = NoRecord
  BY <1>2 DEF ExecuteCreate, ShouldCreate, MayPut, RunIsSound, LinkInv
<1>4. row \in Record /\ Reflects(k, row) /\ Says(k, row, i)
  BY <1>2, <1>3, CreatedSays
<1>5. row.asOf = i
  BY DEF Row
<1>6. /\ record' = [record EXCEPT ![k] = row]
      /\ born' = [born EXCEPT ![k] = Contents(k, i).up]
      /\ task' = [task EXCEPT ![t].pc = "announce"]
  BY DEF ExecuteCreate
<1>7. TypeOK'
  <2>1. record' \in [Links -> Record \cup {NoRecord}]
    BY <1>3, <1>4, <1>6 DEF TypeOK
  <2>2. Contents(k, i).up \in BOOLEAN
    BY <1>2, <1>3, ContentsType
  <2>3. born' \in [Links -> BOOLEAN]
    BY <1>3, <1>6, <2>2, Zenon DEF TypeOK
  <2>4. task' \in [Tasks -> Running \cup {Idle}]
    <3>1. [task[t] EXCEPT !.pc = "announce"] \in Running
      BY <1>1 DEF Running
    <3>. QED
      BY <1>3, <1>6, <3>1 DEF TypeOK
  <2>. QED
    BY <1>3, <2>1, <2>3, <2>4 DEF ExecuteCreate, TypeOK, lnd, bounds, States
<1>8. UNCHANGED <<script, now, overlap, missed>>
  BY DEF ExecuteCreate, lnd
<1>. HIDE DEF row
<1>. QED
  BY <1>1, <1>2, <1>3, <1>4, <1>5, <1>6, <1>7, <1>8, RunWrites

\* A row that is revised: the one that was read, and from an earlier state
LEMMA ExecuteUpdateKeeps ==
  ASSUME LinkInv, NEW t \in Tasks, ExecuteUpdate(t)
  PROVE  LinkInv'
<1>. DEFINE k == task[t].link
            i == task[t].fresh
            s == task[t].stored
            row == Row(record[k].rev + 1, LinkUpdate(k, s, i), i)
<1>1. task[t] \in Running /\ task[t] # Idle /\ task[t].pc = "execute"
  BY Stepping, RunFields DEF ExecuteUpdate, LinkInv
<1>2. /\ k \in Links /\ i \in Nat /\ s \in Record \cup {NoRecord}
      /\ RunIsSound(task[t]) /\ TypeOK
  BY <1>1, RunFields DEF LinkInv, RunsAreSound
<1>3. /\ s # NoRecord /\ LinkUpdate(k, s, i) # ContentsOf(s)
      /\ record[k] # NoRecord /\ record[k].rev = s.rev
  BY DEF ExecuteUpdate, ShouldUpdate, MayUpdate
<1>4. /\ s \in Record /\ Reflects(k, s) /\ Earlier(s, record[k])
      /\ i <= now[k] /\ s.asOf <= i
  BY <1>1, <1>2, <1>3 DEF RunIsSound
<1>5. record[k] = s
  BY <1>3, <1>4 DEF Earlier
<1>6. record[k].rev \in Nat /\ record[k].rev + 1 \in Nat
  BY <1>4, <1>5, RowFields
<1>7. row \in Record /\ Reflects(k, row) /\ Says(k, row, i)
  BY <1>2, <1>3, <1>4, <1>6, UpdatedSays
<1>8. row.asOf = i /\ row.rev = record[k].rev + 1
  BY DEF Row
<1>9. /\ record' = [record EXCEPT ![k] = row]
      /\ task' = [task EXCEPT ![t].pc = "announce"]
  BY DEF ExecuteUpdate
<1>. HIDE DEF row
<1>10. record[k].rev < row.rev /\ record[k].asOf <= row.asOf
  BY <1>4, <1>5, <1>6, <1>8
<1>11. TypeOK'
  <2>1. record' \in [Links -> Record \cup {NoRecord}]
    BY <1>2, <1>7, <1>9 DEF TypeOK
  <2>2. task' \in [Tasks -> Running \cup {Idle}]
    <3>1. [task[t] EXCEPT !.pc = "announce"] \in Running
      BY <1>1 DEF Running
    <3>. QED
      BY <1>2, <1>9, <3>1 DEF TypeOK
  <2>. QED
    BY <1>2, <2>1, <2>2 DEF ExecuteUpdate, TypeOK, lnd, ghosts, bounds, States
<1>12. UNCHANGED <<script, now, overlap, missed>>
  BY DEF ExecuteUpdate, lnd, ghosts
<1>. QED
  BY <1>1, <1>2, <1>7, <1>8, <1>9, <1>10, <1>11, <1>12, RunWrites

-----------------------------------------------------------------------------
(* LND moves on *)

\* A change makes no row or run unsound; a run that starts with it will see it
LEMMA LinkChangesKeeps ==
  ASSUME LinkInv, NEW k \in Links, LinkChanges(k)
  PROVE  LinkInv'
<1>1. TypeOK /\ script' = script /\ record' = record
  BY DEF LinkChanges, LinkInv
<1>2. /\ now' = [now EXCEPT ![k] = now[k] + 1]
      /\ overlap' = [overlap EXCEPT ![k] = Busy(k)]
      /\ now[k] < Len(States(k))
  BY DEF LinkChanges
<1>3. \A j \in Links : now[j] \in Nat
  BY <1>1, ScriptType
<1>4. /\ \A j \in Links : now'[j] = IF j = k THEN now[k] + 1 ELSE now[j]
      /\ \A j \in Links : j # k => overlap'[j] = overlap[j] /\ missed'[j] = missed[j]
      /\ overlap'[k] = Busy(k)
  <2>1. \A j \in Links : now'[j] = IF j = k THEN now[k] + 1 ELSE now[j]
    BY <1>1, <1>2 DEF TypeOK
  <2>2. \A j \in Links : j # k => overlap'[j] = overlap[j]
    BY <1>1, <1>2 DEF TypeOK
  <2>3. overlap'[k] = Busy(k)
    BY <1>1, <1>2 DEF TypeOK
  <2>4. \A j \in Links : j # k => missed'[j] = missed[j]
    BY <1>1 DEF LinkChanges, TypeOK
  <2>. QED
    BY <2>1, <2>2, <2>3, <2>4
<1>5. \A j, i : (IsThere(j, i)' <=> IsThere(j, i)) /\ Kind(j)' = Kind(j)
  BY <1>1 DEF IsThere, StateOf, States, Kind
<1>6. \A j, r, i : Says(j, r, i)' <=> Says(j, r, i)
  <2>1. \A j, r, i : Says(j, r, i)' => Says(j, r, i)
    BY <1>1 DEF Says, Tells, IsThere, StateOf, States, Kind
  <2>2. \A j, r, i : Says(j, r, i) => Says(j, r, i)'
    BY <1>1 DEF Says, Tells, IsThere, StateOf, States, Kind
  <2>. QED
    BY <2>1, <2>2, Zenon
<1>7. ASSUME NEW j \in Links, NEW r \in Record \cup {NoRecord}, Reflects(j, r)
      PROVE  Reflects(j, r)'
  <2>1. CASE r = NoRecord
    BY <2>1 DEF Reflects
  <2>2. CASE r # NoRecord
    <3>1. r.asOf \in Nat /\ r.asOf <= now[j]
      BY <1>7, <2>2, RowFields DEF Reflects
    <3>2. r.asOf <= now'[j]
      BY <1>3, <1>4, <3>1
    <3>. QED
      BY <1>5, <1>6, <1>7, <3>2 DEF Reflects
  <2>. QED
    BY <2>1, <2>2
<1>8. \A j \in Links : j # k => (Matches(j)' <=> Matches(j))
  <2>. SUFFICES ASSUME NEW j \in Links, j # k
                PROVE  Matches(j)' <=> Matches(j)
    OBVIOUS
  <2>1. now'[j] = now[j] /\ record'[j] = record[j]
    BY <1>1, <1>4
  <2>. QED
    BY <1>6, <2>1, Zenon DEF Matches
<1>9. RowsReflect'
  <2>1. \A j \in Links : Reflects(j, record[j]) /\ record[j] \in Record \cup {NoRecord}
    BY DEF LinkInv, RowsReflect, TypeOK
  <2>. QED
    BY <1>1, <1>7, <2>1, Zenon DEF RowsReflect
\* a run that was in flight before, or one that starts
<1>10. PICK run \in Running :
         /\ run.pc = "getStored" /\ run.link = k /\ run.stored = NoRecord
         /\ run.fresh = 0
         /\ \/ \E t \in Tasks :
                 /\ task[t] = Idle
                 /\ \A u \in Tasks : task'[u] = IF u = t THEN run ELSE task[u]
            \/ task' = task /\ missed'[k]
  <2>. DEFINE run == Attempt(k, 1, TRUE)
  <2>1. /\ run \in Running /\ run.pc = "getStored" /\ run.link = k
        /\ run.stored = NoRecord /\ run.fresh = 0
    <3>1. 1 \in 1..MaxTries /\ TRUE \in BOOLEAN
      OBVIOUS
    <3>. QED
      BY <3>1, AttemptType
  <2>. HIDE DEF run
  <2>2. CASE Start(k, TRUE)
    BY <1>1, <2>1, <2>2 DEF Start, TypeOK, run
  <2>3. CASE task' = task /\ missed' = [missed EXCEPT ![k] = TRUE]
    BY <1>1, <2>1, <2>3 DEF TypeOK
  <2>. QED
    BY <2>2, <2>3 DEF LinkChanges
<1>11. \A u \in Tasks : task'[u] = task[u] \/ (task'[u] = run /\ task[u] = Idle)
  BY <1>10
<1>12. RunsAreSound'
  <2>. SUFFICES ASSUME NEW u \in Tasks, task'[u] # Idle
                PROVE  RunIsSound(task[u])'
    BY DEF RunsAreSound
  <2>1. CASE task'[u] = run
    <3>1. 0 <= now'[k]
      BY <1>3, <1>4
    <3>. QED
      BY <1>10, <2>1, <3>1 DEF RunIsSound, Reflects, Earlier
  <2>2. CASE task'[u] = task[u]
    <3>. DEFINE l == task[u].link
                s == task[u].stored
    <3>1. task[u] \in Running /\ RunIsSound(task[u])
      BY <2>2, Stepping DEF LinkInv, RunsAreSound
    <3>2. l \in Links /\ s \in Record \cup {NoRecord} /\ task[u].fresh \in Nat
      BY <3>1, RunFields
    <3>3. Reflects(l, s)'
      <4>1. Reflects(l, s)
        BY <3>1 DEF RunIsSound
      <4>. QED
        BY <1>7, <2>2, <3>2, <4>1, Zenon
    <3>4. task[u].fresh <= now'[l]
      <4>1. task[u].fresh <= now[l]
        BY <3>1 DEF RunIsSound
      <4>. QED
        BY <1>3, <1>4, <3>2, <4>1
    <3>5. /\ Earlier(s, record[l])
          /\ (task[u].pc \in {"execute", "announce"} /\ s # NoRecord)
               => s.asOf <= task[u].fresh
      BY <3>1 DEF RunIsSound
    <3>. QED
      BY <1>1, <2>2, <3>3, <3>4, <3>5 DEF RunIsSound
  <2>. QED
    BY <1>11, <2>1, <2>2
<1>13. RunsAreFresh'
  <2>. SUFFICES ASSUME NEW u \in Tasks, task'[u] # Idle, ~overlap'[task'[u].link]
                PROVE  RunIsFresh(task[u])'
    BY DEF RunsAreFresh
  <2>1. CASE task'[u] = run
    BY <1>10, <2>1 DEF RunIsFresh
  <2>2. CASE task'[u] = task[u]
    <3>. DEFINE l == task[u].link
    <3>1. task[u] \in Running /\ l \in Links
      BY <1>1, <2>2, Stepping, RunFields
    <3>2. l # k
      BY <1>4, <2>2 DEF Busy
    <3>3. RunIsFresh(task[u])
      BY <1>4, <2>2, <3>1, <3>2 DEF LinkInv, RunsAreFresh
    <3>4. /\ now'[l] = now[l] /\ record'[l] = record[l]
          /\ Matches(l) => Matches(l)'
      <4>1. now'[l] = now[l] /\ record'[l] = record[l]
        BY <1>1, <1>4, <3>1, <3>2
      <4>2. Matches(l) => Matches(l)'
        <5>1. task'[u].link = l
          BY <2>2
        <5>. QED
          BY <1>8, <3>1, <3>2, <5>1, Zenon
      <4>. QED
        BY <4>1, <4>2, Zenon
    <3>5. /\ task[u].pc \in {"execute", "announce"} => task[u].fresh = now'[l]
          /\ task[u].pc \in {"getFresh", "execute"}
               => task[u].stored = record'[l] \/ Matches(l)'
      BY <3>3, <3>4 DEF RunIsFresh
    <3>. QED
      BY <2>2, <3>5 DEF RunIsFresh
  <2>. QED
    BY <1>11, <2>1, <2>2
<1>14. LateIsInHand'
  <2>. SUFFICES ASSUME NEW j \in Links, ~missed'[j], IsLate(j)'
                PROVE  \E u \in Tasks : WillCatchUp(task[u], j)'
    BY DEF LateIsInHand
  <2>1. CASE j = k
    <3>1. PICK t \in Tasks : task'[t] = run
      BY <1>10, <2>1
    <3>. QED
      BY <1>10, <2>1, <3>1, RunFields DEF WillCatchUp
  <2>2. CASE j # k
    <3>1. record'[j] = record[j] /\ now'[j] = now[j] /\ overlap'[j] = overlap[j]
      BY <1>1, <1>4, <2>2
    <3>2. IsThere(j, now[j])' <=> IsThere(j, now[j])
      BY <1>5, <3>1, Zenon
    <3>3. (Matches(j)' <=> Matches(j)) /\ Kind(j)' = Kind(j)
      BY <1>5, <1>8, <2>2
    <3>4. IsLate(j) /\ ~missed[j]
      BY <1>4, <2>2, <3>1, <3>2, <3>3 DEF IsLate, AsOf
    <3>5. PICK u \in Tasks : WillCatchUp(task[u], j)
      BY <3>4 DEF LinkInv, LateIsInHand
    <3>6. task'[u] = task[u]
      BY <1>11, <3>5 DEF WillCatchUp
    <3>. QED
      BY <3>1, <3>5, <3>6 DEF WillCatchUp
  <2>. QED
    BY <2>1, <2>2
<1>15. TypeOK'
  <2>1. task' \in [Tasks -> Running \cup {Idle}]
    <3>1. task' = task \/ Start(k, TRUE)
      BY DEF LinkChanges
    <3>2. Attempt(k, 1, TRUE) \in Running
      <4>1. 1 \in 1..MaxTries /\ TRUE \in BOOLEAN
        OBVIOUS
      <4>. QED
        BY <4>1, AttemptType
    <3>. QED
      BY <1>1, <3>1, <3>2 DEF Start, TypeOK
  <2>2. missed' \in [Links -> BOOLEAN]
    BY <1>1 DEF LinkChanges, TypeOK
  <2>3. overlap' \in [Links -> BOOLEAN]
    <3>1. Busy(k) \in BOOLEAN
      BY DEF Busy
    <3>. QED
      BY <1>1, <1>2, <3>1, Zenon DEF TypeOK
  <2>4. now' \in [Links -> Nat]
    BY <1>1, <1>2, <1>3 DEF TypeOK
  <2>5. \A j \in Links : now'[j] <= Len(States(j))'
    <3>1. \A j \in Links : now[j] <= Len(States(j)) /\ Len(States(j)) \in Nat
      BY <1>1, ScriptType
    <3>2. \A j \in Links : now'[j] <= Len(States(j))
      BY <1>2, <1>3, <1>4, <3>1
    <3>. QED
      BY <1>1, <3>2 DEF States
  <2>. QED
    BY <1>1, <2>1, <2>2, <2>3, <2>4, <2>5 DEF LinkChanges, TypeOK, bounds
<1>. QED
  BY <1>9, <1>12, <1>13, <1>14, <1>15 DEF LinkInv

-----------------------------------------------------------------------------
(* The theorems *)

LEMMA InitEstablishes ==
  ASSUME Init
  PROVE  LinkInv
<1>1. TypeOK
  <2>1. \A k \in Links : Len(States(k)) \in Nat
    <3>. SUFFICES ASSUME NEW k \in Links PROVE Len(States(k)) \in Nat
      OBVIOUS
    <3>1. script[k] \in [kind : Kinds, states : Seq(State)]
      BY DEF Init
    <3>2. States(k) \in Seq(State)
      BY <3>1 DEF States
    <3>. QED
      BY <3>2
  <2>2. now \in [Links -> Nat] /\ \A k \in Links : now[k] <= Len(States(k))
    BY <2>1 DEF Init
  <2>3. emitted \in [Links -> [{"up", "down"} -> Nat]]
    BY DEF Init
  <2>. QED
    BY <2>2, <2>3 DEF Init, TypeOK
<1>2. \A k \in Links : record[k] = NoRecord /\ ~IsThere(k, now[k])
  BY DEF Init, IsThere, StateOf
<1>3. RowsReflect
  BY <1>2 DEF RowsReflect, Reflects
<1>4. RunsAreSound /\ RunsAreFresh
  BY DEF Init, RunsAreSound, RunsAreFresh
<1>5. LateIsInHand
  BY <1>2 DEF LateIsInHand, IsLate, Matches, Says, Tells
<1>. QED
  BY <1>1, <1>3, <1>4, <1>5 DEF LinkInv

\* What is left alone is kept: a run in flight, or none, that moves to itself
LEMMA StutterKeeps ==
  ASSUME LinkInv,
         UNCHANGED <<script, now, record, task, emitted, born, missed, overlap,
                     faults, quiet>>
  PROVE  LinkInv'
<1>1. TypeOK'
  BY DEF LinkInv, TypeOK, States
<1>2. CASE Tasks = {}
  <2>1. RowsReflect'
    BY DEF LinkInv, RowsReflect, Reflects, Says, Tells, StateOf, States, Kind, IsThere
  <2>2. LateIsInHand'
    <3>. SUFFICES ASSUME NEW k \in Links, ~missed'[k], IsLate(k)'
                  PROVE  FALSE
      BY DEF LateIsInHand
    <3>1. ~missed[k] /\ IsLate(k)
      BY DEF IsLate, AsOf, Matches, Says, Tells, StateOf, States, Kind, IsThere
    <3>. QED
      BY <1>2, <3>1 DEF LinkInv, LateIsInHand
  <2>. QED
    BY <1>1, <1>2, <2>1, <2>2 DEF LinkInv, RunsAreSound, RunsAreFresh
<1>3. ASSUME NEW t \in Tasks
      PROVE  LinkInv'
  <2>1. task[t] \in Running \cup {Idle}
    BY DEF LinkInv, TypeOK
  <2>. QED
    BY <1>1, <2>1, RunMoves DEF LinkInv, RunsAreSound, RunsAreFresh
<1>. QED
  BY <1>2, <1>3

LEMMA NextKeeps ==
  ASSUME LinkInv, [Next]_vars
  PROVE  LinkInv'
<1>1. ASSUME NEW k \in Links, LinkChanges(k) \/ SyncQuietly(k)
      PROVE  LinkInv'
  BY <1>1, LinkChangesKeeps, SyncQuietlyKeeps
<1>2. ASSUME NEW t \in Tasks, Step(t)
      PROVE  LinkInv'
  BY <1>2, GetStoredKeeps, GetFreshKeeps, NothingToDoKeeps, ExecuteCreateKeeps,
     ExecuteUpdateKeeps, AnnounceKeeps, ConflictKeeps DEF Step
<1>3. ASSUME NEW t \in Tasks, CallFails(t)
      PROVE  LinkInv'
  BY <1>3, CallFailsKeeps
<1>4. ASSUME UNCHANGED vars
      PROVE  LinkInv'
  <2>1. UNCHANGED <<lnd, record, task, emitted, ghosts, bounds>>
    BY <1>4 DEF vars
  <2>. QED
    BY <2>1, StutterKeeps DEF lnd, ghosts, bounds
<1>. QED
  BY <1>1, <1>2, <1>3, <1>4 DEF Next, Quiescent

\* The rows, the runs and LND stay in the relation LinkInv states: syncChannelPolicy,
\* syncPeer and syncLocalChannel with their retries, for any links, histories
\* and numbers of runs and faults.
THEOREM InvariantHolds == Spec => []LinkInv
<1>. QED
  BY InitEstablishes, NextKeeps, PTL DEF Spec

\* The variables keep their types.
THEOREM TypesHold == Spec => []TypeOK
<1>1. LinkInv => TypeOK
  BY DEF LinkInv
<1>. QED
  BY <1>1, InvariantHolds, PTL

\* Once the runs of a link are done its row says what LND says: always for a
\* policy, for a peer or a channel if no run was under way as it changed last.
THEOREM TableIsFollowed == Spec => []TableFollows
<1>1. ASSUME LinkInv
      PROVE  TableFollows
  <2>. SUFFICES ASSUME NEW k \in Links, IsFollowed(k), ~Busy(k)
                PROVE  Matches(k)
    BY DEF TableFollows
  <2>1. ~IsLate(k)
    <3>1. \A t \in Tasks : ~WillCatchUp(task[t], k)
      BY DEF Busy, WillCatchUp
    <3>. QED
      BY <1>1, <3>1 DEF LinkInv, LateIsInHand, IsFollowed
  <2>2. CASE Kind(k) # "policy"
    BY <2>1, <2>2 DEF IsLate, IsFollowed
  <2>3. CASE Kind(k) = "policy"
    <3>1. CASE ~IsThere(k, now[k])
      BY <2>3, <3>1 DEF Matches, Says, Tells
    <3>2. CASE IsThere(k, now[k])
      <4>1. now[k] \in Nat /\ now[k] # 0
        BY <1>1, <3>2, ScriptType DEF LinkInv, IsThere, StateOf
      <4>2. record[k] # NoRecord
        BY <2>1, <2>3, <3>2, <4>1 DEF IsLate, AsOf
      <4>3. /\ record[k].asOf \in Nat /\ record[k].asOf <= now[k]
            /\ Says(k, record[k], record[k].asOf)
        BY <1>1, <4>2, RowFields DEF LinkInv, TypeOK, RowsReflect, Reflects
      <4>4. ~(record[k].asOf < now[k])
        BY <2>1, <2>3, <3>2, <4>2 DEF IsLate, AsOf
      <4>5. record[k].asOf = now[k]
        BY <4>1, <4>3, <4>4
      <4>. QED
        BY <4>3, <4>5 DEF Matches
    <3>. QED
      BY <3>1, <3>2
  <2>. QED
    BY <2>2, <2>3
<1>. QED
  BY <1>1, InvariantHolds, PTL

\* The stored details of a policy are those of its stored updated_at, however
\* the runs of syncChannelPolicy interleave.
THEOREM PoliciesAreOfTheirTime == Spec => []PolicyIsOfItsTime
<1>1. ASSUME LinkInv
      PROVE  PolicyIsOfItsTime
  <2>. SUFFICES ASSUME NEW k \in Links, Kind(k) = "policy", record[k] # NoRecord
                PROVE  ContentsOf(record[k]) = Contents(k, record[k].updated_at)
    BY DEF PolicyIsOfItsTime
  <2>. DEFINE r == record[k]
              i == r.asOf
  <2>1. r.updated_at = i /\ IsThere(k, i) /\ Says(k, r, i)
    BY <1>1 DEF LinkInv, RowsReflect, Reflects
  <2>2. r.up = (StateOf(k, i).state = "up") /\ r.other = StateOf(k, i).other
    BY <2>1 DEF Says, Tells
  <2>3. ContentsOf(r) = [up |-> r.up, other |-> r.other, updated_at |-> i]
    BY <2>1 DEF ContentsOf
  <2>4. Contents(k, i) = [up |-> StateOf(k, i).state = "up",
                          other |-> StateOf(k, i).other, updated_at |-> i]
    BY DEF Contents
  <2>. QED
    BY <2>1, <2>2, <2>3, <2>4, Zenon
<1>. QED
  BY <1>1, InvariantHolds, PTL

-----------------------------------------------------------------------------
(* The events and the table.  A handler announces after its write: the      *)
(* turns that are written and not yet announced are counted with those that *)
(* are, and the sum of the two is what the row turned since it was created. *)

\* The runs of k that wrote a turn e and still have to announce it
Pending(k, e) ==
  {t \in Tasks : task[t].pc = "announce" /\ task[t].link = k /\ e \in Turned(t)}

\* What the row turned since it was created
Climb(k) ==
  IF record[k] = NoRecord THEN 0 ELSE ToInt(record[k].up) - ToInt(born[k])

AllLoud == quiet = 0 => \A t \in Tasks : task[t] # Idle => task[t].loud

Balance(k) ==
  /\ IsFiniteSet(Pending(k, "up"))
  /\ IsFiniteSet(Pending(k, "down"))
  /\ emitted[k].up + Cardinality(Pending(k, "up"))
       = emitted[k].down + Cardinality(Pending(k, "down")) + Climb(k)

Balanced == (faults = 0 /\ quiet = 0) => \A k \in Links : Balance(k)

\* The inductive invariant of the events
CountInv == LinkInv /\ AllLoud /\ Balanced

\* Whether a run has to announce depends on nothing but the run
LEMMA OthersPending ==
  ASSUME NEW t \in Tasks, NEW run, script' = script,
         \A u \in Tasks : task'[u] = IF u = t THEN run ELSE task[u],
         NEW k, NEW e
  PROVE  \A u \in Tasks : u # t => (u \in Pending(k, e)' <=> u \in Pending(k, e))
<1>. SUFFICES ASSUME NEW u \in Tasks, u # t
              PROVE  u \in Pending(k, e)' <=> u \in Pending(k, e)
  OBVIOUS
<1>1. task'[u] = task[u]
  OBVIOUS
<1>2. Turned(u)' = Turned(u)
  BY <1>1 DEF Turned, LinkUpdate, FreshContents, Tells, IsThere, StateOf, States, Kind, Contents, ContentsOf
<1>. QED
  BY <1>1, <1>2 DEF Pending

\* A step that neither writes a turn nor announces one
LEMMA BalanceStays ==
  ASSUME NEW t \in Tasks, NEW run, UNCHANGED <<script, emitted>>,
         \A u \in Tasks : task'[u] = IF u = t THEN run ELSE task[u],
         NEW k \in Links, Balance(k), Climb(k)' = Climb(k),
         \A e \in {"up", "down"} :
           t \notin Pending(k, e) /\ t \notin Pending(k, e)'
  PROVE  Balance(k)'
<1>1. ASSUME NEW e \in {"up", "down"}
      PROVE  Pending(k, e)' = Pending(k, e)
  <2>1. \A u \in Tasks : u \in Pending(k, e)' <=> u \in Pending(k, e)
    BY OthersPending
  <2>2. Pending(k, e) \subseteq Tasks /\ Pending(k, e)' \subseteq Tasks
    BY DEF Pending
  <2>. QED
    BY <2>1, <2>2
<1>2. Pending(k, "up")' = Pending(k, "up") /\ Pending(k, "down")' = Pending(k, "down")
  BY <1>1
<1>. QED
  BY <1>2 DEF Balance

\* ... or does it to a run that is not about to announce, before or after
LEMMA QuietStep ==
  ASSUME CountInv, NEW t \in Tasks, NEW run,
         UNCHANGED <<script, record, born, emitted, faults, quiet>>,
         \A u \in Tasks : task'[u] = IF u = t THEN run ELSE task[u],
         task[t].pc # "announce", run.pc # "announce",
         run # Idle => run.loud \/ (task[t] # Idle /\ run.loud = task[t].loud)
  PROVE  AllLoud' /\ Balanced'
<1>1. AllLoud'
  <2>. SUFFICES ASSUME quiet = 0, NEW u \in Tasks, task'[u] # Idle
                PROVE  task'[u].loud
    BY DEF AllLoud
  <2>1. CASE u # t
    BY <2>1 DEF CountInv, AllLoud
  <2>2. CASE u = t
    BY <2>2 DEF CountInv, AllLoud
  <2>. QED
    BY <2>1, <2>2
<1>2. Balanced'
  <2>. SUFFICES ASSUME faults = 0, quiet = 0, NEW k \in Links
                PROVE  Balance(k)'
    BY DEF Balanced
  <2>1. Balance(k)
    BY DEF CountInv, Balanced
  <2>2. Climb(k)' = Climb(k)
    BY DEF Climb
  <2>3. \A e \in {"up", "down"} : t \notin Pending(k, e) /\ t \notin Pending(k, e)'
    BY DEF Pending
  <2>. QED
    BY <2>1, <2>2, <2>3, BalanceStays
<1>. QED
  BY <1>1, <1>2

\* No run changes
LEMMA NoRunMoves ==
  ASSUME CountInv, UNCHANGED <<script, record, born, emitted, faults, quiet, task>>
  PROVE  AllLoud' /\ Balanced'
<1>1. AllLoud'
  BY DEF CountInv, AllLoud
<1>2. Balanced'
  <2>. SUFFICES ASSUME faults = 0, quiet = 0, NEW k \in Links
                PROVE  Balance(k)'
    BY DEF Balanced
  <2>1. Balance(k)
    BY DEF CountInv, Balanced
  <2>2. Climb(k)' = Climb(k)
    BY DEF Climb
  <2>3. \A u \in Tasks : Turned(u)' = Turned(u)
    BY DEF Turned, LinkUpdate, FreshContents, Tells, IsThere, StateOf, States, Kind, Contents, ContentsOf
  <2>4. Pending(k, "up")' = Pending(k, "up") /\ Pending(k, "down")' = Pending(k, "down")
    BY <2>3 DEF Pending
  <2>. QED
    BY <2>1, <2>2, <2>4 DEF Balance
<1>. QED
  BY <1>1, <1>2

LEMMA LinkChangesCounts ==
  ASSUME CountInv, NEW k \in Links, LinkChanges(k)
  PROVE  AllLoud' /\ Balanced'
<1>1. UNCHANGED <<script, record, born, emitted, faults, quiet>>
  BY DEF LinkChanges, bounds
<1>2. CASE Start(k, TRUE)
  <2>. DEFINE run == Attempt(k, 1, TRUE)
  <2>1. PICK t \in Tasks : /\ task[t] = Idle
                           /\ task' = [task EXCEPT ![t] = run]
    BY <1>2 DEF Start
  <2>2. task[t].pc # "announce" /\ run.pc # "announce" /\ run.loud
    BY <2>1 DEF Idle, Attempt
  <2>3. \A u \in Tasks : task'[u] = IF u = t THEN run ELSE task[u]
    BY <2>1 DEF CountInv, LinkInv, TypeOK
  <2>. HIDE DEF run
  <2>. QED
    BY <1>1, <2>2, <2>3, QuietStep
<1>3. CASE task' = task
  BY <1>1, <1>3, NoRunMoves
<1>. QED
  BY <1>2, <1>3 DEF LinkChanges

\* A run that is not loud is counted among the quiet ones
LEMMA SyncQuietlyCounts ==
  ASSUME CountInv, NEW k \in Links, SyncQuietly(k)
  PROVE  AllLoud' /\ Balanced'
<1>1. quiet \in Nat /\ quiet' = quiet + 1
  BY DEF SyncQuietly, CountInv, LinkInv, TypeOK
<1>2. quiet' # 0
  BY <1>1
<1>. QED
  BY <1>2 DEF AllLoud, Balanced

LEMMA GetStoredCounts ==
  ASSUME CountInv, NEW t \in Tasks, GetStored(t)
  PROVE  AllLoud' /\ Balanced'
<1>. DEFINE run == [task[t] EXCEPT !.pc = "getFresh", !.stored = record[task[t].link]]
<1>1. task[t] \in Running /\ task[t] # Idle /\ task[t].pc = "getStored"
  BY Stepping, RunFields DEF GetStored, CountInv, LinkInv
<1>2. run.pc = "getFresh" /\ run.loud = task[t].loud
  BY <1>1 DEF Running
<1>3. \A u \in Tasks : task'[u] = IF u = t THEN run ELSE task[u]
  BY DEF GetStored, CountInv, LinkInv, TypeOK
<1>4. UNCHANGED <<script, record, born, emitted, faults, quiet>>
  BY DEF GetStored, lnd, ghosts, bounds
<1>. HIDE DEF run
<1>. QED
  BY <1>1, <1>2, <1>3, <1>4, QuietStep

LEMMA GetFreshCounts ==
  ASSUME CountInv, NEW t \in Tasks, GetFresh(t)
  PROVE  AllLoud' /\ Balanced'
<1>. DEFINE run == [task[t] EXCEPT !.pc = "execute", !.fresh = now[task[t].link]]
<1>1. task[t] \in Running /\ task[t] # Idle /\ task[t].pc = "getFresh"
  BY Stepping, RunFields DEF GetFresh, CountInv, LinkInv
<1>2. run.pc = "execute" /\ run.loud = task[t].loud
  BY <1>1 DEF Running
<1>3. \A u \in Tasks : task'[u] = IF u = t THEN run ELSE task[u]
  BY DEF GetFresh, CountInv, LinkInv, TypeOK
<1>4. UNCHANGED <<script, record, born, emitted, faults, quiet>>
  BY DEF GetFresh, lnd, ghosts, bounds
<1>. HIDE DEF run
<1>. QED
  BY <1>1, <1>2, <1>3, <1>4, QuietStep

LEMMA NothingToDoCounts ==
  ASSUME CountInv, NEW t \in Tasks, NothingToDo(t)
  PROVE  AllLoud' /\ Balanced'
<1>1. task[t].pc # "announce" /\ Idle.pc # "announce"
  BY DEF NothingToDo, Idle
<1>2. \A u \in Tasks : task'[u] = IF u = t THEN Idle ELSE task[u]
  BY DEF NothingToDo, Finish, CountInv, LinkInv, TypeOK
<1>3. UNCHANGED <<script, record, born, emitted, faults, quiet>>
  BY DEF NothingToDo, lnd, ghosts, bounds
<1>. QED
  BY <1>1, <1>2, <1>3, QuietStep

\* A new attempt, or none: the run is as loud as it was
LEMMA RetryMoves ==
  ASSUME TypeOK, NEW t \in Tasks, task[t] # Idle, RetryOrGiveUp(t)
  PROVE  \E run \in Running \cup {Idle} :
           /\ \A u \in Tasks : task'[u] = IF u = t THEN run ELSE task[u]
           /\ run.pc # "announce"
           /\ run # Idle => run.loud = task[t].loud
<1>1. CASE task[t].tries < MaxTries
  <2>. DEFINE old == task[t]
              run == Attempt(old.link, old.tries + 1, old.loud)
  <2>1. old \in Running
    BY Stepping
  <2>2. old.link \in Links /\ old.tries + 1 \in 1..MaxTries /\ old.loud \in BOOLEAN
    BY <1>1, <2>1, RunFields
  <2>3. run \in Running /\ run.pc = "getStored"
    BY <2>2, AttemptType
  <2>4. run.loud = old.loud
    BY DEF Attempt
  <2>5. task' = [task EXCEPT ![t] = run]
    BY <1>1 DEF RetryOrGiveUp
  <2>. HIDE DEF run
  <2>6. \A u \in Tasks : task'[u] = IF u = t THEN run ELSE task[u]
    BY <2>5 DEF TypeOK
  <2>. QED
    BY <2>3, <2>4, <2>6
<1>2. CASE ~(task[t].tries < MaxTries)
  <2>1. \A u \in Tasks : task'[u] = IF u = t THEN Idle ELSE task[u]
    BY <1>2 DEF RetryOrGiveUp, Finish, TypeOK
  <2>. QED
    BY <2>1 DEF Idle
<1>. QED
  BY <1>1, <1>2

LEMMA ConflictCounts ==
  ASSUME CountInv, NEW t \in Tasks, Conflict(t)
  PROVE  AllLoud' /\ Balanced'
<1>1. task[t].pc = "execute" /\ task[t] # Idle
  BY Stepping, RunFields DEF Conflict, CountInv, LinkInv
<1>2. PICK run \in Running \cup {Idle} :
        /\ \A u \in Tasks : task'[u] = IF u = t THEN run ELSE task[u]
        /\ run.pc # "announce"
        /\ run # Idle => run.loud = task[t].loud
  BY <1>1, RetryMoves DEF Conflict, CountInv, LinkInv
<1>3. UNCHANGED <<script, record, born, emitted, faults, quiet>>
  BY DEF Conflict, lnd, bounds
<1>. QED
  BY <1>1, <1>2, <1>3, QuietStep

\* A call that fails is counted among the faults
LEMMA CallFailsCounts ==
  ASSUME CountInv, NEW t \in Tasks, CallFails(t)
  PROVE  AllLoud' /\ Balanced'
<1>1. faults \in Nat /\ faults' = faults + 1 /\ task[t] # Idle /\ quiet' = quiet
  BY DEF CallFails, CountInv, LinkInv, TypeOK
<1>2. PICK run \in Running \cup {Idle} :
        /\ \A u \in Tasks : task'[u] = IF u = t THEN run ELSE task[u]
        /\ run # Idle => run.loud = task[t].loud
  BY <1>1, RetryMoves DEF CallFails, CountInv, LinkInv
<1>3. AllLoud'
  <2>. SUFFICES ASSUME quiet = 0, NEW u \in Tasks, task'[u] # Idle
                PROVE  task'[u].loud
    BY <1>1 DEF AllLoud
  <2>. QED
    BY <1>1, <1>2 DEF CountInv, AllLoud
<1>4. faults' # 0
  BY <1>1
<1>. QED
  BY <1>3, <1>4 DEF Balanced

\* A new row has turned nowhere, and nobody announces it
LEMMA ExecuteCreateCounts ==
  ASSUME CountInv, NEW t \in Tasks, ExecuteCreate(t)
  PROVE  AllLoud' /\ Balanced'
<1>. DEFINE k == task[t].link
            i == task[t].fresh
            run == [task[t] EXCEPT !.pc = "announce"]
<1>0. TypeOK
  BY DEF CountInv, LinkInv
<1>1. task[t] \in Running /\ task[t] # Idle /\ task[t].pc = "execute"
  BY <1>0, Stepping, RunFields DEF ExecuteCreate
<1>2. /\ run.pc = "announce" /\ run.link = k /\ run.stored = NoRecord
      /\ run.loud = task[t].loud
  BY <1>1 DEF Running, ExecuteCreate, ShouldCreate
<1>3. \A u \in Tasks : task'[u] = IF u = t THEN run ELSE task[u]
  BY <1>0 DEF ExecuteCreate, TypeOK
<1>. HIDE DEF run
<1>4. UNCHANGED <<script, emitted, faults, quiet>>
  BY DEF ExecuteCreate, lnd, bounds
<1>5. AllLoud'
  BY <1>1, <1>2, <1>3, <1>4 DEF CountInv, AllLoud
<1>6. \A j, e : t \notin Pending(j, e) /\ t \notin Pending(j, e)'
  <2>1. Turned(t)' = {}
    BY <1>2, <1>3 DEF Turned
  <2>. QED
    BY <1>1, <2>1 DEF Pending
<1>7. ASSUME NEW j \in Links
      PROVE  Climb(j)' = Climb(j)
  <2>1. CASE j # k
    <3>1. record'[j] = record[j] /\ born'[j] = born[j]
      BY <1>0, <2>1 DEF ExecuteCreate, TypeOK
    <3>. QED
      BY <3>1 DEF Climb
  <2>2. CASE j = k
    <3>1. record[k] = NoRecord
      BY DEF ExecuteCreate, MayPut
    <3>2. k \in Links /\ i \in Nat /\ RunIsSound(task[t])
      BY <1>1, RunFields DEF CountInv, LinkInv, RunsAreSound
    <3>3. i <= now[k] /\ IsThere(k, i)
      BY <3>2 DEF ExecuteCreate, ShouldCreate, RunIsSound
    <3>. DEFINE row == Row(0, Contents(k, i), i)
    <3>4. row.up = Contents(k, i).up
      BY DEF Row
    <3>5. record' = [record EXCEPT ![k] = row] /\ born' = [born EXCEPT ![k] = Contents(k, i).up]
      BY DEF ExecuteCreate
    <3>6. record'[k] = row /\ born'[k] = row.up
      BY <1>0, <3>2, <3>4, <3>5 DEF TypeOK
    <3>7. ToInt(row.up) - ToInt(row.up) = 0
      BY DEF ToInt
    <3>. HIDE DEF row
    <3>8. record[j] = NoRecord /\ record'[j] = row /\ born'[j] = row.up
      BY <2>2, <3>1, <3>6
    <3>. QED
      BY <3>7, <3>8 DEF Climb
  <2>. QED
    BY <2>1, <2>2
<1>8. Balanced'
  <2>. SUFFICES ASSUME faults = 0, quiet = 0, NEW j \in Links
                PROVE  Balance(j)'
    BY <1>4 DEF Balanced
  <2>1. Balance(j)
    BY DEF CountInv, Balanced
  <2>. QED
    BY <1>3, <1>4, <1>6, <1>7, <2>1, BalanceStays
<1>. QED
  BY <1>5, <1>8

\* Two sets that differ in one element at most
LEMMA OneMore ==
  ASSUME NEW U, NEW S, NEW T, S \subseteq U, T \subseteq U, NEW t \in U,
         \A u \in U : u # t => (u \in T <=> u \in S)
  PROVE  /\ (t \notin S /\ t \in T) => T = S \cup {t}
         /\ (t \notin S /\ t \notin T) => T = S
OBVIOUS

\* One turn more on either side of the sum
LEMMA OneMoreUp ==
  ASSUME NEW a \in Nat, NEW b \in Nat, NEW c \in Nat, NEW d \in Nat, NEW e \in Int,
         a + b = c + d + e
  PROVE  a + (b + 1) = c + d + (e + 1)
OBVIOUS

LEMMA OneMoreDown ==
  ASSUME NEW a \in Nat, NEW b \in Nat, NEW c \in Nat, NEW d \in Nat, NEW e \in Int,
         a + b = c + d + e
  PROVE  a + b = c + (d + 1) + (e - 1)
OBVIOUS

\* A row that is revised: the one that was read, so that the turn the run will
\* announce is the one the row takes
LEMMA ExecuteUpdateCounts ==
  ASSUME CountInv, NEW t \in Tasks, ExecuteUpdate(t)
  PROVE  AllLoud' /\ Balanced'
<1>0. TypeOK
  BY DEF CountInv, LinkInv
<1>1. task[t] \in Running /\ task[t] # Idle /\ task[t].pc = "execute"
  BY <1>0, Stepping, RunFields DEF ExecuteUpdate
<1>. PICK k \in Links : k = task[t].link
  BY <1>1, RunFields
<1>. DEFINE i == task[t].fresh
            s == task[t].stored
            up == LinkUpdate(k, s, i).up
            row == Row(record[k].rev + 1, LinkUpdate(k, s, i), i)
            run == [task[t] EXCEPT !.pc = "announce"]
<1>2. /\ run.pc = "announce" /\ run.link = k /\ run.stored = s /\ run.fresh = i
      /\ run.loud = task[t].loud
  BY <1>1 DEF Running
<1>3. \A u \in Tasks : task'[u] = IF u = t THEN run ELSE task[u]
  BY <1>0 DEF ExecuteUpdate, TypeOK
<1>4. UNCHANGED <<script, emitted, faults, quiet, born>>
  BY DEF ExecuteUpdate, lnd, bounds, ghosts
<1>5. /\ k \in Links /\ i \in Nat /\ s \in Record \cup {NoRecord} /\ RunIsSound(task[t])
  BY <1>1, RunFields DEF CountInv, LinkInv, RunsAreSound
<1>6. /\ s # NoRecord /\ LinkUpdate(k, s, i) # ContentsOf(s)
      /\ record[k] # NoRecord /\ record[k].rev = s.rev
  BY DEF ExecuteUpdate, ShouldUpdate, MayUpdate
<1>7. /\ s \in Record /\ Reflects(k, s) /\ Earlier(s, record[k])
      /\ i <= now[k] /\ s.asOf <= i
  BY <1>1, <1>5, <1>6 DEF RunIsSound
<1>8. record[k] = s
  BY <1>6, <1>7 DEF Earlier
<1>9. record[k].rev + 1 \in Nat /\ s.up \in BOOLEAN
  BY <1>7, <1>8, RowFields
<1>10. row \in Record
  BY <1>0, <1>5, <1>6, <1>7, <1>9, UpdatedSays
<1>11. row.up = up /\ row # NoRecord
  BY <1>10, RowFields DEF Row
<1>12. up \in BOOLEAN
  BY <1>10, <1>11, RowFields
<1>13. record' = [record EXCEPT ![k] = row]
  BY DEF ExecuteUpdate
<1>14. Turned(t)' = IF s.up = up THEN {} ELSE {IF up THEN "up" ELSE "down"}
  <2>1. LinkUpdate(k, s, i)' = LinkUpdate(k, s, i)
    BY <1>2, <1>3, <1>4 DEF LinkUpdate, FreshContents, Tells, IsThere, StateOf, States, Kind, Contents, ContentsOf
  <2>2. task'[t].stored = s /\ task'[t].link = k /\ task'[t].fresh = i
    BY <1>2, <1>3
  <2>. QED
    BY <1>6, <2>1, <2>2 DEF Turned
<1>. HIDE DEF row, run, up
<1>15. AllLoud'
  BY <1>1, <1>2, <1>3, <1>4 DEF CountInv, AllLoud
<1>16. ASSUME NEW j \in Links, j # k, Balance(j)
       PROVE  Balance(j)'
  <2>1. record'[j] = record[j]
    BY <1>0, <1>13, <1>16 DEF TypeOK
  <2>2. Climb(j)' = Climb(j)
    BY <1>4, <2>1 DEF Climb
  <2>3. \A e : t \notin Pending(j, e) /\ t \notin Pending(j, e)'
    BY <1>1, <1>2, <1>3, <1>16 DEF Pending
  <2>. QED
    BY <1>3, <1>4, <1>16, <2>2, <2>3, BalanceStays
<1>17. ASSUME Balance(k)
       PROVE  Balance(k)'
  <2>1. \A e : t \notin Pending(k, e)
    BY <1>1 DEF Pending
  <2>2. ASSUME NEW e
        PROVE  Pending(k, e)' = IF e \in Turned(t)' THEN Pending(k, e) \cup {t}
                                                    ELSE Pending(k, e)
    <3>1. \A u \in Tasks : u # t => (u \in Pending(k, e)' <=> u \in Pending(k, e))
      BY <1>3, <1>4, OthersPending
    <3>2. t \in Pending(k, e)' <=> e \in Turned(t)'
      BY <1>2, <1>3 DEF Pending
    <3>3. Pending(k, e) \subseteq Tasks /\ Pending(k, e)' \subseteq Tasks
      BY DEF Pending
    <3>4. /\ t \in Pending(k, e)' => Pending(k, e)' = Pending(k, e) \cup {t}
          /\ t \notin Pending(k, e)' => Pending(k, e)' = Pending(k, e)
      BY <2>1, <3>1, <3>3, OneMore
    <3>. QED
      BY <3>2, <3>4, Zenon
  <2>3. record'[k] = row
    BY <1>0, <1>5, <1>13 DEF TypeOK
  <2>4. /\ Climb(k) = ToInt(s.up) - ToInt(born[k])
        /\ Climb(k)' = ToInt(up) - ToInt(born[k])
    BY <1>4, <1>6, <1>8, <1>11, <2>3 DEF Climb
  <2>5. born[k] \in BOOLEAN /\ emitted[k].up \in Nat /\ emitted[k].down \in Nat
    BY <1>0, <1>5 DEF TypeOK
  <2>. DEFINE U == Pending(k, "up")
              D == Pending(k, "down")
  <2>6. /\ IsFiniteSet(U) /\ IsFiniteSet(D)
        /\ emitted[k].up + Cardinality(U) = emitted[k].down + Cardinality(D) + Climb(k)
    BY <1>17 DEF Balance
  <2>7. Cardinality(U) \in Nat /\ Cardinality(D) \in Nat
    BY <2>6, FS_CardinalityType
  <2>8. /\ IsFiniteSet(U \cup {t}) /\ Cardinality(U \cup {t}) = Cardinality(U) + 1
        /\ IsFiniteSet(D \cup {t}) /\ Cardinality(D \cup {t}) = Cardinality(D) + 1
    BY <2>1, <2>6, FS_AddElement
  <2>9. CASE s.up = up
    <3>1. Pending(k, "up")' = U /\ Pending(k, "down")' = D
      BY <1>14, <2>2, <2>9
    <3>2. Climb(k)' = Climb(k)
      BY <2>4, <2>9
    <3>. QED
      BY <1>4, <2>6, <3>1, <3>2 DEF Balance
  <2>10. CASE ~s.up /\ up
    <3>1. Pending(k, "up")' = U \cup {t} /\ Pending(k, "down")' = D
      BY <1>14, <2>2, <2>10
    <3>2. Climb(k)' = Climb(k) + 1
      BY <2>4, <2>5, <2>10 DEF ToInt
    <3>3. emitted[k].up + (Cardinality(U) + 1)
            = emitted[k].down + Cardinality(D) + (Climb(k) + 1)
      <4>1. Climb(k) \in Int
        BY <2>4 DEF ToInt
      <4>. QED
        BY <2>5, <2>6, <2>7, <4>1, OneMoreUp
    <3>. QED
      BY <1>4, <2>6, <2>8, <3>1, <3>2, <3>3 DEF Balance
  <2>11. CASE s.up /\ ~up
    <3>1. Pending(k, "up")' = U /\ Pending(k, "down")' = D \cup {t}
      BY <1>14, <2>2, <2>11
    <3>2. Climb(k)' = Climb(k) - 1
      BY <2>4, <2>5, <2>11 DEF ToInt
    <3>3. emitted[k].up + Cardinality(U)
            = emitted[k].down + (Cardinality(D) + 1) + (Climb(k) - 1)
      <4>1. Climb(k) \in Int
        BY <2>4 DEF ToInt
      <4>. QED
        BY <2>5, <2>6, <2>7, <4>1, OneMoreDown
    <3>. QED
      BY <1>4, <2>6, <2>8, <3>1, <3>2, <3>3 DEF Balance
  <2>. QED
    BY <1>9, <1>12, <2>9, <2>10, <2>11
<1>18. Balanced'
  <2>. SUFFICES ASSUME faults = 0, quiet = 0, NEW j \in Links
                PROVE  Balance(j)'
    BY <1>4 DEF Balanced
  <2>1. Balance(j)
    BY DEF CountInv, Balanced
  <2>. QED
    BY <1>16, <1>17, <2>1
<1>. QED
  BY <1>15, <1>18

\* A turn that is announced was counted as pending before
LEMMA AnnounceCounts ==
  ASSUME CountInv, NEW t \in Tasks, Announce(t)
  PROVE  AllLoud' /\ Balanced'
<1>0. TypeOK
  BY DEF CountInv, LinkInv
<1>1. task[t] \in Running /\ task[t] # Idle /\ task[t].pc = "announce"
  BY <1>0, Stepping, RunFields DEF Announce
<1>. PICK k \in Links : k = task[t].link
  BY <1>1, RunFields
<1>2. \A u \in Tasks : task'[u] = IF u = t THEN Idle ELSE task[u]
  BY <1>0 DEF Announce, Finish, TypeOK
<1>3. UNCHANGED <<script, record, born, faults, quiet>>
  BY DEF Announce, lnd, ghosts, bounds
<1>4. AllLoud'
  BY <1>2, <1>3 DEF CountInv, AllLoud
<1>5. \A j : Climb(j)' = Climb(j)
  BY <1>3 DEF Climb
<1>6. \A j, e : t \notin Pending(j, e)'
  BY <1>2 DEF Pending, Idle
<1>7. ASSUME NEW j \in Links, j # k, Balance(j)
      PROVE  Balance(j)'
  <2>1. emitted'[j] = emitted[j]
    BY <1>0, <1>7 DEF Announce, TypeOK
  <2>2. ASSUME NEW e
        PROVE  Pending(j, e)' = Pending(j, e)
    <3>1. \A u \in Tasks : u # t => (u \in Pending(j, e)' <=> u \in Pending(j, e))
      BY <1>2, <1>3, OthersPending
    <3>2. t \notin Pending(j, e)
      BY <1>7 DEF Pending
    <3>3. Pending(j, e) \subseteq Tasks /\ Pending(j, e)' \subseteq Tasks
      BY DEF Pending
    <3>. QED
      BY <1>6, <3>1, <3>2, <3>3, OneMore
  <2>. QED
    BY <1>5, <1>7, <2>1, <2>2 DEF Balance
<1>8. ASSUME Balance(k), task[t].loud
      PROVE  Balance(k)'
  <2>1. ASSUME NEW e \in {"up", "down"}
        PROVE  /\ IsFiniteSet(Pending(k, e)')
               /\ Cardinality(Pending(k, e)) \in Nat
               /\ Cardinality(Pending(k, e)') \in Nat
               /\ emitted'[k][e] + Cardinality(Pending(k, e)')
                    = emitted[k][e] + Cardinality(Pending(k, e))
    <3>1. IsFiniteSet(Pending(k, e))
      BY <1>8 DEF Balance
    <3>2. t \in Pending(k, e) <=> e \in Turned(t)
      BY <1>1 DEF Pending
    <3>3. Pending(k, e)' = Pending(k, e) \ {t}
      <4>1. \A u \in Tasks : u # t => (u \in Pending(k, e)' <=> u \in Pending(k, e))
        BY <1>2, <1>3, OthersPending
      <4>2. Pending(k, e) \subseteq Tasks /\ Pending(k, e)' \subseteq Tasks
        BY DEF Pending
      <4>. QED
        BY <1>6, <4>1, <4>2
    <3>4. emitted[k][e] \in Nat
      BY <1>0, <1>1 DEF TypeOK
    <3>5. emitted'[k][e] = IF e \in Turned(t) THEN emitted[k][e] + 1 ELSE emitted[k][e]
      BY <1>0, <1>1, <1>8 DEF Announce, TypeOK
    <3>6. Cardinality(Pending(k, e)) \in Nat /\ Cardinality(Pending(k, e) \ {t}) \in Nat
      BY <3>1, FS_RemoveElement, FS_CardinalityType
    <3>7. Cardinality(Pending(k, e) \ {t})
            = IF t \in Pending(k, e) THEN Cardinality(Pending(k, e)) - 1
                                     ELSE Cardinality(Pending(k, e))
      BY <3>1, FS_RemoveElement
    <3>8. IsFiniteSet(Pending(k, e) \ {t})
      BY <3>1, FS_RemoveElement
    <3>9. CASE e \in Turned(t)
      BY <3>2, <3>3, <3>4, <3>5, <3>6, <3>7, <3>8, <3>9
    <3>10. CASE e \notin Turned(t)
      BY <3>2, <3>3, <3>4, <3>5, <3>6, <3>7, <3>8, <3>10
    <3>. QED
      BY <3>9, <3>10
  <2>2. /\ emitted[k].up \in Nat /\ emitted[k].down \in Nat
        /\ emitted'[k].up = emitted'[k]["up"] /\ emitted'[k].down = emitted'[k]["down"]
    BY <1>0, <1>1 DEF TypeOK
  <2>3. emitted[k].up + Cardinality(Pending(k, "up"))
          = emitted[k].down + Cardinality(Pending(k, "down")) + Climb(k)
    BY <1>8 DEF Balance
  <2>4. emitted'[k].up + Cardinality(Pending(k, "up")')
          = emitted[k].up + Cardinality(Pending(k, "up"))
    BY <2>1, <2>2
  <2>5. emitted'[k].down + Cardinality(Pending(k, "down")')
          = emitted[k].down + Cardinality(Pending(k, "down"))
    BY <2>1, <2>2
  <2>6. emitted'[k].up + Cardinality(Pending(k, "up")')
          = emitted'[k].down + Cardinality(Pending(k, "down")') + Climb(k)
    BY <2>3, <2>4, <2>5, Zenon
  <2>. QED
    BY <1>5, <2>1, <2>6 DEF Balance
<1>9. Balanced'
  <2>. SUFFICES ASSUME faults = 0, quiet = 0, NEW j \in Links
                PROVE  Balance(j)'
    BY <1>3 DEF Balanced
  <2>1. Balance(j) /\ task[t].loud
    BY <1>1 DEF CountInv, Balanced, AllLoud
  <2>. QED
    BY <1>7, <1>8, <2>1
<1>. QED
  BY <1>4, <1>9

LEMMA CountBegins ==
  ASSUME Init
  PROVE  CountInv
<1>1. LinkInv
  BY InitEstablishes
<1>2. AllLoud
  BY DEF Init, AllLoud
<1>3. ASSUME NEW k \in Links
      PROVE  Balance(k)
  <2>1. Pending(k, "up") = {} /\ Pending(k, "down") = {}
    BY DEF Init, Pending, Idle
  <2>2. emitted[k].up = 0 /\ emitted[k].down = 0 /\ Climb(k) = 0
    BY DEF Init, Climb
  <2>3. IsFiniteSet({}) /\ Cardinality({}) = 0
    BY FS_EmptySet
  <2>4. 0 + 0 = 0 + 0 + 0
    OBVIOUS
  <2>. QED
    BY <2>1, <2>2, <2>3, <2>4, Zenon DEF Balance
<1>. QED
  BY <1>1, <1>2, <1>3 DEF CountInv, Balanced

LEMMA CountKept ==
  ASSUME CountInv, [Next]_vars
  PROVE  CountInv'
<1>1. LinkInv'
  BY NextKeeps DEF CountInv
<1>2. AllLoud' /\ Balanced'
  <2>1. ASSUME NEW k \in Links, LinkChanges(k) \/ SyncQuietly(k)
        PROVE  AllLoud' /\ Balanced'
    BY <2>1, LinkChangesCounts, SyncQuietlyCounts
  <2>2. ASSUME NEW t \in Tasks, Step(t)
        PROVE  AllLoud' /\ Balanced'
    BY <2>2, GetStoredCounts, GetFreshCounts, NothingToDoCounts, ExecuteCreateCounts,
       ExecuteUpdateCounts, AnnounceCounts, ConflictCounts DEF Step
  <2>3. ASSUME NEW t \in Tasks, CallFails(t)
        PROVE  AllLoud' /\ Balanced'
    BY <2>3, CallFailsCounts
  <2>4. ASSUME UNCHANGED vars
        PROVE  AllLoud' /\ Balanced'
    <3>1. UNCHANGED <<script, record, born, emitted, faults, quiet, task>>
      BY <2>4 DEF vars, lnd, ghosts, bounds
    <3>. QED
      BY <3>1, NoRunMoves
  <2>. QED
    BY <2>1, <2>2, <2>3, <2>4 DEF Next, Quiescent
<1>. QED
  BY <1>1, <1>2 DEF CountInv

\* Handlers announce after their writes, in any order, and some runs write
\* nothing: still the turns that syncChannelPolicy, syncPeer and
\* syncLocalChannel make their handlers announce add up to the difference
\* between a row and what it was created with, when no reply was lost and no
\* quiet run wrote.
THEOREM EventsAddUp == Spec => []EventsFollowTheTable
<1>1. ASSUME CountInv
      PROVE  EventsFollowTheTable
  <2>. SUFFICES ASSUME NEW k \in Links, faults = 0, quiet = 0, ~Busy(k),
                       record[k] # NoRecord
                PROVE  emitted[k].up - emitted[k].down
                         = ToInt(record[k].up) - ToInt(born[k])
    BY DEF EventsFollowTheTable
  <2>1. Pending(k, "up") = {} /\ Pending(k, "down") = {}
    BY DEF Pending, Busy, Idle
  <2>2. emitted[k].up + 0 = emitted[k].down + 0 + Climb(k)
    BY <1>1, <2>1, FS_EmptySet DEF CountInv, Balanced, Balance
  <2>3. emitted[k].up \in Nat /\ emitted[k].down \in Nat
    BY <1>1 DEF CountInv, LinkInv, TypeOK
  <2>4. Climb(k) = ToInt(record[k].up) - ToInt(born[k]) /\ Climb(k) \in Int
    BY DEF Climb, ToInt
  <2>. QED
    BY <2>2, <2>3, <2>4
<1>. QED
  BY <1>1, CountBegins, CountKept, PTL DEF Spec

=============================================================================
