-------------------------- MODULE Transfer_proofs --------------------------
(***************************************************************************)
(* A snapshot that shares its directory with no other is published whole   *)
(* or not at all, its objects are of one instant, and a restore that reads *)
(* it while others are written puts in service all of it: for any number   *)
(* of snapshots, restores, workers and tables, and whatever fails.         *)
(***************************************************************************)
EXTENDS Transfer, TLAPS, WellFoundedInduction

LEMMA ConstantsApart ==
  /\ Nothing \notin Instant /\ Nothing # Emptied /\ Nothing # NoRows /\ Nothing # Truncated
  /\ Nothing \notin Tables /\ Returned # Nothing /\ Returned \notin Tables
  /\ NoRows \notin Instant /\ Truncated \notin Instant /\ NoRows # Truncated
  /\ Emptied \notin Instant /\ Emptied # Truncated /\ Emptied # NoRows
<1>1. /\ NoRows = -1 /\ Truncated = -2 /\ Emptied = -3 /\ Instant = 0 .. MaxWrites
      /\ Contents = Instant \cup {Emptied}
  BY DEF NoRows, Truncated, Emptied, Instant, Contents
<1> QED
  BY <1>1, NothingAssumption, ReturnedAssumption, LimitsAssumption

-----------------------------------------------------------------------------
(***************************************************************************)
(* What is true of a directory d, and of an exporter with the locals x,    *)
(* whose workers are c and whose directory is d; a says that no other      *)
(* snapshot shares the directory, em which commit last emptied each table. *)
(***************************************************************************)

Exporting ==
  [phase : {"idle", "schema", "sequences", "copy", "manifest"},
   at : Second, instant : Instant, positions : Instant, jobs : SUBSET Tables,
   closed : BOOLEAN, entries : Manifest, failed : BOOLEAN, stopped : BOOLEAN]

Copying ==
  [state : {"wait", "copy", "send", "gone"}, table : Tables \cup {Nothing}, result : Entry]

\* The directory is published only if it is whole.
Whole(d) ==
  d.manifest # Nothing =>
    /\ d.schema # Nothing
    /\ \A t \in Tables : /\ d.manifest[t] # Nothing
                         /\ t \notin Skipped => d.data[t] = d.manifest[t]

\* The rows t may have in a snapshot of the instant i.
MayBe(em, i, t, rows) ==
  /\ rows \in Instant => rows = i
  /\ rows = Emptied => i \in Instant /\ i < em[t]

\* The directory is of one instant, and its positions are not behind.
Coherent(em, d) ==
  /\ \A t \in Tables : MayBe(em, d.schema, t, d.data[t])
  /\ d.manifest # Nothing =>
       d.schema \in Instant /\ d.positions \in Instant /\ d.schema <= d.positions

DirectoryGood(a, em, d) == d \in Directory /\ (a => Whole(d) /\ Coherent(em, d))

\* The workers that have a table.
Busy(c) == {w \in Copiers : c[w].state \in {"copy", "send"}}

Typed(x, c) ==
  /\ x \in Exporting /\ c \in [Copiers -> Copying]
  /\ x.phase # "copy" => \A w \in Copiers : c[w].state = "gone"

\* The tables whose entries were received.
Received(x) == {t \in Tables : x.entries[t] # Nothing}

\* A table waits for a worker, or one worker has it, or its entry was received.
Handed(x, c) ==
  /\ x.jobs \cap Received(x) = {}
  /\ \A w \in Busy(c) : c[w].table \in Tables \ (x.jobs \cup Received(x))
  /\ \A w, v \in Busy(c) : w # v => c[w].table # c[v].table

\* As long as nothing has failed, no table gets lost.
Complete(x, c) ==
  ~x.stopped /\ ~x.failed =>
    /\ \A t \in Tables \ (x.jobs \cup Received(x)) : \E w \in Busy(c) : c[w].table = t
    /\ x.closed => x.jobs = {}
    /\ \A w \in Copiers : c[w].state = "gone" => x.closed

Fresh(x) == x.jobs = Tables /\ Received(x) = {} /\ ~x.closed /\ ~x.failed

\* What was copied is in the directory.
Stored(x, c, d) ==
  \A t \in Tables \ Skipped :
    /\ t \in Received(x) => d.data[t] = x.entries[t]
    /\ \A w \in Copiers :
         c[w].state = "send" /\ c[w].result # Nothing /\ c[w].table = t =>
           d.data[t] = c[w].result

\* The directory belongs to this exporter alone.
Mine(x, c, d) ==
  /\ x.phase = "schema" => d = Empty
  /\ x.phase \in {"sequences", "copy", "manifest"} =>
       d.schema = x.instant /\ d.manifest = Nothing
  /\ x.phase \in {"copy", "manifest"} => Stored(x, c, d) /\ x.instant <= x.positions

ExportGood(a, x, c, d) ==
  /\ Typed(x, c)
  /\ x.phase \in {"schema", "sequences"} => Fresh(x)
  /\ x.phase = "copy" => Handed(x, c) /\ Complete(x, c)
  /\ x.phase = "manifest" /\ ~x.stopped => Received(x) = Tables
  /\ a => Mine(x, c, d)

AllGone == [w \in Copiers |-> Gone]
AllWait == [w \in Copiers |-> Waiting]

-----------------------------------------------------------------------------
LEMMA WorkerTypes == 
  /\ Waiting \in Copying /\ Gone \in Copying /\ AllGone \in [Copiers -> Copying]
  /\ AllWait \in [Copiers -> Copying] /\ Waiting.state = "wait" /\ Gone.state = "gone"
  /\ \A w \in Copiers : AllGone[w].state = "gone" /\ AllWait[w].state = "wait"
  BY DEF Waiting, Gone, Copying, Entry, AllGone, AllWait

LEMMA EmptyGood ==
  ASSUME NEW a, NEW em PROVE DirectoryGood(a, em, Empty) /\ Empty.manifest = Nothing
<1>1. Empty \in Directory /\ Empty.manifest = Nothing
  BY DEF Empty, Directory
<1>2. \A t \in Tables : Empty.data[t] = Nothing
  BY DEF Empty
<1> QED
  BY <1>1, <1>2, ConstantsApart DEF DirectoryGood, Whole, Coherent, MayBe

LEMMA IdleType ==
  /\ NoExport \in Exporting /\ NoExport.phase = "idle"
<1>1. 0 \in Second /\ 0 \in Instant
  BY LimitsAssumption DEF Second, Instant
<1>2. [t \in Tables |-> Nothing] \in Manifest
  BY DEF Manifest, Entry
<1> QED
  BY <1>1, <1>2 DEF NoExport, Exporting

LEMMA IdleGood ==
  ASSUME NEW a \in BOOLEAN, NEW c \in [Copiers -> Copying], \A w \in Copiers : c[w].state = "gone", NEW d
  PROVE  ExportGood(a, NoExport, c, d)
  BY IdleType DEF ExportGood, Typed, Mine

LEMMA StartGood ==
  ASSUME NEW a \in BOOLEAN, NEW c \in [Copiers -> Copying], \A w \in Copiers : c[w].state = "gone", NEW d,
         a => d = Empty, NEW s \in Second, NEW i \in Instant, NEW x,
         x = [NoExport EXCEPT !.phase = "schema", !.at = s, !.instant = i, !.jobs = Tables]
  PROVE  ExportGood(a, x, c, d)
<1>1. x \in Exporting /\ x.phase = "schema" /\ Fresh(x)
  <2>1. NoExport \in Exporting /\ NoExport.entries = [t \in Tables |-> Nothing]
    BY IdleType DEF NoExport
  <2>2. /\ x \in Exporting /\ x.phase = "schema" /\ x.jobs = Tables
        /\ x.entries = [t \in Tables |-> Nothing] /\ ~x.closed /\ ~x.failed
    BY <2>1 DEF NoExport, Exporting
  <2> QED
    BY <2>2 DEF Fresh, Received
<1> QED
  BY <1>1 DEF ExportGood, Typed, Mine

\* A directory in which one object was put.
LEMMA PutTypes ==
  ASSUME NEW d \in Directory
  PROVE  /\ \A i \in Instant : [d EXCEPT !.schema = i] \in Directory
         /\ \A t \in Tables, r \in Contents \cup {Truncated} :
              [d EXCEPT !.data[t] = r] \in Directory
         /\ \A m \in Manifest, i \in Instant :
              [d EXCEPT !.manifest = m, !.positions = i] \in Directory
<1>1. ASSUME NEW t \in Tables, NEW r \in Contents \cup {Truncated}
      PROVE  [d EXCEPT !.data[t] = r] \in Directory
  <2>1. [d.data EXCEPT ![t] = r] \in [Tables -> Contents \cup {Truncated, Nothing}]
    BY DEF Directory
  <2> QED
    BY <2>1 DEF Directory
<1> QED
  BY <1>1 DEF Directory

LEMMA SchemaGood ==
  ASSUME NEW a \in BOOLEAN, NEW em, NEW x, NEW c, NEW d,
         ExportGood(a, x, c, d), DirectoryGood(a, em, d), x.phase = "schema",
         NEW f, f = [d EXCEPT !.schema = x.instant]
  PROVE  DirectoryGood(a, em, f) /\ ExportGood(a, [x EXCEPT !.phase = "sequences"], c, f)
<1> DEFINE y == [x EXCEPT !.phase = "sequences"]
<1>1. /\ x \in Exporting /\ c \in [Copiers -> Copying] /\ Fresh(x)
      /\ \A w \in Copiers : c[w].state = "gone"
      /\ a => d = Empty
  BY DEF ExportGood, Typed, Mine
<1>2. d \in Directory /\ x.instant \in Instant
  BY <1>1 DEF DirectoryGood, Exporting
<1>3. f \in Directory
  BY <1>2, PutTypes
<1>4. f.schema = x.instant /\ f.data = d.data /\ f.manifest = d.manifest
  BY <1>2 DEF Directory
<1>5. a => f.manifest = Nothing /\ \A t \in Tables : f.data[t] = Nothing
  BY <1>1, <1>4 DEF Empty
<1>6. DirectoryGood(a, em, f)
  BY <1>3, <1>5, ConstantsApart DEF DirectoryGood, Whole, Coherent, MayBe
<1>7. y \in Exporting /\ y.phase = "sequences" /\ Fresh(y) /\ y.instant = x.instant
  BY <1>1 DEF Exporting, Fresh, Received
<1>8. ExportGood(a, y, c, f)
  <2> HIDE DEF y
  <2> QED
    BY <1>1, <1>4, <1>5, <1>7 DEF ExportGood, Typed, Mine
<1> QED
  BY <1>6, <1>8

LEMMA SequencesGood ==
  ASSUME NEW a \in BOOLEAN, NEW em, NEW x, NEW c, NEW d,
         ExportGood(a, x, c, d), x.phase = "sequences",
         NEW p \in Instant, x.instant <= p
  PROVE  ExportGood(a, [x EXCEPT !.phase = "copy", !.positions = p], AllWait, d)
<1> DEFINE y == [x EXCEPT !.phase = "copy", !.positions = p]
<1>1. x \in Exporting /\ Fresh(x) /\ (a => d.schema = x.instant /\ d.manifest = Nothing)
  BY DEF ExportGood, Typed, Mine
<1>2. /\ y \in Exporting /\ y.phase = "copy" /\ Fresh(y) /\ y.instant = x.instant
      /\ y.positions = p
  BY <1>1 DEF Exporting, Fresh, Received
<1>3. Typed(y, AllWait)
  BY <1>2, WorkerTypes DEF Typed
<1>4. Busy(AllWait) = {}
  BY WorkerTypes DEF Busy
<1>5. Handed(y, AllWait) /\ Complete(y, AllWait) /\ Stored(y, AllWait, d)
  <2> HIDE DEF y
  <2> QED
    BY <1>2, <1>4, WorkerTypes DEF Handed, Complete, Stored, Fresh
<1> QED
  <2> HIDE DEF y
  <2>1. ExportGood(a, y, AllWait, d)
    BY <1>1, <1>2, <1>3, <1>5 DEF ExportGood, Mine
  <2> QED
    BY <2>1 DEF y

LEMMA FeedGood ==
  ASSUME NEW a \in BOOLEAN, NEW em, NEW x, NEW c, NEW d,
         ExportGood(a, x, c, d), NEW w \in Copiers, NEW t \in x.jobs,
         c[w].state = "wait", ~x.closed
  PROVE  ExportGood(a, [x EXCEPT !.jobs = @ \ {t}],
           [c EXCEPT ![w] = [Waiting EXCEPT !.state = "copy", !.table = t]], d)
<1> DEFINE y == [x EXCEPT !.jobs = @ \ {t}]
           b == [c EXCEPT ![w] = [Waiting EXCEPT !.state = "copy", !.table = t]]
<1>1. /\ x \in Exporting /\ c \in [Copiers -> Copying] /\ x.phase = "copy"
      /\ Handed(x, c) /\ Complete(x, c) /\ (a => Mine(x, c, d))
  BY DEF ExportGood, Typed
<1>2. t \in Tables
  BY <1>1 DEF Exporting
<1>3. /\ y \in Exporting /\ y.phase = "copy" /\ y.jobs = x.jobs \ {t}
      /\ y.entries = x.entries /\ y.closed = x.closed /\ y.failed = x.failed
      /\ y.stopped = x.stopped /\ y.instant = x.instant /\ y.positions = x.positions
      /\ Received(y) = Received(x)
  BY <1>1 DEF Exporting, Received
<1>4. /\ b \in [Copiers -> Copying] /\ b[w].state = "copy" /\ b[w].table = t
      /\ \A v \in Copiers \ {w} : b[v] = c[v]
  BY <1>1, <1>2 DEF Copying, Waiting, Entry
<1> HIDE DEF y, b
<1>5. Busy(b) = Busy(c) \cup {w} /\ w \notin Busy(c)
  BY <1>4 DEF Busy
<1>6. Handed(y, b)
  BY <1>1, <1>2, <1>3, <1>4, <1>5 DEF Handed, Busy
<1>7. Complete(y, b)
  BY <1>1, <1>2, <1>3, <1>4, <1>5 DEF Complete, Busy
<1>8. ASSUME a PROVE Mine(y, b, d)
  BY <1>1, <1>3, <1>4, <1>8 DEF Mine, Stored
<1>9. ExportGood(a, y, b, d)
  BY <1>3, <1>4, <1>6, <1>7, <1>8 DEF ExportGood, Typed
<1> QED
  BY <1>9 DEF y, b

\* The feeder stops, or a signal arrives.
LEMMA FlagsGood ==
  ASSUME NEW a \in BOOLEAN, NEW em, NEW x, NEW c, NEW d,
         ExportGood(a, x, c, d), NEW y,
         \/ /\ x.phase = "copy" /\ y = [x EXCEPT !.closed = TRUE]
            /\ x.jobs = {} \/ x.stopped \/ x.failed
         \/ x.phase # "idle" /\ y = [x EXCEPT !.stopped = TRUE]
  PROVE  ExportGood(a, y, c, d)
<1>1. x \in Exporting /\ c \in [Copiers -> Copying]
  BY DEF ExportGood, Typed
<1>2. /\ y \in Exporting /\ y.phase = x.phase /\ y.jobs = x.jobs
      /\ y.entries = x.entries /\ y.failed = x.failed /\ y.instant = x.instant
      /\ y.positions = x.positions /\ Received(y) = Received(x)
  BY <1>1 DEF Exporting, Received
<1>3. \/ y.stopped /\ y.closed = x.closed
      \/ /\ y.stopped = x.stopped /\ y.closed /\ x.phase = "copy"
         /\ x.jobs = {} \/ x.stopped \/ x.failed
  BY <1>1 DEF Exporting
<1>4. x.phase = "copy" => Handed(y, c) /\ Complete(y, c)
  BY <1>2, <1>3 DEF ExportGood, Handed, Complete
<1>5. x.phase \in {"schema", "sequences"} => Fresh(y)
  BY <1>2, <1>3 DEF ExportGood, Fresh
<1>6. a => Mine(y, c, d)
  BY <1>2 DEF ExportGood, Mine, Stored
<1> QED
  BY <1>2, <1>3, <1>4, <1>5, <1>6 DEF ExportGood, Typed

\* A worker goes from one state to another without a table.
LEMMA FreeGood ==
  ASSUME NEW a \in BOOLEAN, NEW em, NEW x, NEW c, NEW d,
         ExportGood(a, x, c, d), NEW w \in Copiers,
         \/ c[w].state = "wait" /\ x.closed
         \/ c[w].state = "send" /\ (x.stopped \/ x.failed)
  PROVE  ExportGood(a, x, [c EXCEPT ![w] = Gone], d)
<1> DEFINE b == [c EXCEPT ![w] = Gone]
<1>1. /\ x \in Exporting /\ c \in [Copiers -> Copying] /\ x.phase = "copy"
      /\ Handed(x, c) /\ Complete(x, c) /\ (a => Mine(x, c, d))
  BY DEF ExportGood, Typed
<1>2. /\ b \in [Copiers -> Copying] /\ b[w].state = "gone"
      /\ \A v \in Copiers \ {w} : b[v] = c[v]
  BY <1>1, WorkerTypes
<1> HIDE DEF b
<1>3. \A v \in Busy(b) : v \in Busy(c) /\ b[v] = c[v]
  BY <1>2 DEF Busy
<1>4. Handed(x, b)
  BY <1>1, <1>2, <1>3 DEF Handed
<1>5. Complete(x, b)
  BY <1>1, <1>2 DEF Complete, Busy
<1>6. a => Mine(x, b, d)
  BY <1>1, <1>2 DEF Mine, Stored
<1>7. ExportGood(a, x, b, d)
  BY <1>1, <1>2, <1>4, <1>5, <1>6 DEF ExportGood, Typed
<1> QED
  BY <1>7 DEF b

\* A worker ends its copy with a result, and leaves f of its directory.
LEMMA CopiedGood ==
  ASSUME NEW a \in BOOLEAN, NEW em, NEW x, NEW c, NEW d,
         ExportGood(a, x, c, d), DirectoryGood(a, em, d), NEW w \in Copiers,
         c[w].state = "copy", NEW rows \in Contents, MayBe(em, x.instant, c[w].table, rows),
         NEW result \in Entry, NEW f,
         \/ f = d
         \/ \E r \in {rows, Truncated} : f = [d EXCEPT !.data[c[w].table] = r],
         result # Nothing => \/ c[w].table \in Skipped
                             \/ f = [d EXCEPT !.data[c[w].table] = result]
  PROVE  /\ ExportGood(a, x, [c EXCEPT ![w].state = "send", ![w].result = result], f)
         /\ DirectoryGood(a, em, f)
<1> DEFINE b == [c EXCEPT ![w].state = "send", ![w].result = result]
           t == c[w].table
<1>1. /\ x \in Exporting /\ c \in [Copiers -> Copying] /\ x.phase = "copy"
      /\ Handed(x, c) /\ Complete(x, c) /\ (a => Mine(x, c, d))
  BY DEF ExportGood, Typed
<1>2. /\ c[w] \in Copying /\ w \in Busy(c) /\ t \in Tables \ (x.jobs \cup Received(x))
      /\ x.instant \in Instant
  BY <1>1 DEF Handed, Busy, Exporting
<1>3. /\ b \in [Copiers -> Copying] /\ b[w].state = "send" /\ b[w].table = t
      /\ b[w].result = result /\ \A v \in Copiers \ {w} : b[v] = c[v]
  BY <1>1, <1>2 DEF Copying
<1>4. /\ f \in Directory /\ f.schema = d.schema /\ f.manifest = d.manifest
      /\ \A u \in Tables \ {t} : f.data[u] = d.data[u]
      /\ f.data[t] \in {d.data[t], rows, Truncated}
  <2>1. CASE f = d
    BY <2>1 DEF DirectoryGood
  <2>2. ASSUME NEW r \in {rows, Truncated}, f = [d EXCEPT !.data[t] = r] PROVE <1>4
    <3>1. d \in Directory
      BY DEF DirectoryGood
    <3>2. f \in Directory
      BY <1>2, <2>2, <3>1, PutTypes
    <3>3. /\ f.schema = d.schema /\ f.manifest = d.manifest
          /\ f.data = [d.data EXCEPT ![t] = r]
      BY <2>2, <3>1 DEF Directory
    <3> QED
      BY <1>2, <3>1, <3>2, <3>3 DEF Directory
  <2> QED
    BY <2>1, <2>2
<1>5. result # Nothing => t \in Skipped \/ f.data[t] = result
  BY <1>2 DEF DirectoryGood, Directory
<1> HIDE DEF b
<1>6. Busy(b) = Busy(c) /\ \A v \in Busy(c) : b[v].table = c[v].table
  BY <1>2, <1>3 DEF Busy
<1>7. Handed(x, b)
  BY <1>1, <1>6 DEF Handed
<1>8. Complete(x, b)
  BY <1>1, <1>3, <1>6 DEF Complete
<1>9. ASSUME a PROVE Mine(x, b, f)
  <2>1. /\ Mine(x, c, d) /\ Stored(x, c, d)
        /\ f.schema = x.instant /\ f.manifest = Nothing
    BY <1>1, <1>4, <1>9 DEF Mine
  <2>2. Stored(x, b, f)
    <3> SUFFICES ASSUME NEW u \in Tables \ Skipped
                 PROVE  /\ u \in Received(x) => f.data[u] = x.entries[u]
                        /\ \A v \in Copiers :
                             b[v].state = "send" /\ b[v].result # Nothing /\ b[v].table = u =>
                               f.data[u] = b[v].result
      BY DEF Stored
    <3>1. CASE u = t
      <4>1. \A v \in Copiers : b[v].state = "send" /\ b[v].table = u => v = w
        BY <1>1, <1>2, <1>3, <3>1 DEF Handed, Busy
      <4> QED
        BY <1>2, <1>3, <1>5, <3>1, <4>1
    <3>2. CASE u # t
      BY <1>3, <1>4, <2>1, <3>2 DEF Stored
    <3> QED
      BY <3>1, <3>2
  <2> QED
    BY <1>1, <2>1, <2>2 DEF Mine
<1>10. ExportGood(a, x, b, f)
  BY <1>1, <1>3, <1>7, <1>8, <1>9 DEF ExportGood, Typed
<1>11. ASSUME a PROVE Whole(f) /\ Coherent(em, f)
  <2>1. f.manifest = Nothing /\ f.schema = x.instant
    BY <1>9, <1>1, <1>11 DEF Mine
  <2>2. Coherent(em, d) /\ d.schema = f.schema
    BY <1>4, <1>11 DEF DirectoryGood
  <2> QED
    BY <1>2, <1>4, <2>1, <2>2, ConstantsApart DEF Whole, Coherent, MayBe
<1> QED
  BY <1>4, <1>10, <1>11 DEF b, DirectoryGood

\* The result of a worker is received: an entry, or an error.
LEMMA ReceivedGood ==
  ASSUME NEW a \in BOOLEAN, NEW em, NEW x, NEW c, NEW d,
         ExportGood(a, x, c, d), NEW w \in Copiers,
         c[w].state = "send", NEW y,
         y = IF c[w].result = Nothing THEN [x EXCEPT !.failed = TRUE]
             ELSE [x EXCEPT !.entries[c[w].table] = c[w].result]
  PROVE  ExportGood(a, y, [c EXCEPT ![w] = Waiting], d)
<1> DEFINE b == [c EXCEPT ![w] = Waiting]
           t == c[w].table
<1>1. /\ x \in Exporting /\ c \in [Copiers -> Copying] /\ x.phase = "copy"
      /\ Handed(x, c) /\ Complete(x, c) /\ (a => Mine(x, c, d))
  BY DEF ExportGood, Typed
<1>2. w \in Busy(c) /\ t \in Tables \ (x.jobs \cup Received(x))
  BY <1>1 DEF Handed, Busy
<1>3. /\ b \in [Copiers -> Copying] /\ b[w].state = "wait"
      /\ \A v \in Copiers \ {w} : b[v] = c[v]
  BY <1>1, WorkerTypes
<1>4. /\ y \in Exporting /\ y.phase = "copy" /\ y.jobs = x.jobs /\ y.closed = x.closed
      /\ y.stopped = x.stopped /\ y.instant = x.instant /\ y.positions = x.positions
      /\ \/ /\ Received(y) = Received(x) \cup {t} /\ y.failed = x.failed
            /\ c[w].result # Nothing /\ y.entries[t] = c[w].result
            /\ \A u \in Tables \ {t} : y.entries[u] = x.entries[u]
         \/ y.entries = x.entries /\ Received(y) = Received(x) /\ y.failed
  <2>1. CASE c[w].result = Nothing
    BY <1>1, <2>1 DEF Exporting, Received
  <2>2. CASE c[w].result # Nothing
    <3>1. c[w].result \in Entry /\ x.entries \in Manifest /\ t \in Tables
      BY <1>1, <1>2 DEF Exporting, Copying
    <3>2. [x.entries EXCEPT ![t] = c[w].result] \in Manifest
      BY <3>1 DEF Manifest
    <3>3. /\ y \in Exporting /\ y.phase = "copy" /\ y.jobs = x.jobs /\ y.closed = x.closed
          /\ y.stopped = x.stopped /\ y.instant = x.instant /\ y.positions = x.positions
          /\ y.failed = x.failed /\ y.entries = [x.entries EXCEPT ![t] = c[w].result]
      BY <1>1, <2>2, <3>2 DEF Exporting
    <3>4. y.entries[t] = c[w].result /\ \A u \in Tables \ {t} : y.entries[u] = x.entries[u]
      BY <3>1, <3>3 DEF Manifest
    <3>5. Received(y) = Received(x) \cup {t}
      BY <2>2, <3>1, <3>4 DEF Received
    <3> QED
      BY <2>2, <3>3, <3>4, <3>5
  <2> QED
    BY <2>1, <2>2
<1> HIDE DEF b
<1>5. Busy(b) = Busy(c) \ {w} /\ \A v \in Busy(b) : b[v] = c[v]
  BY <1>3 DEF Busy
<1>6. Handed(y, b)
  <2>1. Received(y) \subseteq Received(x) \cup {t} /\ y.jobs = x.jobs
    BY <1>4
  <2> QED
    BY <1>1, <1>2, <1>5, <2>1 DEF Handed
<1>7. Complete(y, b)
  <2>1. CASE y.failed
    BY <2>1 DEF Complete
  <2>2. CASE ~y.failed
    <3>1. /\ Received(y) = Received(x) \cup {t} /\ y.jobs = x.jobs /\ y.closed = x.closed
          /\ y.stopped = x.stopped /\ ~x.failed
      BY <1>4, <2>2
    <3>2. ASSUME NEW u \in Tables \ (y.jobs \cup Received(y)), ~y.stopped
          PROVE  \E v \in Busy(b) : b[v].table = u
      <4>1. u \in Tables \ (x.jobs \cup Received(x)) /\ u # t /\ ~x.stopped
        BY <3>1, <3>2
      <4>2. PICK v \in Busy(c) : c[v].table = u
        BY <1>1, <3>1, <4>1 DEF Complete
      <4>3. v \in Busy(b) /\ b[v].table = u
        BY <1>5, <4>1, <4>2
      <4> QED
        BY <4>3
    <3> QED
      BY <1>1, <1>3, <3>1, <3>2 DEF Complete
  <2> QED
    BY <2>1, <2>2
<1>8. ASSUME a PROVE Mine(y, b, d)
  <2>1. Mine(x, c, d)
    BY <1>1, <1>8
  <2>2. Stored(y, b, d)
    <3>1. Stored(x, c, d)
      BY <1>1, <2>1 DEF Mine
    <3>2. ASSUME NEW u \in Tables \ Skipped, u \in Received(y) PROVE d.data[u] = y.entries[u]
      BY <1>4, <3>1, <3>2 DEF Stored
    <3>3. \A v \in Copiers : b[v].state = "send" => b[v] = c[v]
      BY <1>3
    <3>4. ASSUME NEW u \in Tables \ Skipped, NEW v \in Copiers,
                 b[v].state = "send" /\ b[v].result # Nothing /\ b[v].table = u
          PROVE  d.data[u] = b[v].result
      <4>1. b[v] = c[v]
        BY <3>3, <3>4
      <4> QED
        BY <3>1, <3>4, <4>1 DEF Stored
    <3> QED
      BY <3>2, <3>4 DEF Stored
  <2> QED
    BY <1>1, <1>4, <2>1, <2>2 DEF Mine
<1>9. ExportGood(a, y, b, d)
  BY <1>3, <1>4, <1>6, <1>7, <1>8 DEF ExportGood, Typed
<1> QED
  BY <1>9 DEF b

\* All workers have returned without an error.
LEMMA ReturnedGood ==
  ASSUME NEW a \in BOOLEAN, NEW em, NEW x, NEW c, NEW d,
         ExportGood(a, x, c, d), x.phase = "copy", ~x.failed,
         \A w \in Copiers : c[w].state = "gone"
  PROVE  ExportGood(a, [x EXCEPT !.phase = "manifest"], c, d)
<1> DEFINE y == [x EXCEPT !.phase = "manifest"]
<1>1. /\ x \in Exporting /\ c \in [Copiers -> Copying]
      /\ Handed(x, c) /\ Complete(x, c) /\ (a => Mine(x, c, d))
  BY DEF ExportGood, Typed
<1>2. /\ y \in Exporting /\ y.phase = "manifest" /\ y.entries = x.entries
      /\ y.stopped = x.stopped /\ y.instant = x.instant /\ y.positions = x.positions
      /\ Received(y) = Received(x) /\ Received(x) \subseteq Tables
  BY <1>1 DEF Exporting, Received
<1>3. PICK w \in Copiers : c[w].state = "gone"
  BY CopiersAssumption
<1>4. ~x.stopped => Received(x) = Tables
  BY <1>1, <1>2, <1>3 DEF Complete, Busy
<1> HIDE DEF y
<1>5. a => Mine(y, c, d)
  BY <1>1, <1>2 DEF Mine, Stored
<1>6. ExportGood(a, y, c, d)
  BY <1>1, <1>2, <1>4, <1>5 DEF ExportGood, Typed
<1> QED
  BY <1>6 DEF y

\* The manifest of a run that was not stopped lists all that was copied.
LEMMA PublishedGood ==
  ASSUME NEW a \in BOOLEAN, NEW em, NEW x, NEW c, NEW d,
         ExportGood(a, x, c, d), DirectoryGood(a, em, d),
         x.phase = "manifest", ~x.stopped
  PROVE  DirectoryGood(a, em, [d EXCEPT !.manifest = x.entries, !.positions = x.positions])
<1> DEFINE f == [d EXCEPT !.manifest = x.entries, !.positions = x.positions]
<1>1. /\ x \in Exporting /\ Received(x) = Tables /\ (a => Mine(x, c, d))
      /\ d \in Directory /\ x.instant \in Instant /\ x.positions \in Instant
      /\ x.entries \in Manifest
  BY DEF ExportGood, Typed, DirectoryGood, Exporting
<1>3. /\ f \in Directory /\ f.schema = d.schema /\ f.data = d.data
      /\ f.manifest = x.entries /\ f.positions = x.positions
  BY <1>1, PutTypes DEF Directory
<1> HIDE DEF f
<1>4. ASSUME a PROVE Whole(f) /\ Coherent(em, f)
  <2>1. /\ d.schema = x.instant /\ Coherent(em, d)
        /\ x.instant <= x.positions
        /\ \A t \in Tables \ Skipped : d.data[t] = x.entries[t]
    BY <1>1, <1>4 DEF Mine, Stored, DirectoryGood
  <2>2. \A t \in Tables : x.entries[t] # Nothing
    BY <1>1 DEF Received
  <2>3. Whole(f)
    BY <1>1, <1>3, <2>1, <2>2, ConstantsApart DEF Whole
  <2>4. Coherent(em, f)
    BY <1>1, <1>3, <2>1 DEF Coherent
  <2> QED
    BY <2>3, <2>4
<1>5. DirectoryGood(a, em, f)
  BY <1>3, <1>4 DEF DirectoryGood
<1> QED
  BY <1>5 DEF f

-----------------------------------------------------------------------------
(***************************************************************************)
(* The steps of the exporters.                                             *)
(***************************************************************************)

Of(e) == bucket[export[e].at]
\* The second d among the starts q.
Started(q, d) == \E i \in DOMAIN q : q[i] = d
Sole(q, d) == \A i, j \in DOMAIN q : q[i] = d /\ q[j] = d => i = j

Own(e) == Sole(starts, export[e].at)

\* Two snapshots that write to the same directory started in the same second.
Separate ==
  \A e, o \in Exporters :
    /\ e # o /\ export[e].phase # "idle" /\ export[o].phase # "idle"
    /\ export[e].at = export[o].at
    => ~Own(e)

\* Who writes to a directory has started, and so has who has written to it.
Counted ==
  /\ \A e \in Exporters : export[e].phase # "idle" => Started(starts, export[e].at)
  /\ \A d \in Second : bucket[d] # Empty => Started(starts, d)

WorldOK ==
  /\ faults \in 0 .. MaxFaults /\ source \in Instant /\ emptied \in [Tables -> Instant]
  /\ \A t \in Tables : emptied[t] <= source
  /\ now \in Second /\ starts \in Seq(Second) /\ Len(starts) <= MaxStarts

ExportInv ==
  /\ bucket \in [Second -> Directory]
  /\ \A d \in Second : DirectoryGood(Sole(starts, d), emptied, bucket[d])
  /\ WorldOK
  /\ export \in [Exporters -> Exporting] /\ copier \in [Exporters -> [Copiers -> Copying]]
  /\ \A e \in Exporters : ExportGood(Own(e), export[e], copier[e], Of(e))
  /\ \A e \in Exporters : export[e].instant <= source
  /\ Separate /\ Counted

LEMMA OwnTypes ==
  /\ \A e : Own(e) \in BOOLEAN
  /\ \A q, d : Sole(q, d) \in BOOLEAN /\ (Alone(d) <=> Sole(starts, d))
  BY DEF Own, Sole, Alone

\* An exporter, its workers and its directory.
LEMMA ExportFacts ==
  ASSUME ExportInv, NEW e \in Exporters
  PROVE  /\ export[e] \in Exporting /\ copier[e] \in [Copiers -> Copying]
         /\ export[e].at \in Second /\ Own(e) \in BOOLEAN
         /\ ExportGood(Own(e), export[e], copier[e], Of(e))
         /\ DirectoryGood(Own(e), emptied, Of(e))
         /\ export[e].instant <= source
         /\ export = [export EXCEPT ![e] = export[e]]
         /\ copier = [copier EXCEPT ![e] = copier[e]]
         /\ bucket = [bucket EXCEPT ![export[e].at] = Of(e)]
<1>1. export[e] \in Exporting /\ export[e].at \in Second
  BY DEF ExportInv, Exporting
<1> QED
  BY <1>1, OwnTypes DEF ExportInv, Of, Own

\* What an exporter does, from x with workers c and directory d to y, b and f.
Moves(e, y, b, f) ==
  /\ export' = [export EXCEPT ![e] = y]
  /\ copier' = [copier EXCEPT ![e] = b]
  /\ bucket' = [bucket EXCEPT ![export[e].at] = f]
  /\ DirectoryGood(Own(e), emptied, f)
  /\ f = Of(e) \/ export[e].phase # "idle"
  /\ \/ y = NoExport /\ Typed(y, b)
     \/ /\ y.at = export[e].at /\ y.instant = export[e].instant
        /\ export[e].phase # "idle" /\ ExportGood(Own(e), y, b, f)

MovesOn(e) == \E y, b, f : Moves(e, y, b, f)

\* A call, if its success and its effect are as they should be.
LEMMA CallMoves ==
  ASSUME ExportInv, NEW e \in Exporters, export[e].phase \notin {"idle", "copy"},
         NEW y, NEW b, NEW f, y.at = export[e].at, y.instant = export[e].instant,
         DirectoryGood(Own(e), emptied, f), ExportGood(Own(e), y, b, f),
         \/ /\ ~export[e].stopped /\ export' = [export EXCEPT ![e] = y]
            /\ copier' = [copier EXCEPT ![e] = b]
            /\ bucket' = [bucket EXCEPT ![export[e].at] = f]
         \/ /\ export' = [export EXCEPT ![e] = NoExport] /\ UNCHANGED copier
            /\ \/ UNCHANGED bucket
               \/ ~export[e].stopped /\ bucket' = [bucket EXCEPT ![export[e].at] = f]
  PROVE  MovesOn(e)
<1>1. /\ export[e] \in Exporting /\ export[e].at \in Second
      /\ DirectoryGood(Own(e), emptied, Of(e))
      /\ copier = [copier EXCEPT ![e] = copier[e]]
      /\ bucket = [bucket EXCEPT ![export[e].at] = Of(e)]
      /\ Typed(NoExport, copier[e])
  BY ExportFacts, IdleType DEF ExportGood, Typed
<1>2. CASE ~export[e].stopped /\ export' = [export EXCEPT ![e] = y]
           /\ copier' = [copier EXCEPT ![e] = b]
           /\ bucket' = [bucket EXCEPT ![export[e].at] = f]
  <2>1. Moves(e, y, b, f)
    BY <1>1, <1>2 DEF Moves
  <2> QED
    BY <2>1 DEF MovesOn
<1>3. CASE export' = [export EXCEPT ![e] = NoExport] /\ UNCHANGED copier
           /\ UNCHANGED bucket
  <2>1. Moves(e, NoExport, copier[e], Of(e))
    BY <1>1, <1>3 DEF Moves
  <2> QED
    BY <2>1 DEF MovesOn
<1>4. CASE export' = [export EXCEPT ![e] = NoExport] /\ UNCHANGED copier
           /\ ~export[e].stopped /\ bucket' = [bucket EXCEPT ![export[e].at] = f]
  <2>1. Moves(e, NoExport, copier[e], f)
    BY <1>1, <1>4 DEF Moves
  <2> QED
    BY <2>1 DEF MovesOn
<1> QED
  BY <1>2, <1>3, <1>4

LEMMA UploadMoves ==
  ASSUME ExportInv, NEW e \in Exporters, UploadSchema(e) PROVE MovesOn(e)
<1> DEFINE x == export[e]
           y == [x EXCEPT !.phase = "sequences"]
           f == [Of(e) EXCEPT !.schema = x.instant]
<1>1. /\ x \in Exporting /\ x.phase = "schema" /\ ExportGood(Own(e), x, copier[e], Of(e))
      /\ DirectoryGood(Own(e), emptied, Of(e)) /\ copier = [copier EXCEPT ![e] = copier[e]]
      /\ Own(e) \in BOOLEAN
  BY ExportFacts DEF UploadSchema
<1>2. DirectoryGood(Own(e), emptied, f) /\ ExportGood(Own(e), y, copier[e], f) /\ y.at = x.at /\ y.instant = x.instant
  <2>1. y.at = x.at /\ y.instant = x.instant
    BY <1>1 DEF Exporting
  <2> QED
    BY <1>1, <2>1, SchemaGood
<1>3. /\ [bucket EXCEPT ![x.at].schema = x.instant] = [bucket EXCEPT ![x.at] = f]
      /\ [export EXCEPT ![e].phase = "sequences"] = [export EXCEPT ![e] = y]
  BY <1>1 DEF Of, ExportInv
<1>4. \/ /\ ~x.stopped /\ export' = [export EXCEPT ![e] = y] /\ UNCHANGED copier
         /\ bucket' = [bucket EXCEPT ![x.at] = f]
      \/ /\ export' = [export EXCEPT ![e] = NoExport] /\ UNCHANGED copier
         /\ \/ UNCHANGED bucket
            \/ ~x.stopped /\ bucket' = [bucket EXCEPT ![x.at] = f]
  BY <1>3 DEF UploadSchema, Call
<1> HIDE DEF y, f
<1> QED
  BY <1>1, <1>2, <1>4, CallMoves

LEMMA SequencesMoves ==
  ASSUME ExportInv, NEW e \in Exporters, ReadSequences(e) PROVE MovesOn(e)
<1> DEFINE x == export[e]
           y == [x EXCEPT !.phase = "copy", !.positions = source]
<1>1. /\ x \in Exporting /\ x.phase = "sequences" /\ ExportGood(Own(e), x, copier[e], Of(e))
      /\ DirectoryGood(Own(e), emptied, Of(e)) /\ bucket = [bucket EXCEPT ![x.at] = Of(e)]
      /\ Own(e) \in BOOLEAN /\ source \in Instant /\ x.instant <= source
  BY ExportFacts DEF ReadSequences, ExportInv, WorldOK
<1>2. ExportGood(Own(e), y, AllWait, Of(e)) /\ y.at = x.at /\ y.instant = x.instant
  <2>1. y.at = x.at /\ y.instant = x.instant
    BY <1>1 DEF Exporting
  <2> QED
    BY <1>1, <2>1, SequencesGood
<1>4. [export EXCEPT ![e].phase = "copy", ![e].positions = source] = [export EXCEPT ![e] = y]
  BY DEF ExportInv
<1>3. \/ /\ ~x.stopped /\ export' = [export EXCEPT ![e] = y] /\ UNCHANGED bucket
         /\ copier' = [copier EXCEPT ![e] = AllWait]
      \/ /\ export' = [export EXCEPT ![e] = NoExport] /\ UNCHANGED copier
         /\ UNCHANGED bucket
  BY <1>4 DEF ReadSequences, Call, AllWait
<1> HIDE DEF y
<1> QED
  BY <1>1, <1>2, <1>3, CallMoves

LEMMA ManifestMoves ==
  ASSUME ExportInv, NEW e \in Exporters, PutManifest(e) PROVE MovesOn(e)
<1> DEFINE x == export[e]
           f == [Of(e) EXCEPT !.manifest = x.entries, !.positions = x.positions]
<1>1. /\ x \in Exporting /\ x.phase = "manifest" /\ ExportGood(Own(e), x, copier[e], Of(e))
      /\ DirectoryGood(Own(e), emptied, Of(e)) /\ copier = [copier EXCEPT ![e] = copier[e]]
      /\ x.at \in Second /\ Typed(NoExport, copier[e]) /\ Own(e) \in BOOLEAN
  BY ExportFacts, IdleType DEF PutManifest, ExportGood, Typed
<1>2. ~x.stopped => DirectoryGood(Own(e), emptied, f)
  BY <1>1, PublishedGood
<1>3. Publish(e) => bucket' = [bucket EXCEPT ![x.at] = f]
  BY <1>1 DEF Of, ExportInv, Publish
<1>6. /\ export' = [export EXCEPT ![e] = NoExport] /\ UNCHANGED copier
      /\ \/ UNCHANGED bucket
         \/ ~export[e].stopped /\ Publish(e)
  BY DEF PutManifest, Call
<1>4. UNCHANGED bucket \/ (~x.stopped /\ bucket' = [bucket EXCEPT ![x.at] = f])
  BY <1>3, <1>6
<1> HIDE DEF f
<1>5. \/ Moves(e, NoExport, copier[e], f)
      \/ Moves(e, NoExport, copier[e], Of(e))
  BY <1>1, <1>2, <1>4, <1>6, ExportFacts DEF Moves
<1> QED
  BY <1>5 DEF MovesOn

\* Steps that leave the bucket alone.
LEMMA LocalMoves ==
  ASSUME ExportInv, NEW e \in Exporters, NEW y, NEW b,
         export[e].phase # "idle", UNCHANGED bucket,
         export' = [export EXCEPT ![e] = y], copier' = [copier EXCEPT ![e] = b],
         \/ y = NoExport /\ Typed(y, b)
         \/ /\ y.at = export[e].at /\ y.instant = export[e].instant
            /\ ExportGood(Own(e), y, b, Of(e))
  PROVE  MovesOn(e)
<1>1. bucket = [bucket EXCEPT ![export[e].at] = Of(e)] /\ DirectoryGood(Own(e), emptied, Of(e))
  BY ExportFacts
<1>2. Moves(e, y, b, Of(e))
  BY <1>1 DEF Moves
<1> QED
  BY <1>2 DEF MovesOn

LEMMA RunMoves ==
  ASSUME ExportInv, NEW e \in Exporters,
         StopFeeding(e) \/ CopyReturns(e) \/ Signal(e) \/ Killed(e)
  PROVE  MovesOn(e)
<1>1. /\ export[e] \in Exporting /\ ExportGood(Own(e), export[e], copier[e], Of(e))
      /\ copier = [copier EXCEPT ![e] = copier[e]]
      /\ export[e].phase # "idle" /\ UNCHANGED bucket
      /\ copier[e] \in [Copiers -> Copying] /\ Own(e) \in BOOLEAN
  BY ExportFacts DEF StopFeeding, CopyReturns, Signal, Killed
<1>2. CASE StopFeeding(e)
  <2> DEFINE y == [export[e] EXCEPT !.closed = TRUE]
  <2>1. /\ y.at = export[e].at /\ y.instant = export[e].instant
        /\ export' = [export EXCEPT ![e] = y] /\ UNCHANGED copier
    BY <1>1, <1>2 DEF StopFeeding, Exporting, ExportInv
  <2>2. ExportGood(Own(e), y, copier[e], Of(e))
    BY <1>1, <1>2, FlagsGood DEF StopFeeding, Done
  <2> HIDE DEF y
  <2> QED
    BY <1>1, <2>1, <2>2, LocalMoves
<1>3. CASE Signal(e)
  <2> DEFINE y == [export[e] EXCEPT !.stopped = TRUE]
  <2>1. /\ y.at = export[e].at /\ y.instant = export[e].instant
        /\ export' = [export EXCEPT ![e] = y] /\ UNCHANGED copier
    BY <1>1, <1>3 DEF Signal, Exporting, ExportInv
  <2>2. ExportGood(Own(e), y, copier[e], Of(e))
    BY <1>1, <1>3, FlagsGood DEF Signal
  <2> HIDE DEF y
  <2> QED
    BY <1>1, <2>1, <2>2, LocalMoves
<1>4. CASE Killed(e)
  <2>1. /\ export' = [export EXCEPT ![e] = NoExport]
        /\ copier' = [copier EXCEPT ![e] = AllGone]
    BY <1>4 DEF Killed, AllGone
  <2>2. Typed(NoExport, AllGone)
    BY IdleType, WorkerTypes DEF Typed
  <2> QED
    BY <1>1, <2>1, <2>2, LocalMoves
<1>5. CASE CopyReturns(e)
  <2>1. /\ \A w \in Copiers : copier[e][w].state = "gone"
        /\ export[e].phase = "copy" /\ UNCHANGED copier
    BY <1>5 DEF CopyReturns
  <2>2. CASE export[e].failed
    <3>1. export' = [export EXCEPT ![e] = NoExport]
      BY <1>5, <2>2 DEF CopyReturns
    <3>2. Typed(NoExport, copier[e])
      BY <1>1, <2>1, IdleType DEF Typed
    <3> QED
      BY <1>1, <2>1, <3>1, <3>2, LocalMoves
  <2>3. CASE ~export[e].failed
    <3> DEFINE y == [export[e] EXCEPT !.phase = "manifest"]
    <3>1. y.at = export[e].at /\ y.instant = export[e].instant /\ export' = [export EXCEPT ![e] = y]
      BY <1>1, <1>5, <2>3 DEF CopyReturns, Exporting, ExportInv
    <3>2. ExportGood(Own(e), y, copier[e], Of(e))
      BY <1>1, <2>1, <2>3, ReturnedGood
    <3> HIDE DEF y
    <3> QED
      BY <1>1, <2>1, <3>1, <3>2, LocalMoves
  <2> QED
    BY <2>2, <2>3
<1> QED
  BY <1>2, <1>3, <1>4, <1>5

LEMMA WorkerMoves ==
  ASSUME ExportInv, NEW e \in Exporters, NEW w \in Copiers, CopierStep(e, w)
  PROVE  MovesOn(e)
<1> DEFINE x == export[e]
           c == copier[e]
<1>1. /\ x \in Exporting /\ ExportGood(Own(e), x, c, Of(e)) /\ DirectoryGood(Own(e), emptied, Of(e))
      /\ c \in [Copiers -> Copying] /\ x.at \in Second
      /\ copier \in [Exporters -> [Copiers -> Copying]]
      /\ bucket \in [Second -> Directory] /\ export = [export EXCEPT ![e] = x]
      /\ Own(e) \in BOOLEAN
  BY ExportFacts DEF ExportInv
<1>2. c[w].state # "gone"
  BY DEF CopierStep, Feed, CopyOne, Send, DropResult, WorkerReturns
<1>3. x.phase = "copy"
  BY <1>1, <1>2 DEF ExportGood, Typed
<1>4. CASE Feed(e, w)
  <2>1. PICK t \in x.jobs :
          /\ export' = [export EXCEPT ![e].jobs = @ \ {t}]
          /\ copier' = [copier EXCEPT ![e][w] = [Waiting EXCEPT !.state = "copy", !.table = t]]
    BY <1>4 DEF Feed
  <2>2. ~x.closed /\ c[w].state = "wait" /\ UNCHANGED bucket
    BY <1>4 DEF Feed
  <2> DEFINE y == [x EXCEPT !.jobs = @ \ {t}]
             b == [c EXCEPT ![w] = [Waiting EXCEPT !.state = "copy", !.table = t]]
  <2>3. ExportGood(Own(e), y, b, Of(e))
    BY <1>1, <2>2, FeedGood
  <2>4. /\ y.at = x.at /\ y.instant = x.instant /\ export' = [export EXCEPT ![e] = y]
        /\ copier' = [copier EXCEPT ![e] = b]
    BY <1>1, <2>1 DEF Exporting, ExportInv
  <2> HIDE DEF y, b
  <2> QED
    BY <1>3, <2>2, <2>3, <2>4, LocalMoves
<1>5. CASE CopyOne(e, w)
  <2> DEFINE t == c[w].table
             rows == Seen(x.instant, t)
             stored(r) == bucket' = [bucket EXCEPT ![x.at].data[t] = r]
  <2>9. /\ t \in Tables /\ rows \in Contents /\ rows # Nothing
        /\ MayBe(emptied, x.instant, t, rows)
    <3>1. c[w].state = "copy"
      BY <1>5 DEF CopyOne
    <3>2. t \in Tables
      BY <1>1, <1>3, <3>1 DEF ExportGood, Handed, Busy
    <3>3. x.instant \in Instant /\ emptied[t] \in Instant
      BY <1>1, <3>2 DEF Exporting, ExportInv, WorldOK
    <3> QED
      BY <3>2, <3>3, ConstantsApart DEF Seen, MayBe, Contents
  <2>1. PICK result \in Entry :
          /\ copier' = [copier EXCEPT ![e][w].state = "send", ![e][w].result = result]
          /\ UNCHANGED bucket \/ stored(rows) \/ stored(Truncated)
          /\ result # Nothing => t \in Skipped \/ (stored(rows) /\ result = rows)
    <3>1. NoRows \in Entry /\ Nothing \in Entry /\ rows \in Entry
      BY <2>9 DEF Entry
    <3> HIDE DEF rows
    <3> QED
      BY <1>5, <3>1 DEF CopyOne, rows
  <2>2. c[w].state = "copy" /\ UNCHANGED export
    BY <1>5 DEF CopyOne
  <2> DEFINE b == [c EXCEPT ![w].state = "send", ![w].result = result]
  <2>3. copier' = [copier EXCEPT ![e] = b]
    BY <1>1, <2>1
  <2>4. \A r : stored(r) <=> bucket' = [bucket EXCEPT ![x.at] = [Of(e) EXCEPT !.data[t] = r]]
    BY <1>1 DEF Of
  <2>5. UNCHANGED bucket <=> bucket' = [bucket EXCEPT ![x.at] = Of(e)]
    BY <1>1 DEF Of
  <2>6. PICK f : /\ bucket' = [bucket EXCEPT ![x.at] = f]
                 /\ \/ f = Of(e)
                    \/ \E r \in {rows, Truncated} : f = [Of(e) EXCEPT !.data[t] = r]
                 /\ result # Nothing => t \in Skipped \/ f = [Of(e) EXCEPT !.data[t] = result]
    <3> HIDE DEF stored, rows
    <3>1. CASE stored(rows) /\ (result # Nothing => t \in Skipped \/ result = rows)
      BY <2>4, <3>1
    <3>2. CASE stored(Truncated) /\ (result # Nothing => t \in Skipped)
      BY <2>4, <3>2
    <3>3. CASE UNCHANGED bucket /\ (result # Nothing => t \in Skipped)
      BY <2>5, <3>3
    <3> QED
      BY <2>1, <3>1, <3>2, <3>3
  <2>7. ExportGood(Own(e), x, b, f) /\ DirectoryGood(Own(e), emptied, f)
    <3>1. \/ f = Of(e)
          \/ \E r \in {rows, Truncated} : f = [Of(e) EXCEPT !.data[c[w].table] = r]
      BY <2>6
    <3>2. result # Nothing => \/ c[w].table \in Skipped
                              \/ f = [Of(e) EXCEPT !.data[c[w].table] = result]
      BY <2>6
    <3>3. rows \in Contents /\ MayBe(emptied, x.instant, c[w].table, rows)
      BY <2>9
    <3> DEFINE g == Own(e)
               d == Of(e)
    <3>4. /\ g \in BOOLEAN /\ ExportGood(g, x, c, d) /\ DirectoryGood(g, emptied, d)
          /\ c[w].state = "copy" /\ result \in Entry
      BY <1>1, <2>1, <2>2
    <3>5. /\ \/ f = d
             \/ \E r \in {rows, Truncated} : f = [d EXCEPT !.data[c[w].table] = r]
          /\ result # Nothing => \/ c[w].table \in Skipped
                                \/ f = [d EXCEPT !.data[c[w].table] = result]
      BY <3>1, <3>2
    <3> HIDE DEF x, c, rows, g, d
    <3>6. ExportGood(g, x, b, f) /\ DirectoryGood(g, emptied, f)
      BY <3>3, <3>4, <3>5, CopiedGood DEF b
    <3> QED
      BY <3>6 DEF g
  <2> HIDE DEF b
  <2>8. Moves(e, x, b, f)
    BY <1>1, <1>3, <2>2, <2>3, <2>6, <2>7 DEF Moves
  <2> QED
    BY <2>8 DEF MovesOn
<1>6. CASE Send(e, w)
  <2> DEFINE t == c[w].table
             y == IF c[w].result = Nothing THEN [x EXCEPT !.failed = TRUE]
                  ELSE [x EXCEPT !.entries[t] = c[w].result]
             b == [c EXCEPT ![w] = Waiting]
  <2>1. c[w].state = "send" /\ UNCHANGED bucket
    BY <1>6 DEF Send
  <2>2. ExportGood(Own(e), y, b, Of(e))
    BY <1>1, <2>1, ReceivedGood
  <2>3. /\ y.at = x.at /\ y.instant = x.instant /\ export' = [export EXCEPT ![e] = y]
        /\ copier' = [copier EXCEPT ![e] = b]
    BY <1>1, <1>6 DEF Send, Exporting, ExportInv
  <2> HIDE DEF y, b
  <2> QED
    BY <1>3, <2>1, <2>2, <2>3, LocalMoves
<1>7. CASE DropResult(e, w) \/ WorkerReturns(e, w)
  <2> DEFINE b == [c EXCEPT ![w] = Gone]
  <2>1. /\ \/ c[w].state = "wait" /\ x.closed
           \/ c[w].state = "send" /\ (x.stopped \/ x.failed)
        /\ UNCHANGED <<bucket, export>>
    BY <1>7 DEF DropResult, WorkerReturns, Done
  <2>2. ExportGood(Own(e), x, b, Of(e))
    BY <1>1, <2>1, FreeGood
  <2>3. copier' = [copier EXCEPT ![e] = b]
    BY <1>1, <1>7 DEF DropResult, WorkerReturns
  <2> HIDE DEF b
  <2> QED
    BY <1>1, <1>3, <2>1, <2>2, <2>3, LocalMoves
<1> QED
  BY <1>4, <1>5, <1>6, <1>7 DEF CopierStep

\* A step of one exporter leaves the others, and their directories, alone; a
\* directory of one snapshot that has its manifest never changes.
LEMMA MovesKeep ==
  ASSUME ExportInv, NEW e \in Exporters, MovesOn(e), faults' \in 0 .. MaxFaults,
         UNCHANGED world
  PROVE  /\ ExportInv'
         /\ \A d \in Second :
              Sole(starts, d) /\ bucket[d].manifest # Nothing => bucket'[d] = bucket[d]
<1>1. PICK y, b, f : Moves(e, y, b, f)
  BY DEF MovesOn
<1> DEFINE s == export[e].at
<1>2. /\ export[e] \in Exporting /\ s \in Second
      /\ ExportGood(Own(e), export[e], copier[e], Of(e))
  BY ExportFacts
<1>3. Typed(y, b) /\ ExportGood(Sole(starts, y.at), y, b, bucket'[y.at])
  <2>1. CASE y = NoExport
    <3>1. Typed(y, b)
      BY <1>1, <2>1 DEF Moves, ExportGood
    <3> QED
      BY <2>1, <3>1, IdleType, IdleGood, OwnTypes DEF Typed
  <2>2. CASE y # NoExport
    BY <1>1, <1>2, <2>2 DEF Moves, ExportInv, ExportGood, Own
  <2> QED
    BY <2>1, <2>2
<1>4. /\ bucket' \in [Second -> Directory]
      /\ export' \in [Exporters -> Exporting] /\ copier' \in [Exporters -> [Copiers -> Copying]]
  BY <1>1, <1>2, <1>3 DEF ExportInv, Moves, DirectoryGood, Typed
<1>11. ASSUME NEW d \in Second PROVE DirectoryGood(Sole(starts, d), emptied, bucket'[d])
  <2>1. DirectoryGood(Own(e), emptied, f) /\ bucket' = [bucket EXCEPT ![s] = f]
    BY <1>1 DEF Moves
  <2> QED
    BY <1>2, <2>1 DEF ExportInv, Own
<1>5. export'[e] = y /\ copier'[e] = b
  BY <1>1 DEF Moves, ExportInv
<1>6. ASSUME NEW o \in Exporters, o # e
      PROVE  /\ export'[o] = export[o] /\ copier'[o] = copier[o]
             /\ export[o].phase # "idle" /\ Own(o) => bucket'[export[o].at] = Of(o)
  <2>1. export'[o] = export[o] /\ copier'[o] = copier[o] /\ export[o].at \in Second
    BY <1>1, <1>6, ExportFacts DEF Moves, ExportInv
  <2>2. ASSUME export[o].phase # "idle", Own(o) PROVE bucket'[export[o].at] = Of(o)
    BY <1>1, <1>2, <1>6, <2>1, <2>2 DEF Moves, ExportInv, Separate, Of
  <2> QED
    BY <2>1, <2>2
<1>7. ASSUME NEW o \in Exporters
      PROVE  ExportGood(Sole(starts, export'[o].at), export'[o], copier'[o], bucket'[export'[o].at])
  <2>1. CASE o = e
    BY <1>3, <1>5, <2>1
  <2>2. CASE o # e
    <3>1. ExportGood(Own(o), export[o], copier[o], Of(o))
      BY ExportFacts
    <3> QED
      BY <1>6, <2>2, <3>1 DEF ExportGood, Mine, Own
  <2> QED
    BY <2>1, <2>2
<1>12. ASSUME NEW o \in Exporters PROVE export'[o].instant <= source
  <2>1. y.instant <= source
    BY <1>1, LimitsAssumption DEF Moves, ExportInv, NoExport, WorldOK, Instant
  <2> QED
    BY <1>5, <1>6, <2>1 DEF ExportInv
<1>8. y.phase # "idle" => y.at = s /\ export[e].phase # "idle"
  BY <1>1, IdleType DEF Moves
<1>13. ASSUME NEW o \in Exporters, NEW q \in Exporters, o # q,
              export'[o].phase # "idle", export'[q].phase # "idle",
              export'[o].at = export'[q].at
       PROVE  ~Sole(starts, export'[o].at)
  BY <1>5, <1>6, <1>8, <1>13 DEF Separate, ExportInv, Own
<1>14. ASSUME NEW o \in Exporters, export'[o].phase # "idle" PROVE Started(starts, export'[o].at)
  BY <1>5, <1>6, <1>8, <1>14 DEF Counted, ExportInv
<1>15. ASSUME NEW d \in Second, bucket'[d] # Empty PROVE Started(starts, d)
  <2>1. CASE bucket[d] # Empty
    BY <2>1 DEF Counted, ExportInv
  <2>2. CASE bucket[d] = Empty
    <3>1. d = s /\ export[e].phase # "idle"
      BY <1>1, <1>2, <1>15, <2>2 DEF Moves, ExportInv, Of
    <3> QED
      BY <3>1 DEF Counted, ExportInv
  <2> QED
    BY <2>1, <2>2
<1>9. ASSUME NEW d \in Second, Sole(starts, d), bucket[d].manifest # Nothing
      PROVE  bucket'[d] = bucket[d]
  <2>1. CASE d # s
    BY <1>1, <2>1 DEF Moves, ExportInv
  <2>2. CASE d = s
    <3>1. export[e].phase = "idle"
      <4>1. Mine(export[e], copier[e], bucket[s])
        BY <1>2, <1>9, <2>2 DEF ExportGood, Of, Own
      <4>2. export[e].phase \in {"idle", "schema", "sequences", "copy", "manifest"}
        BY <1>2 DEF Exporting
      <4> QED
        BY <1>9, <2>2, <4>1, <4>2, EmptyGood DEF Mine
    <3> QED
      BY <1>1, <1>2, <2>2, <3>1 DEF Moves, Of, ExportInv
  <2> QED
    BY <2>1, <2>2
<1>16. /\ (\A d \in Second : DirectoryGood(Sole(starts, d), emptied, bucket[d]))'
       /\ (\A o \in Exporters : ExportGood(Own(o), export[o], copier[o], Of(o)))'
       /\ (\A o \in Exporters : export[o].instant <= source)'
  BY <1>7, <1>11, <1>12 DEF Own, Of, world
<1>17. Separate' /\ Counted'
  BY <1>13, <1>14, <1>15 DEF Separate, Counted, Own, world
<1>18. WorldOK'
  BY DEF WorldOK, ExportInv, world
<1> QED
  BY <1>4, <1>9, <1>16, <1>17, <1>18 DEF ExportInv

\* A start adds its second, and leaves what was alone before, or is not the
\* second of the start, as it was.
LEMMA StartAdds ==
  ASSUME starts \in Seq(Second), now \in Second, starts' = Append(starts, now)
  PROVE  /\ starts' \in Seq(Second) /\ Len(starts') = Len(starts) + 1 /\ Len(starts) \in Nat
         /\ Started(starts', now) /\ \A d : Started(starts, d) => Started(starts', d)
         /\ \A d : Sole(starts', d) => Sole(starts, d)
         /\ Sole(starts', now) => ~Started(starts, now)
<1>1. /\ starts' \in Seq(Second) /\ Len(starts') = Len(starts) + 1
      /\ DOMAIN starts = 1 .. Len(starts) /\ DOMAIN starts' = 1 .. Len(starts) + 1
      /\ Len(starts) \in Nat /\ starts'[Len(starts) + 1] = now
      /\ \A i \in DOMAIN starts : starts'[i] = starts[i]
  OBVIOUS
<1>2. DOMAIN starts \subseteq DOMAIN starts' /\ Len(starts) + 1 \in DOMAIN starts'
  BY <1>1
<1>3. Len(starts) + 1 \notin DOMAIN starts
  BY <1>1
<1>4. Started(starts', now) /\ \A d : Started(starts, d) => Started(starts', d)
  BY <1>1, <1>2 DEF Started
<1>5. \A d : Sole(starts', d) => Sole(starts, d)
  BY <1>1, <1>2 DEF Sole
<1>6. Sole(starts', now) => ~Started(starts, now)
  BY <1>1, <1>2, <1>3 DEF Sole, Started
<1> QED
  BY <1>1, <1>4, <1>5, <1>6

\* Less is true of a directory that is shared.
LEMMA Weaker ==
  ASSUME NEW a, NEW b, b => a, NEW em, NEW x, NEW c, NEW d
  PROVE  /\ DirectoryGood(a, em, d) => DirectoryGood(b, em, d)
         /\ ExportGood(a, x, c, d) => ExportGood(b, x, c, d)
  BY DEF DirectoryGood, ExportGood

LEMMA StartKeeps ==
  ASSUME ExportInv, NEW e \in Exporters, StartExport(e)
  PROVE  ExportInv' /\ UNCHANGED bucket /\ \A d : Sole(starts', d) => Sole(starts, d)
<1> DEFINE y == [NoExport EXCEPT !.phase = "schema", !.at = now, !.instant = source,
                                 !.jobs = Tables]
<1>1. /\ export[e].phase = "idle" /\ export' = [export EXCEPT ![e] = y]
      /\ UNCHANGED <<bucket, faults, source, emptied, now, copier>>
      /\ Len(starts) < MaxStarts /\ starts' = Append(starts, now)
  BY DEF StartExport
<1>2. /\ now \in Second /\ source \in Instant /\ copier[e] \in [Copiers -> Copying]
      /\ \A w \in Copiers : copier[e][w].state = "gone"
      /\ starts \in Seq(Second)
  BY <1>1, ExportFacts DEF ExportInv, WorldOK, ExportGood, Typed
<1>3. /\ starts' \in Seq(Second) /\ Len(starts') = Len(starts) + 1 /\ Len(starts) \in Nat
      /\ Started(starts', now) /\ \A d : Started(starts, d) => Started(starts', d)
      /\ \A d : Sole(starts', d) => Sole(starts, d)
      /\ Sole(starts', now) => ~Started(starts, now)
  BY <1>1, <1>2, StartAdds
<1>4. Sole(starts', now) => bucket[now] = Empty
  BY <1>2, <1>3 DEF ExportInv, Counted
<1>5. /\ ExportGood(Sole(starts', now), y, copier[e], bucket[now]) /\ y.at = now
      /\ y.instant = source
  <2>1. Sole(starts', now) \in BOOLEAN
    BY OwnTypes
  <2> QED
    BY <1>1, <1>2, <1>4, <2>1, StartGood DEF NoExport
<1>6. y \in Exporting
  BY <1>5 DEF ExportGood, Typed
<1> HIDE DEF y
<1>7. /\ export'[e] = y /\ copier' = copier /\ bucket' = bucket
      /\ \A o \in Exporters \ {e} : export'[o] = export[o]
  BY <1>1 DEF ExportInv
<1>8. ASSUME NEW o \in Exporters
      PROVE  ExportGood(Sole(starts', export'[o].at), export'[o], copier[o], bucket[export'[o].at])
  <2>1. CASE o = e
    BY <1>5, <1>7, <2>1
  <2>2. CASE o # e
    <3>1. ExportGood(Sole(starts, export[o].at), export[o], copier[o], bucket[export[o].at])
      BY ExportFacts DEF Own, Of
    <3>2. Sole(starts', export[o].at) => Sole(starts, export[o].at)
      BY <1>3
    <3> QED
      BY <1>3, <1>7, <2>2, <3>1, Weaker
  <2> QED
    BY <2>1, <2>2
<1>9. ASSUME NEW d \in Second PROVE DirectoryGood(Sole(starts', d), emptied, bucket[d])
  <2>1. DirectoryGood(Sole(starts, d), emptied, bucket[d]) /\ (Sole(starts', d) => Sole(starts, d))
    BY <1>3 DEF ExportInv
  <2> QED
    BY <2>1, Weaker
<1>10. Separate' /\ Counted'
  BY <1>3, <1>5, <1>7 DEF ExportInv, Separate, Counted, Own
<1>11. WorldOK'
  <2>1. Len(starts') <= MaxStarts
    BY <1>1, <1>3, LimitsAssumption
  <2> QED
    BY <1>1, <1>3, <2>1 DEF ExportInv, WorldOK
<1>12. \A o \in Exporters : export'[o].instant <= source
  BY <1>2, <1>5, <1>7, LimitsAssumption DEF ExportInv, Instant
<1> QED
  BY <1>1, <1>3, <1>6, <1>7, <1>8, <1>9, <1>10, <1>11, <1>12 DEF ExportInv, Own, Of

\* What a step of the exporters or of the source leaves as it is.
DirectoriesKept ==
  \A d \in Second :
    /\ Sole(starts', d) => Sole(starts, d)
    /\ Sole(starts, d) /\ bucket[d].manifest # Nothing => bucket'[d] = bucket[d]

\* A commit empties tables for older views only.
LEMMA WriteKeeps ==
  ASSUME ExportInv, Write \/ Tick PROVE ExportInv' /\ UNCHANGED <<bucket, starts>>
<1>1. UNCHANGED <<bucket, starts, faults, export, copier>>
  BY DEF Write, Tick
<1>2. /\ source' \in Instant /\ now' \in Second /\ source <= source'
      /\ emptied' \in [Tables -> Instant] /\ \A t \in Tables : emptied[t] <= emptied'[t] /\ emptied'[t] <= source'
  <2>1. CASE Tick
    BY <2>1, LimitsAssumption DEF Tick, ExportInv, WorldOK, Second, Instant
  <2>2. CASE Write
    <3>1. PICK gone \in SUBSET Rewritten :
            emptied' = [t \in Tables |-> IF t \in gone THEN source' ELSE emptied[t]]
      BY <2>2 DEF Write
    <3>2. /\ source \in Instant /\ source' = source + 1 /\ source' \in Instant
          /\ now' = now /\ now \in Second
      BY <2>2, LimitsAssumption DEF Write, ExportInv, WorldOK, Instant
    <3>3. \A t \in Tables : emptied[t] \in Instant /\ emptied[t] <= source
      BY DEF ExportInv, WorldOK
    <3>4. emptied' \in [Tables -> Instant]
      BY <3>1, <3>2, <3>3
    <3>5. \A t \in Tables : emptied[t] <= emptied'[t] /\ emptied'[t] <= source'
      BY <3>1, <3>2, <3>3, LimitsAssumption DEF Instant
    <3> QED
      BY <3>2, <3>4, <3>5, LimitsAssumption DEF Instant
  <2> QED
    BY <2>1, <2>2
<1>4. ASSUME NEW d \in Second PROVE DirectoryGood(Sole(starts, d), emptied', bucket[d])
  <2>1. DirectoryGood(Sole(starts, d), emptied, bucket[d])
    BY DEF ExportInv
  <2>2. \A i, t, rows : t \in Tables /\ MayBe(emptied, i, t, rows) => MayBe(emptied', i, t, rows)
    <3> SUFFICES ASSUME NEW i \in Instant, NEW t \in Tables, i < emptied[t]
                 PROVE  i < emptied'[t]
      BY DEF MayBe
    <3>1. emptied[t] \in Instant /\ emptied'[t] \in Instant /\ emptied[t] <= emptied'[t]
      BY <1>2 DEF ExportInv, WorldOK
    <3> QED
      BY <3>1, LimitsAssumption DEF Instant
  <2> QED
    BY <2>1, <2>2 DEF DirectoryGood, Coherent
<1>5. ASSUME NEW e \in Exporters PROVE export[e].instant <= source'
  BY <1>2, ExportFacts, LimitsAssumption DEF Exporting, Instant, ExportInv, WorldOK
<1>6. Separate' /\ Counted'
  BY <1>1 DEF ExportInv, Separate, Counted, Own
<1>7. WorldOK'
  BY <1>1, <1>2 DEF ExportInv, WorldOK
<1> QED
  BY <1>1, <1>4, <1>5, <1>6, <1>7 DEF ExportInv, Own, Of

LEMMA ExportNextKeeps ==
  ASSUME ExportInv, ExportNext PROVE ExportInv' /\ DirectoriesKept
<1>1. ASSUME NEW e \in Exporters, StartExport(e) PROVE ExportInv' /\ DirectoriesKept
  BY <1>1, StartKeeps DEF DirectoriesKept
<1>2. ASSUME NEW e \in Exporters, ExportStep(e) \/ Signal(e) \/ Killed(e)
      PROVE  ExportInv' /\ DirectoriesKept
  <2>1. MovesOn(e)
    BY <1>2, UploadMoves, SequencesMoves, ManifestMoves, RunMoves, WorkerMoves DEF ExportStep
  <2>2. UNCHANGED world /\ (UNCHANGED faults \/ Fault)
    <3>1. CASE UploadSchema(e) \/ ReadSequences(e) \/ PutManifest(e)
      BY <3>1 DEF UploadSchema, ReadSequences, PutManifest, Call
    <3>2. CASE StopFeeding(e) \/ CopyReturns(e) \/ Signal(e) \/ Killed(e)
      BY <3>2 DEF StopFeeding, CopyReturns, Signal, Killed
    <3>3. ASSUME NEW w \in Copiers, CopierStep(e, w)
          PROVE  UNCHANGED world /\ (UNCHANGED faults \/ Fault)
      BY <3>3 DEF CopierStep, Feed, CopyOne, Send, DropResult, WorkerReturns
    <3> QED
      BY <1>2, <3>1, <3>2, <3>3 DEF ExportStep
  <2>3. faults' \in 0 .. MaxFaults
    BY <2>2, LimitsAssumption DEF ExportInv, WorldOK, Fault
  <2>4. UNCHANGED starts
    BY <2>2 DEF world
  <2> QED
    BY <2>1, <2>2, <2>3, <2>4, MovesKeep DEF DirectoriesKept
<1>3. CASE Write \/ Tick
  BY <1>3, WriteKeeps DEF DirectoriesKept
<1> QED
  BY <1>1, <1>2, <1>3 DEF ExportNext

LEMMA ExportInvInit == Init => ExportInv
<1> SUFFICES ASSUME Init PROVE ExportInv
  OBVIOUS
<1>1. /\ export = [e \in Exporters |-> NoExport] /\ copier = [e \in Exporters |-> AllGone]
      /\ bucket = [d \in Second |-> Empty] /\ faults = 0 /\ source = 0 /\ now = 0
      /\ emptied = [t \in Tables |-> 0] /\ starts = <<>>
  BY DEF Init, ExportInit, AllGone
<1>2. \A a \in BOOLEAN : \A d : ExportGood(a, NoExport, AllGone, d)
  BY WorkerTypes, IdleGood
<1>3. 0 \in Second /\ 0 \in Instant /\ 0 \in 0 .. MaxFaults
  BY LimitsAssumption DEF Second, Instant
<1>4. NoExport.instant = 0
  BY DEF NoExport
<1>5. WorldOK
  BY <1>1, <1>3, LimitsAssumption DEF WorldOK
<1>6. Separate /\ Counted
  BY <1>1, IdleType DEF Separate, Counted
<1>7. Empty \in Directory /\ \A d : DirectoryGood(Sole(starts, d), emptied, Empty)
  BY EmptyGood DEF DirectoryGood
<1> QED
  BY <1>1, <1>2, <1>3, <1>4, <1>5, <1>6, <1>7, OwnTypes, IdleType, WorkerTypes
     DEF ExportInv

-----------------------------------------------------------------------------
(***************************************************************************)
(* The restores: one with the locals x, the workers l, and the snapshot d, *)
(* which no other shares if a.                                             *)
(***************************************************************************)

Restoring ==
  [phase : {"idle", "manifest", "schema", "load", "finish", "ready"},
   from : Second, manifest : Manifest \cup {Nothing},
   schema : Instant \cup {Nothing}, rows : [Tables -> Contents \cup {Nothing}],
   jobs : SUBSET Tables, closed : BOOLEAN, failed : BOOLEAN, stopped : BOOLEAN]

Loading == [Loaders -> Tables \cup {Nothing, Returned}]

\* The tables to load.
Pending(x) == {t \in Tables \ Owned : x.manifest[t] \in Contents}

\* As long as nothing has failed, no table is passed over.
Passed(x, l, d) ==
  ~x.stopped /\ ~x.failed =>
    /\ \A t \in Pending(x) \ x.jobs :
         (\E w \in Loaders : l[w] = t) \/ x.rows[t] = d.data[t]
    /\ x.closed => x.jobs = {}
    /\ \A w \in Loaders : l[w] = Returned => x.closed

LoadGood(a, x, l, d) ==
  /\ x \in Restoring /\ l \in Loading
  /\ x.phase # "load" => \A w \in Loaders : l[w] = Returned
  /\ x.phase \notin {"idle", "manifest"} => x.manifest # Nothing
  /\ x.phase \in {"manifest", "schema"} => ~x.failed /\ ~x.closed
  /\ a /\ x.phase \notin {"idle", "manifest"} => x.manifest = d.manifest
  /\ a /\ x.phase \in {"load", "finish", "ready"} => x.schema = d.schema
  /\ a /\ x.phase = "load" => Passed(x, l, d)
  /\ a /\ (x.phase = "ready" \/ (x.phase = "finish" /\ ~x.stopped)) =>
       \A t \in Pending(x) : x.rows[t] = d.data[t]

LEMMA LatestType == Snapshots # {} => LatestSnapshot \in Second
<1> SUFFICES ASSUME Snapshots # {} PROVE \E d \in Snapshots : \A o \in Snapshots : o <= d
  BY DEF LatestSnapshot, Snapshots
<1> DEFINE T == {n \in Nat : \E d \in Snapshots : n = MaxTime - d}
<1>1. MaxTime \in Nat /\ Snapshots \subseteq 0 .. MaxTime
  BY LimitsAssumption DEF Snapshots, Second
<1>2. T \in SUBSET Nat /\ T # {}
  <2>1. PICK d \in Snapshots : TRUE
    OBVIOUS
  <2>2. MaxTime - d \in Nat
    BY <1>1
  <2>3. MaxTime - d \in T
    BY <2>2
  <2> QED
    BY <2>3
<1>3. PICK x \in T : \A y \in T : ~(<<y, x>> \in OpToRel(<, Nat))
  <2> HIDE DEF T
  <2> QED
    BY <1>2, NatLessThanWellFounded, WFMin
<1>4. \A y \in T : ~(y < x)
  <2> TAKE y \in T
  <2>1. x \in Nat /\ y \in Nat
    BY <1>2
  <2> QED
    BY <1>3, <2>1 DEF OpToRel
<1>5. PICK d \in Snapshots : x = MaxTime - d
  OBVIOUS
<1>6. ASSUME NEW o \in Snapshots PROVE o <= d
  <2>1. MaxTime - o \in T
    BY <1>1
  <2>2. ~(MaxTime - o < MaxTime - d)
    BY <1>4, <1>5, <2>1
  <2> QED
    BY <1>1, <2>2
<1> QED
  BY <1>6

LEMMA AbandonedGood ==
  ASSUME NEW a \in BOOLEAN, NEW l \in Loading, \A w \in Loaders : l[w] = Returned, NEW d
  PROVE  /\ LoadGood(a, NoRestore, l, d)
         /\ \A s \in Second : LoadGood(a, [NoRestore EXCEPT !.phase = "manifest", !.from = s], l, d)
<1>1. 0 \in Second
  BY LimitsAssumption DEF Second
<1>2. NoRestore \in Restoring /\ NoRestore.phase = "idle"
  BY <1>1 DEF NoRestore, Restoring
<1>3. ASSUME NEW s \in Second
      PROVE  LoadGood(a, [NoRestore EXCEPT !.phase = "manifest", !.from = s], l, d)
  <2> DEFINE y == [NoRestore EXCEPT !.phase = "manifest", !.from = s]
  <2>1. y \in Restoring /\ y.phase = "manifest" /\ ~y.failed /\ ~y.closed
    BY DEF NoRestore, Restoring
  <2> HIDE DEF y
  <2>2. LoadGood(a, y, l, d)
    BY <2>1 DEF LoadGood
  <2> QED
    BY <2>2 DEF y
<1> QED
  BY <1>2, <1>3 DEF LoadGood

LEMMA ManifestRead ==
  ASSUME NEW a \in BOOLEAN, NEW em, NEW x, NEW l, NEW d,
         LoadGood(a, x, l, d), DirectoryGood(a, em, d), x.phase = "manifest",
         d.manifest # Nothing
  PROVE  LoadGood(a, [x EXCEPT !.phase = "schema", !.manifest = d.manifest], l, d)
<1> DEFINE y == [x EXCEPT !.phase = "schema", !.manifest = d.manifest]
<1>1. /\ x \in Restoring /\ d.manifest \in Manifest /\ ~x.failed /\ ~x.closed
      /\ l \in Loading /\ \A w \in Loaders : l[w] = Returned
  BY DEF LoadGood, DirectoryGood, Directory
<1>2. /\ y \in Restoring /\ y.phase = "schema" /\ y.manifest = d.manifest
      /\ ~y.failed /\ ~y.closed
  BY <1>1 DEF Restoring
<1> HIDE DEF y
<1>3. LoadGood(a, y, l, d)
  BY <1>1, <1>2 DEF LoadGood
<1> QED
  BY <1>3 DEF y

AllIdle == [w \in Loaders |-> Nothing]

LEMMA SchemaRestored ==
  ASSUME NEW a \in BOOLEAN, NEW em, NEW x, NEW l, NEW d,
         LoadGood(a, x, l, d), DirectoryGood(a, em, d), x.phase = "schema",
         d.schema # Nothing
  PROVE  LoadGood(a, [x EXCEPT !.phase = "load", !.schema = d.schema, !.jobs = Pending(x)],
                  AllIdle, d)
<1> DEFINE y == [x EXCEPT !.phase = "load", !.schema = d.schema, !.jobs = Pending(x)]
<1>1. /\ x \in Restoring /\ d.schema \in Instant /\ ~x.failed /\ ~x.closed
      /\ x.manifest # Nothing /\ (a => x.manifest = d.manifest)
      /\ Pending(x) \in SUBSET Tables
  BY DEF LoadGood, DirectoryGood, Directory, Pending
<1>2. /\ y \in Restoring /\ y.phase = "load" /\ y.manifest = x.manifest
      /\ y.schema = d.schema /\ y.jobs = Pending(x) /\ ~y.closed
  BY <1>1 DEF Restoring
<1>3. AllIdle \in Loading /\ \A w \in Loaders : AllIdle[w] # Returned
  BY ConstantsApart DEF AllIdle, Loading
<1> HIDE DEF y
<1>4. Passed(y, AllIdle, d)
  BY <1>2, <1>3 DEF Passed, Pending
<1>5. LoadGood(a, y, AllIdle, d)
  BY <1>1, <1>2, <1>3, <1>4 DEF LoadGood
<1> QED
  BY <1>5 DEF y

\* While it loads: steps that change the flags, the jobs and the workers.
LEMMA LoadingGood ==
  ASSUME NEW a \in BOOLEAN, NEW x, NEW l, NEW d,
         LoadGood(a, x, l, d), x.phase = "load",
         NEW y \in Restoring, NEW m \in Loading,
         y.phase = "load" /\ y.manifest = x.manifest /\ y.schema = x.schema,
         a => Passed(y, m, d)
  PROVE  LoadGood(a, y, m, d)
  BY DEF LoadGood

LEMMA HandedGood ==
  ASSUME NEW a \in BOOLEAN, NEW x, NEW l, NEW d,
         LoadGood(a, x, l, d), x.phase = "load", NEW w \in Loaders,
         l[w] = Nothing, NEW t \in x.jobs
  PROVE  LoadGood(a, [x EXCEPT !.jobs = @ \ {t}], [l EXCEPT ![w] = t], d)
<1> DEFINE y == [x EXCEPT !.jobs = @ \ {t}]
           m == [l EXCEPT ![w] = t]
<1>1. x \in Restoring /\ l \in Loading /\ (a => Passed(x, l, d)) /\ t \in Tables
  BY DEF LoadGood, Restoring
<1>2. /\ y \in Restoring /\ y.phase = "load" /\ y.manifest = x.manifest
      /\ y.schema = x.schema /\ y.rows = x.rows /\ y.jobs = x.jobs \ {t}
      /\ y.closed = x.closed /\ y.stopped = x.stopped /\ y.failed = x.failed
  BY <1>1 DEF Restoring
<1>3. m \in Loading /\ m[w] = t /\ \A v \in Loaders \ {w} : m[v] = l[v]
  BY <1>1 DEF Loading
<1> HIDE DEF y, m
<1>4. ASSUME a PROVE Passed(y, m, d)
  BY <1>1, <1>2, <1>3, <1>4, ConstantsApart DEF Passed, Pending
<1>5. LoadGood(a, y, m, d)
  BY <1>2, <1>3, <1>4, LoadingGood
<1> QED
  BY <1>5 DEF y, m

\* The feeder passes over a table of a cancelled run, or closes the channel; a
\* signal arrives; a worker reports an error.
LEMMA FeederGood ==
  ASSUME NEW a \in BOOLEAN, NEW x, NEW l, NEW d,
         LoadGood(a, x, l, d), NEW y,
         \/ /\ x.phase = "load" /\ (x.stopped \/ x.failed)
            /\ \E t \in x.jobs : y = [x EXCEPT !.jobs = @ \ {t}]
         \/ x.phase = "load" /\ x.jobs = {} /\ y = [x EXCEPT !.closed = TRUE]
         \/ x.phase \notin {"idle", "ready"} /\ y = [x EXCEPT !.stopped = TRUE]
  PROVE  LoadGood(a, y, l, d)
<1>1. x \in Restoring
  BY DEF LoadGood
<1>2. /\ y \in Restoring /\ y.phase = x.phase /\ y.manifest = x.manifest
      /\ y.schema = x.schema /\ y.rows = x.rows /\ y.failed = x.failed
  BY <1>1 DEF Restoring
<1>3. \/ /\ y.stopped = x.stopped /\ y.closed = x.closed /\ x.phase = "load"
         /\ x.stopped \/ x.failed
      \/ /\ y.stopped = x.stopped /\ y.closed /\ y.jobs = x.jobs /\ x.jobs = {}
         /\ x.phase = "load"
      \/ y.stopped /\ y.closed = x.closed /\ x.phase # "ready"
  BY <1>1 DEF Restoring
<1>4. Passed(x, l, d) => Passed(y, l, d)
  BY <1>2, <1>3 DEF Passed, Pending
<1> QED
  BY <1>2, <1>3, <1>4 DEF LoadGood, Pending

LEMMA LoadedGood ==
  ASSUME NEW a \in BOOLEAN, NEW x, NEW l, NEW d,
         LoadGood(a, x, l, d), x.phase = "load", NEW w \in Loaders,
         NEW t \in Tables, l[w] = t, d.data[t] \in Contents
  PROVE  LoadGood(a, [x EXCEPT !.rows[t] = d.data[t]], [l EXCEPT ![w] = Nothing], d)
<1> DEFINE y == [x EXCEPT !.rows[t] = d.data[t]]
           m == [l EXCEPT ![w] = Nothing]
<1>1. x \in Restoring /\ l \in Loading /\ (a => Passed(x, l, d))
  BY DEF LoadGood
<1>2. [x.rows EXCEPT ![t] = d.data[t]] \in [Tables -> Contents \cup {Nothing}]
  BY <1>1 DEF Restoring
<1>3. /\ y \in Restoring /\ y.phase = "load" /\ y.manifest = x.manifest
      /\ y.schema = x.schema /\ y.rows = [x.rows EXCEPT ![t] = d.data[t]]
      /\ y.jobs = x.jobs /\ y.closed = x.closed /\ y.stopped = x.stopped
      /\ y.failed = x.failed
  BY <1>1, <1>2 DEF Restoring
<1>4. m \in Loading /\ m[w] = Nothing /\ \A v \in Loaders \ {w} : m[v] = l[v]
  BY <1>1 DEF Loading
<1>5. y.rows[t] = d.data[t] /\ \A u \in Tables \ {t} : y.rows[u] = x.rows[u]
  BY <1>1, <1>3 DEF Restoring
<1> HIDE DEF y, m
<1>6. ASSUME a PROVE Passed(y, m, d)
  BY <1>1, <1>3, <1>4, <1>5, <1>6, ConstantsApart DEF Passed, Pending
<1>7. LoadGood(a, y, m, d)
  BY <1>3, <1>4, <1>6, LoadingGood
<1> QED
  BY <1>7 DEF y, m

\* A worker returns: after an error, or when the channel is closed.
LEMMA WorkerGood ==
  ASSUME NEW a \in BOOLEAN, NEW x, NEW l, NEW d,
         LoadGood(a, x, l, d), x.phase = "load", NEW w \in Loaders,
         NEW y, \/ y = [x EXCEPT !.failed = TRUE]
                \/ y = x /\ x.closed /\ l[w] = Nothing
  PROVE  LoadGood(a, y, [l EXCEPT ![w] = Returned], d)
<1> DEFINE m == [l EXCEPT ![w] = Returned]
<1>1. x \in Restoring /\ l \in Loading /\ (a => Passed(x, l, d))
  BY DEF LoadGood
<1>2. /\ y \in Restoring /\ y.phase = "load" /\ y.manifest = x.manifest
      /\ y.schema = x.schema
      /\ y.failed \/ (y = x /\ x.closed /\ l[w] = Nothing)
  BY <1>1 DEF Restoring
<1>3. m \in Loading /\ m[w] = Returned /\ \A v \in Loaders \ {w} : m[v] = l[v]
  BY <1>1 DEF Loading
<1> HIDE DEF m
<1>4. ASSUME a PROVE Passed(y, m, d)
  BY <1>1, <1>2, <1>3, <1>4, ConstantsApart DEF Passed, Pending
<1>5. LoadGood(a, y, m, d)
  BY <1>2, <1>3, <1>4, LoadingGood
<1> QED
  BY <1>5 DEF m

\* Load has returned without an error, or what follows it has.
LEMMA PhaseGood ==
  ASSUME NEW a \in BOOLEAN, NEW x, NEW l, NEW d,
         LoadGood(a, x, l, d), NEW y,
         \/ /\ x.phase = "load" /\ y = [x EXCEPT !.phase = "finish"]
            /\ ~x.failed /\ \A w \in Loaders : l[w] = Returned
         \/ x.phase = "finish" /\ ~x.stopped /\ y = [x EXCEPT !.phase = "ready"]
  PROVE  LoadGood(a, y, l, d)
<1>1. x \in Restoring
  BY DEF LoadGood
<1>2. /\ y \in Restoring /\ y.phase \in {"finish", "ready"} /\ y.manifest = x.manifest
      /\ y.schema = x.schema /\ y.rows = x.rows /\ y.stopped = x.stopped
      /\ x.phase \in {"load", "finish"} /\ \A w \in Loaders : l[w] = Returned
  BY <1>1 DEF Restoring, LoadGood
<1>3. ASSUME a, ~x.stopped, NEW t \in Pending(x) PROVE x.rows[t] = d.data[t]
  <2>1. CASE x.phase = "finish"
    BY <1>3, <2>1 DEF LoadGood
  <2>2. CASE x.phase = "load"
    <3>1. PICK w \in Loaders : l[w] = Returned
      BY <1>2, LoadersAssumption
    <3>2. Passed(x, l, d) /\ ~x.failed
      BY <1>3, <2>2 DEF LoadGood
    <3>3. t \notin x.jobs /\ t \in Tables
      BY <1>3, <3>1, <3>2 DEF Passed, Pending
    <3> QED
      BY <1>2, <1>3, <3>2, <3>3, ConstantsApart DEF Passed
  <2> QED
    BY <1>2, <2>1, <2>2
<1>4. Pending(y) = Pending(x) /\ (y.phase = "ready" => ~x.stopped)
  BY <1>1, <1>2 DEF Pending, Restoring
<1> QED
  BY <1>2, <1>3, <1>4 DEF LoadGood

-----------------------------------------------------------------------------
(***************************************************************************)
(* The steps of the restores.                                              *)
(***************************************************************************)

From(r) == bucket[restore[r].from]
Unshared(r) == Sole(starts, restore[r].from)

LoadInv ==
  /\ restore \in [Restores -> Restoring] /\ loader \in [Restores -> Loading]
  /\ \A r \in Restores : LoadGood(Unshared(r), restore[r], loader[r], From(r))

LoadMoves(r, y, m) ==
  /\ restore' = [restore EXCEPT ![r] = y] /\ loader' = [loader EXCEPT ![r] = m]
  /\ LoadGood(Sole(starts, y.from), y, m, bucket[y.from])
  /\ UNCHANGED bucket
LoadMovesOn(r) == \E y, m : LoadMoves(r, y, m)

LEMMA LoadFacts ==
  ASSUME ExportInv, LoadInv, NEW r \in Restores
  PROVE  /\ restore[r] \in Restoring /\ loader[r] \in Loading
         /\ LoadGood(Unshared(r), restore[r], loader[r], From(r)) /\ DirectoryGood(Unshared(r), emptied, From(r))
         /\ loader = [loader EXCEPT ![r] = loader[r]]
         /\ restore = [restore EXCEPT ![r] = restore[r]]
         /\ restore[r].from \in Second /\ Unshared(r) \in BOOLEAN
  BY OwnTypes DEF LoadInv, ExportInv, Restoring, From, Unshared

\* An idle restore, and one that has only picked its snapshot, can be anywhere.
LEMMA AbandonedAnywhere ==
  ASSUME NEW l \in Loading, \A w \in Loaders : l[w] = Returned, NEW q, NEW d
  PROVE  /\ LoadGood(Sole(starts, q), NoRestore, l, d)
         /\ \A s \in Second :
              LoadGood(Sole(starts, q), [NoRestore EXCEPT !.phase = "manifest", !.from = s], l, d)
<1> DEFINE a == Sole(starts, q)
<1>1. a \in BOOLEAN
  BY OwnTypes
<1> HIDE DEF a
<1>2. /\ LoadGood(a, NoRestore, l, d)
      /\ \A s \in Second : LoadGood(a, [NoRestore EXCEPT !.phase = "manifest", !.from = s], l, d)
  BY <1>1, AbandonedGood
<1> QED
  BY <1>2 DEF a

LEMMA AbandonMoves ==
  ASSUME ExportInv, LoadInv, NEW r \in Restores, Abandon(r), restore[r].phase # "load",
         UNCHANGED bucket
  PROVE  LoadMovesOn(r)
<1>1. \A w \in Loaders : loader[r][w] = Returned
  BY LoadFacts DEF LoadGood
<1>2. LoadMoves(r, NoRestore, loader[r])
  BY <1>1, LoadFacts, AbandonedAnywhere DEF Abandon, LoadMoves
<1> QED
  BY <1>2 DEF LoadMovesOn

LEMMA PhaseMoves ==
  ASSUME ExportInv, LoadInv, NEW r \in Restores,
         ReadManifest(r) \/ RestoreSchema(r) \/ Finish(r) \/ Serve(r)
  PROVE  LoadMovesOn(r)
<1> DEFINE x == restore[r]
<1>1. UNCHANGED bucket /\ x.phase # "load"
  BY DEF ReadManifest, RestoreSchema, Finish, Serve
<1>2. CASE ReadManifest(r)
  <2> DEFINE y == [x EXCEPT !.phase = "schema", !.manifest = From(r).manifest]
  <2>1. \/ Abandon(r)
        \/ /\ x.phase = "manifest" /\ From(r).manifest # Nothing
           /\ restore' = [restore EXCEPT ![r] = y] /\ UNCHANGED loader
    BY <1>2, LoadFacts DEF ReadManifest, Attempt, From, LoadInv
  <2>2. CASE Abandon(r)
    BY <1>1, <2>2, AbandonMoves
  <2>3. CASE ~Abandon(r)
    <3>1. LoadGood(Unshared(r), y, loader[r], From(r)) /\ y.from = x.from
      BY <2>1, <2>3, LoadFacts, ManifestRead DEF Restoring
    <3> HIDE DEF y
    <3>2. LoadMoves(r, y, loader[r])
      BY <1>1, <2>1, <2>3, <3>1, LoadFacts DEF LoadMoves, From, Unshared
    <3> QED
      BY <3>2 DEF LoadMovesOn
  <2> QED
    BY <2>2, <2>3
<1>3. CASE RestoreSchema(r)
  <2> DEFINE y == [x EXCEPT !.phase = "load", !.schema = From(r).schema, !.jobs = Pending(x)]
  <2>1. \/ Abandon(r)
        \/ /\ x.phase = "schema" /\ From(r).schema # Nothing
           /\ restore' = [restore EXCEPT ![r] = y]
           /\ loader' = [loader EXCEPT ![r] = AllIdle]
    BY <1>3, LoadFacts DEF RestoreSchema, Attempt, From, Pending, AllIdle
  <2>2. CASE Abandon(r)
    BY <1>1, <2>2, AbandonMoves
  <2>3. CASE ~Abandon(r)
    <3>1. LoadGood(Unshared(r), y, AllIdle, From(r)) /\ y.from = x.from
      BY <2>1, <2>3, LoadFacts, SchemaRestored DEF Restoring
    <3> HIDE DEF y
    <3>2. LoadMoves(r, y, AllIdle)
      BY <1>1, <2>1, <2>3, <3>1 DEF LoadMoves, From, Unshared
    <3> QED
      BY <3>2 DEF LoadMovesOn
  <2> QED
    BY <2>2, <2>3
<1>4. CASE Finish(r) \/ Serve(r)
  <2> DEFINE y == [x EXCEPT !.phase = "ready"]
  <2>1. \/ Abandon(r)
        \/ /\ x.phase = "finish" /\ ~x.stopped
           /\ restore' = [restore EXCEPT ![r] = y] /\ UNCHANGED loader
    BY <1>4, LoadFacts DEF Finish, Serve, Attempt
  <2>2. CASE Abandon(r)
    BY <1>1, <2>2, AbandonMoves
  <2>3. CASE ~Abandon(r)
    <3>1. LoadGood(Unshared(r), y, loader[r], From(r)) /\ y.from = x.from
      BY <2>1, <2>3, LoadFacts, PhaseGood DEF Restoring
    <3> HIDE DEF y
    <3>2. LoadMoves(r, y, loader[r])
      BY <1>1, <2>1, <2>3, <3>1, LoadFacts DEF LoadMoves, From, Unshared
    <3> QED
      BY <3>2 DEF LoadMovesOn
  <2> QED
    BY <2>2, <2>3
<1> QED
  BY <1>2, <1>3, <1>4

LEMMA FeederMoves ==
  ASSUME ExportInv, LoadInv, NEW r \in Restores,
         PassOver(r) \/ CloseJobs(r) \/ LoadReturns(r) \/ StopRestore(r)
  PROVE  LoadMovesOn(r)
<1> DEFINE x == restore[r]
<1>1. UNCHANGED bucket
  BY DEF PassOver, CloseJobs, LoadReturns, StopRestore
<1>2. CASE LoadReturns(r) /\ x.failed
  <2>1. \A w \in Loaders : loader[r][w] = Returned
    BY <1>2 DEF LoadReturns
  <2>2. LoadMoves(r, NoRestore, loader[r])
    BY <1>1, <1>2, <2>1, LoadFacts, AbandonedAnywhere DEF LoadReturns, Abandon, LoadMoves
  <2> QED
    BY <2>2 DEF LoadMovesOn
<1>3. ASSUME ~(LoadReturns(r) /\ x.failed)
      PROVE  \E y : /\ restore' = [restore EXCEPT ![r] = y] /\ UNCHANGED loader
                    /\ LoadGood(Unshared(r), y, loader[r], From(r)) /\ y.from = x.from
  <2>1. CASE PassOver(r)
    <3>1. PICK t \in x.jobs : restore' = [restore EXCEPT ![r] = [x EXCEPT !.jobs = @ \ {t}]]
      BY <2>1, LoadFacts DEF PassOver, LoadInv
    <3>2. /\ LoadGood(Unshared(r), [x EXCEPT !.jobs = @ \ {t}], loader[r], From(r))
          /\ [x EXCEPT !.jobs = @ \ {t}].from = x.from
      BY <2>1, LoadFacts, FeederGood DEF PassOver, Cancelled, Restoring
    <3> QED
      BY <2>1, <3>1, <3>2 DEF PassOver
  <2>2. CASE CloseJobs(r)
    <3>1. /\ LoadGood(Unshared(r), [x EXCEPT !.closed = TRUE], loader[r], From(r))
          /\ [x EXCEPT !.closed = TRUE].from = x.from
      BY <2>2, LoadFacts, FeederGood DEF CloseJobs, Restoring
    <3> QED
      BY <2>2, <3>1, LoadFacts DEF CloseJobs, LoadInv
  <2>3. CASE StopRestore(r)
    <3>1. /\ LoadGood(Unshared(r), [x EXCEPT !.stopped = TRUE], loader[r], From(r))
          /\ [x EXCEPT !.stopped = TRUE].from = x.from
      BY <2>3, LoadFacts, FeederGood DEF StopRestore, Restoring
    <3> QED
      BY <2>3, <3>1, LoadFacts DEF StopRestore, LoadInv
  <2>4. CASE LoadReturns(r) /\ ~x.failed
    <3>1. /\ LoadGood(Unshared(r), [x EXCEPT !.phase = "finish"], loader[r], From(r))
          /\ [x EXCEPT !.phase = "finish"].from = x.from
      BY <2>4, LoadFacts, PhaseGood DEF LoadReturns, Restoring
    <3> QED
      BY <2>4, <3>1, LoadFacts DEF LoadReturns, LoadInv
  <2> QED
    BY <1>3, <2>1, <2>2, <2>3, <2>4
<1>4. CASE ~(LoadReturns(r) /\ x.failed)
  <2>1. PICK y : /\ restore' = [restore EXCEPT ![r] = y] /\ UNCHANGED loader
                 /\ LoadGood(Unshared(r), y, loader[r], From(r)) /\ y.from = x.from
    BY <1>3, <1>4
  <2>2. LoadMoves(r, y, loader[r])
    BY <1>1, <2>1, LoadFacts DEF LoadMoves, From, Unshared
  <2> QED
    BY <2>2 DEF LoadMovesOn
<1> QED
  BY <1>2, <1>4

LEMMA LoaderMoves ==
  ASSUME ExportInv, LoadInv, NEW r \in Restores, NEW w \in Loaders,
         Hand(r, w) \/ LoadOne(r, w) \/ LoaderReturns(r, w)
  PROVE  LoadMovesOn(r)
<1> DEFINE x == restore[r]
           l == loader[r]
           given(v) == [l EXCEPT ![w] = v]
<1>1. UNCHANGED bucket
  BY DEF Hand, LoadOne, LoaderReturns
<1>2. x.phase = "load"
  <2>1. l[w] # Returned
    BY ConstantsApart DEF Hand, LoadOne, LoaderReturns
  <2> QED
    BY <2>1, LoadFacts DEF LoadGood
<1>3. \A v : [loader EXCEPT ![r][w] = v] = [loader EXCEPT ![r] = given(v)]
  BY DEF LoadInv
<1>4. \E y, v : /\ restore' = [restore EXCEPT ![r] = y]
                /\ loader' = [loader EXCEPT ![r] = given(v)]
                /\ LoadGood(Unshared(r), y, given(v), From(r)) /\ y.from = x.from
  <2>1. CASE Hand(r, w)
    <3>1. PICK t \in x.jobs :
            /\ restore' = [restore EXCEPT ![r] = [x EXCEPT !.jobs = @ \ {t}]]
            /\ loader' = [loader EXCEPT ![r] = given(t)]
      BY <2>1, <1>3, LoadFacts DEF Hand, LoadInv
    <3>2. /\ LoadGood(Unshared(r), [x EXCEPT !.jobs = @ \ {t}], given(t), From(r))
          /\ [x EXCEPT !.jobs = @ \ {t}].from = x.from
      BY <1>2, <2>1, LoadFacts, HandedGood DEF Hand, Restoring
    <3> QED
      BY <3>1, <3>2
  <2>2. CASE LoaderReturns(r, w)
    <3>1. LoadGood(Unshared(r), x, given(Returned), From(r))
      BY <1>2, <2>2, LoadFacts, WorkerGood DEF LoaderReturns
    <3>2. /\ restore' = [restore EXCEPT ![r] = x]
          /\ loader' = [loader EXCEPT ![r] = given(Returned)]
      BY <1>3, <2>2, LoadFacts DEF LoaderReturns
    <3> QED
      BY <3>1, <3>2
  <2>3. ASSUME LoadOne(r, w), restore' = [restore EXCEPT ![r].failed = TRUE],
               loader' = [loader EXCEPT ![r][w] = Returned]
        PROVE  <1>4
    <3>1. /\ LoadGood(Unshared(r), [x EXCEPT !.failed = TRUE], given(Returned), From(r))
          /\ [x EXCEPT !.failed = TRUE].from = x.from
      BY <1>2, LoadFacts, WorkerGood DEF Restoring
    <3>2. /\ restore' = [restore EXCEPT ![r] = [x EXCEPT !.failed = TRUE]]
          /\ loader' = [loader EXCEPT ![r] = given(Returned)]
      BY <1>3, <2>3 DEF LoadInv
    <3> QED
      BY <3>1, <3>2
  <2>4. ASSUME l[w] \in Tables, From(r).data[l[w]] \in Contents,
               restore' = [restore EXCEPT ![r].rows[l[w]] = From(r).data[l[w]]],
               loader' = [loader EXCEPT ![r][w] = Nothing]
        PROVE  <1>4
    <3> DEFINE y == [x EXCEPT !.rows[l[w]] = From(r).data[l[w]]]
    <3>1. LoadGood(Unshared(r), y, given(Nothing), From(r)) /\ y.from = x.from
      BY <1>2, <2>4, LoadFacts, LoadedGood DEF Restoring
    <3>2. /\ restore' = [restore EXCEPT ![r] = y]
          /\ loader' = [loader EXCEPT ![r] = given(Nothing)]
      BY <1>3, <2>4 DEF LoadInv
    <3> QED
      BY <3>1, <3>2
  <2>5. CASE LoadOne(r, w)
    <3>1. \/ /\ restore' = [restore EXCEPT ![r].failed = TRUE]
             /\ loader' = [loader EXCEPT ![r][w] = Returned]
          \/ /\ l[w] \in Tables /\ From(r).data[l[w]] \in Contents
             /\ restore' = [restore EXCEPT ![r].rows[l[w]] = From(r).data[l[w]]]
             /\ loader' = [loader EXCEPT ![r][w] = Nothing]
      BY <2>5 DEF LoadOne, From
    <3> QED
      BY <2>3, <2>4, <2>5, <3>1
  <2> QED
    BY <2>1, <2>2, <2>5
<1>5. PICK y, v : /\ restore' = [restore EXCEPT ![r] = y]
                  /\ loader' = [loader EXCEPT ![r] = given(v)]
                  /\ LoadGood(Unshared(r), y, given(v), From(r)) /\ y.from = x.from
  BY <1>4
<1>6. LoadMoves(r, y, given(v))
  BY <1>1, <1>5 DEF LoadMoves, From, Unshared
<1> QED
  BY <1>6 DEF LoadMovesOn

LEMMA LoadNextKeeps ==
  ASSUME ExportInv, LoadInv, NEW r \in Restores,
         PickSnapshot(r) \/ LoadStep(r) \/ StopRestore(r),
         UNCHANGED <<world, export, copier>>
  PROVE  ExportInv' /\ LoadInv'
<1>1. LoadMovesOn(r)
  <2>1. CASE PickSnapshot(r)
    <3>1. PICK d \in Second : restore' = [restore EXCEPT ![r] =
                                [NoRestore EXCEPT !.phase = "manifest", !.from = d]]
      BY <2>1, LatestType DEF PickSnapshot
    <3> DEFINE y == [NoRestore EXCEPT !.phase = "manifest", !.from = d]
    <3>2. \A w \in Loaders : loader[r][w] = Returned
      BY <2>1, LoadFacts DEF PickSnapshot, LoadGood
    <3>3. LoadGood(Sole(starts, y.from), y, loader[r], bucket[y.from])
      BY <3>2, LoadFacts, AbandonedAnywhere
    <3>4. LoadMoves(r, y, loader[r])
      <4> HIDE DEF y
      <4> QED
        BY <2>1, <3>1, <3>3, LoadFacts DEF LoadMoves, PickSnapshot, y
    <3> QED
      BY <3>4 DEF LoadMovesOn
  <2>2. CASE LoadStep(r) \/ StopRestore(r)
    BY <2>2, PhaseMoves, FeederMoves, LoaderMoves DEF LoadStep
  <2> QED
    BY <2>1, <2>2
<1>2. PICK y, m : LoadMoves(r, y, m)
  BY <1>1 DEF LoadMovesOn
<1>3. LoadInv'
  <2>1. y \in Restoring /\ m \in Loading
    BY <1>2 DEF LoadMoves, LoadGood
  <2> QED
    BY <1>2, <2>1 DEF LoadMoves, LoadInv, From, Unshared, world
<1>4. UNCHANGED faults \/ Fault
  <2>1. CASE ReadManifest(r) \/ RestoreSchema(r) \/ Finish(r)
    BY <2>1 DEF ReadManifest, RestoreSchema, Finish, Attempt
  <2>2. CASE \/ PickSnapshot(r) \/ PassOver(r) \/ CloseJobs(r) \/ LoadReturns(r)
             \/ Serve(r) \/ StopRestore(r)
    BY <2>2 DEF PickSnapshot, PassOver, CloseJobs, LoadReturns, Serve, StopRestore
  <2>3. ASSUME NEW w \in Loaders, Hand(r, w) \/ LoadOne(r, w) \/ LoaderReturns(r, w)
        PROVE  UNCHANGED faults \/ Fault
    BY <2>3 DEF Hand, LoadOne, LoaderReturns
  <2> QED
    BY <2>1, <2>2, <2>3 DEF LoadStep
<1>5. faults' \in 0 .. MaxFaults
  BY <1>4, LimitsAssumption DEF ExportInv, WorldOK, Fault
<1>6. UNCHANGED bucket
  BY <1>2 DEF LoadMoves
<1> QED
  BY <1>3, <1>5, <1>6 DEF ExportInv, WorldOK, world, Separate, Counted, Own, Of

\* A restore that has read a manifest reads a directory that does not change.
LEMMA RestoresKept ==
  ASSUME ExportInv, LoadInv, ExportInv', DirectoriesKept, UNCHANGED <<restore, loader>>
  PROVE  LoadInv'
<1> SUFFICES ASSUME NEW r \in Restores
             PROVE  LoadGood(Sole(starts', restore[r].from), restore[r], loader[r], From(r)')
  BY DEF LoadInv, From, Unshared
<1>1. /\ LoadGood(Unshared(r), restore[r], loader[r], From(r)) /\ restore[r].from \in Second
      /\ restore[r] \in Restoring /\ (Sole(starts', restore[r].from) => Unshared(r))
  BY LoadFacts DEF DirectoriesKept, Unshared
<1>2. CASE Unshared(r) /\ restore[r].phase \notin {"idle", "manifest"}
  <2>1. From(r).manifest # Nothing
    BY <1>1, <1>2 DEF LoadGood
  <2>2. From(r)' = From(r)
    BY <1>1, <1>2, <2>1 DEF DirectoriesKept, From, Unshared
  <2> QED
    BY <1>1, <2>2 DEF LoadGood
<1>3. CASE ~(Unshared(r) /\ restore[r].phase \notin {"idle", "manifest"})
  BY <1>1, <1>3 DEF LoadGood
<1> QED
  BY <1>2, <1>3

LEMMA TransferStep == ExportInv /\ LoadInv /\ [Next]_vars => ExportInv' /\ LoadInv'
<1> SUFFICES ASSUME ExportInv, LoadInv, [Next]_vars PROVE ExportInv' /\ LoadInv'
  OBVIOUS
<1>1. CASE ExportNext /\ UNCHANGED <<restore, loader>>
  BY <1>1, ExportNextKeeps, RestoresKept
<1>2. CASE LoadNext /\ UNCHANGED <<world, export, copier>>
  BY <1>2, LoadNextKeeps DEF LoadNext
<1>3. CASE UNCHANGED vars
  BY <1>3 DEF vars, world, ExportInv, WorldOK, LoadInv, Separate, Counted, Own, Of, From,
              Unshared
<1> QED
  BY <1>1, <1>2, <1>3 DEF Next

LEMMA LoadInvInit == Init => LoadInv
<1> SUFFICES ASSUME Init PROVE LoadInv
  OBVIOUS
<1> DEFINE l == [w \in Loaders |-> Returned]
<1>1. restore = [r \in Restores |-> NoRestore] /\ loader = [r \in Restores |-> l]
  BY DEF Init, LoadInit
<1>2. l \in Loading /\ \A w \in Loaders : l[w] = Returned
  BY DEF Loading
<1> HIDE DEF l
<1>3. \A a \in BOOLEAN : \A d : LoadGood(a, NoRestore, l, d)
  BY <1>2, AbandonedGood
<1>4. NoRestore \in Restoring
  BY <1>3 DEF LoadGood
<1> QED
  BY <1>1, <1>2, <1>3, <1>4, OwnTypes DEF LoadInv, Unshared

LEMMA TransferInv == Spec => [](ExportInv /\ LoadInv)
<1>1. Init => ExportInv /\ LoadInv
  BY ExportInvInit, LoadInvInit
<1> QED
  BY <1>1, TransferStep, PTL DEF Spec

-----------------------------------------------------------------------------
(***************************************************************************)
(* The theorems                                                            *)
(***************************************************************************)

\* Every variable of snapshots and restores has its type, also where two
\* snapshots share a directory (export/run.go, restore/loader.go).
THEOREM TransferTypes == Spec => []TypeOK
<1>1. ExportInv /\ LoadInv => TypeOK
  BY DEF ExportInv, WorldOK, LoadInv, TypeOK, ExportTypeOK, LoadTypeOK, Exporting, Copying,
     Restoring, Loading
<1> QED
  BY <1>1, TransferInv, PTL

\* A directory that only one snapshot has written to and that has a manifest is
\* a whole snapshot, whatever fails and wherever the run is stopped: the manifest
\* is the last object, and a copy that a signal cuts short never gets one.
THEOREM SnapshotsAreWhole == Spec => []PublishedWhole
<1>1. ASSUME ExportInv PROVE PublishedWhole
  <2> SUFFICES ASSUME NEW d \in Second, Alone(d), bucket[d].manifest # Nothing
               PROVE  /\ bucket[d].schema # Nothing
                      /\ \A t \in Tables :
                           /\ bucket[d].manifest[t] # Nothing
                           /\ t \notin Skipped => bucket[d].data[t] = bucket[d].manifest[t]
    BY DEF PublishedWhole
  <2>1. Whole(bucket[d])
    BY <1>1, OwnTypes DEF ExportInv, DirectoryGood
  <2> QED
    BY <2>1 DEF Whole
<1> QED
  BY <1>1, TransferInv, PTL

\* In such a directory all rows are of the instant of its schema, however many
\* workers copy, whatever the source commits meanwhile, and whichever snapshots
\* write to other directories; only a table emptied or rewritten later may have
\* none.  The positions of the sequences are never behind the rows.
THEOREM SnapshotsAreOfOneInstant == Spec => []OneInstant
<1>1. ASSUME ExportInv PROVE OneInstant
  <2> SUFFICES ASSUME NEW d \in Second, Alone(d)
               PROVE  /\ \A t \in Tables : LET rows == bucket[d].data[t] IN
                           /\ rows \in Instant => rows = bucket[d].schema
                           /\ rows = Emptied => bucket[d].schema \in 0 .. emptied[t] - 1
                      /\ bucket[d].manifest # Nothing =>
                           bucket[d].positions \in Instant
                           /\ bucket[d].schema <= bucket[d].positions
    BY DEF OneInstant
  <2>1. Coherent(emptied, bucket[d])
    BY <1>1, OwnTypes DEF ExportInv, DirectoryGood
  <2>2. \A t \in Tables : MayBe(emptied, bucket[d].schema, t, bucket[d].data[t])
    BY <2>1 DEF Coherent
  <2>3. \A t \in Tables : emptied[t] \in Int
    BY <1>1 DEF ExportInv, WorldOK, Instant
  <2>4. \A t \in Tables : bucket[d].schema \in Instant /\ bucket[d].schema < emptied[t] =>
          bucket[d].schema \in 0 .. emptied[t] - 1
    BY <2>3, LimitsAssumption DEF Instant
  <2> QED
    BY <2>1, <2>2, <2>4 DEF Coherent, MayBe
<1> QED
  BY <1>1, TransferInv, PTL

\* What a restore puts in service from such a directory has the rows of every
\* table that its snapshot exported, of the instant of the schema but for the
\* tables emptied later, although it reads a bucket that snapshots write to.
THEOREM LoadsAreWhole == Spec => []LoadedWhole
<1>1. ASSUME ExportInv, LoadInv PROVE LoadedWhole
  <2> SUFFICES ASSUME NEW r \in Restores, restore[r].phase = "ready", Alone(restore[r].from),
                      NEW t \in Tables \ (Skipped \cup Owned)
               PROVE  \/ restore[r].rows[t] = restore[r].schema
                      \/ restore[r].rows[t] = Emptied /\ emptied[t] > restore[r].schema
    BY DEF LoadedWhole
  <2> DEFINE x == restore[r]
             d == From(r)
  <2>0. Unshared(r)
    BY OwnTypes DEF Unshared
  <2>1. /\ x.manifest = d.manifest /\ d.manifest # Nothing /\ x.schema = d.schema
        /\ \A u \in Pending(x) : x.rows[u] = d.data[u]
        /\ d \in Directory /\ Whole(d) /\ Coherent(emptied, d)
    BY <1>1, <2>0, LoadFacts DEF LoadGood, DirectoryGood
  <2>2. d.manifest[t] # Nothing /\ d.data[t] = d.manifest[t]
    <3>1. Whole(d) /\ d.manifest # Nothing /\ t \in Tables /\ t \notin Skipped
      BY <2>1
    <3> HIDE DEF d
    <3> QED
      BY <3>1 DEF Whole
  <2>3. d.manifest[t] \in Contents
    BY <2>1, <2>2, ConstantsApart DEF Directory, Manifest, Entry
  <2>4. t \in Pending(x)
    BY <2>1, <2>3 DEF Pending
  <2>5. x.rows[t] = d.data[t] /\ d.data[t] \in Contents /\ MayBe(emptied, d.schema, t, d.data[t])
    BY <2>1, <2>2, <2>3, <2>4 DEF Coherent
  <2>6. emptied[t] \in Instant
    BY <1>1 DEF ExportInv, WorldOK
  <2> HIDE DEF x, d
  <2>7. x.rows[t] = x.schema \/ (x.rows[t] = Emptied /\ emptied[t] > x.schema)
    BY <2>1, <2>5, <2>6, LimitsAssumption DEF MayBe, Contents, Instant
  <2> QED
    BY <2>7 DEF x
<1> QED
  BY <1>1, TransferInv, PTL
=============================================================================
