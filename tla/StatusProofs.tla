---------------------------- MODULE StatusProofs ----------------------------
(***************************************************************************)
(* Proofs about the progress of a call: for every operation, any numbers   *)
(* of resources and files, every verbosity level and any failures.         *)
(***************************************************************************)
EXTENDS StatusSettings, SequenceLemmas, SequenceTheorems, FiniteSetTheorems
---------------------------------------------------------------------------
(* The job tables: what holds of the steps of every job, whatever the      *)
(* numbers of resources and files.                                         *)

\* The jobs, and how deep the jobs nested in them can be.
Leaves ==
  {"lines", "resources", "files", "union", "removals", "common", "added",
   "removed", "changes", "patches", "patchList", "chunkList", "removing",
   "rebuilding"}

Branches ==
  {"yaml", "importChanges", "csv", "export", "exportChanges",
   "exportPatches", "exportChunks", "exportCsv", "diff",
   "CreateFromDirectory", "Merge", "RemoveResources"}

Stems ==
  {"ImportFromFile", "ImportFromCsvFile", "ExportToFile", "ExportToCsvFile",
   "group", "DiffChangesAsLists", "CreatePatch", "Apply", "CreateBundle"}

Jobs == Leaves \cup Branches \cup Stems \cup {"Unpack"}

Height(job) ==
  IF job \in Leaves THEN 1
  ELSE IF job \in Branches THEN 2
  ELSE IF job \in Stems THEN 3
  ELSE 4

Percentages == Int \cup {NotFinite}

StepRecords ==
  {r \in [type : {"UNBOUNDED", "PERCENTAGE", "WARNING"}, progress : Percentages,
          size : Percentages, nested : Jobs \cup {NoJob}, guarded : BOOLEAN, up : {0, 1}] :
     r.type = "WARNING" => r.progress = 0 /\ r.size = 0}

\* The jobs that only some operations have.
Belongs(nested, job) ==
  /\ nested = "removed" => job = "diff"
  /\ nested = "diff" => job \in {"CreatePatch", "DiffChangesAsLists"}
  /\ nested = "files" => job = "CreateFromDirectory"
  /\ nested \notin {"CreatePatch", "DiffChangesAsLists", "CreateFromDirectory"}

\* One job may be nested in the other.
Fits(nested, job) ==
  /\ nested \in Jobs
  /\ Height(nested) < Height(job)
  /\ Belongs(nested, job)

PartEndsAt(s, k) == s[k].progress + s[k].size

NestedOK(job, s, k) ==
  /\ s[k].type = "PERCENTAGE"
  /\ Fits(s[k].nested, job)
  /\ s[k].progress \in Nat
  /\ s[k].size \in Nat
  /\ PartEndsAt(s, k) <= 100
  /\ k = Len(s) => PartEndsAt(s, k) = 100
  /\ k < Len(s) => /\ s[k + 1].type # "WARNING"
                   /\ s[k + 1].progress = PartEndsAt(s, k)

\* No step goes back behind an earlier one, nor behind the end of its part.
Ordered(s) ==
  \A k \in 1..Len(s), l \in 1..Len(s) :
    k < l /\ s[k].type # "WARNING" /\ s[l].type # "WARNING" =>
      /\ s[k].progress <= s[l].progress
      /\ s[k].nested # NoJob => PartEndsAt(s, k) <= s[l].progress

Within(s) == \A k \in 1..Len(s) : s[k].progress \in 0..100

ManyRemoved(job, counts) == job = "removed" /\ counts.removed > counts.latest

Streams(job, counts) ==
  job = "files" /\ \E i \in DOMAIN counts.files : counts.files[i]

\* What every line of the table satisfies.
JobOK(job, s, counts) ==
  /\ s \in Seq(StepRecords)
  /\ \A k \in 1..Len(s) : s[k].up = 1 => job = "removing"
  /\ \A k \in 1..Len(s) : s[k].nested # NoJob => NestedOK(job, s, k)
  /\ ~ ManyRemoved(job, counts) => Within(s)
  /\ ~ ManyRemoved(job, counts) /\ ~ Streams(job, counts) => Ordered(s)
---------------------------------------------------------------------------
LEMMA UpdateFields ==
  ASSUME NEW type, NEW p, NEW z
  PROVE  LET u == Update(type, p, z)
         IN  /\ u.type = type /\ u.progress = p /\ u.size = z
             /\ u.nested = NoJob /\ u.up = 0
  BY DEF Update

LEMMA PartFields ==
  ASSUME NEW p \in Int, NEW z \in Int
  PROVE  /\ Part(p, z) \in StepRecords
         /\ Part(p, z).type = "PERCENTAGE" /\ Part(p, z).nested = NoJob
         /\ Part(p, z).progress = p /\ Part(p, z).size = z /\ Part(p, z).up = 0
  BY DEF Part, Update, StepRecords, Percentages

LEMMA NestedFields ==
  ASSUME NEW p \in Int, NEW z \in Int, NEW job \in Jobs
  PROVE  /\ Nested(p, z, job) \in StepRecords
         /\ Nested(p, z, job).type = "PERCENTAGE" /\ Nested(p, z, job).nested = job
         /\ Nested(p, z, job).progress = p /\ Nested(p, z, job).size = z
         /\ Nested(p, z, job).up = 0
  <1>1. Part(p, z) \in StepRecords
    BY PartFields
  <1>2. Nested(p, z, job) \in StepRecords
    <2> HIDE DEF Jobs
    <2> QED
      BY <1>1 DEF Nested, StepRecords
  <1> QED
    BY <1>2 DEF Nested, Part, Update

\* Step k is about the part of a job from p to q.
Covers(job, step, p, q) ==
  /\ step \in StepRecords
  /\ step.type = "PERCENTAGE"
  /\ step.progress = p
  /\ step.size = q - p
  /\ step.up = 0
  /\ step.nested # NoJob => Fits(step.nested, job)

LEMMA PartCovers ==
  ASSUME NEW job, NEW p \in Int, NEW q \in Int, NEW z \in Int, z = q - p
  PROVE  Covers(job, Part(p, z), p, q)
  BY PartFields DEF Covers

LEMMA NestedCovers ==
  ASSUME NEW job, NEW p \in Int, NEW q \in Int, NEW z \in Int, z = q - p,
         NEW inner, Fits(inner, job)
  PROVE  Covers(job, Nested(p, z, inner), p, q)
  BY NestedFields DEF Covers, Fits

\* The ends of n parts that lie one after the other: 0 is where the first
\* begins, and the last one ends at 100.
Cuts(cut, n) ==
  /\ \A i \in 1..(n + 1) : cut[i] \in 0..100
  /\ \A i \in 1..(n + 1), j \in 1..(n + 1) : i <= j => cut[i] <= cut[j]
  /\ cut[n + 1] = 100

LEMMA CutFacts ==
  ASSUME NEW n \in Nat, NEW cut, Cuts(cut, n), NEW k \in 1..n
  PROVE  /\ cut[k] \in 0..100 /\ cut[k + 1] \in 0..100
         /\ cut[k] \in Nat /\ cut[k + 1] - cut[k] \in Nat
         /\ cut[k] + (cut[k + 1] - cut[k]) = cut[k + 1]
         /\ cut[k + 1] <= 100
         /\ k = n => cut[k + 1] = 100
         /\ \A l \in 1..n : k < l => cut[k] <= cut[l] /\ cut[k + 1] <= cut[l]
  <1>1. k \in 1..(n + 1) /\ k + 1 \in 1..(n + 1) /\ k <= k + 1
    OBVIOUS
  <1>2. cut[k] \in 0..100 /\ cut[k + 1] \in 0..100 /\ cut[k] <= cut[k + 1]
    BY <1>1 DEF Cuts
  <1>3. \A p \in 0..100, q \in 0..100 : p <= q =>
          p \in Nat /\ q - p \in Nat /\ p + (q - p) = q /\ q <= 100
    OBVIOUS
  <1>4. cut[k] \in Nat /\ cut[k + 1] - cut[k] \in Nat
        /\ cut[k] + (cut[k + 1] - cut[k]) = cut[k + 1] /\ cut[k + 1] <= 100
    BY <1>2, <1>3
  <1>5. ASSUME NEW l \in 1..n, k < l PROVE cut[k] <= cut[l] /\ cut[k + 1] <= cut[l]
    <2>1. l \in 1..(n + 1) /\ k <= l /\ k + 1 <= l
      BY <1>5
    <2> QED
      BY <1>1, <2>1 DEF Cuts
  <1>6. k = n => cut[k + 1] = 100
    BY DEF Cuts
  <1> QED
    BY <1>2, <1>4, <1>5, <1>6

\* A job whose parts lie one after the other, up to its end.
LEMMA ChainOK ==
  ASSUME NEW job, NEW n \in Nat, NEW cut, Cuts(cut, n),
         NEW s, s \in Seq(StepRecords), Len(s) = n,
         \A k \in 1..n : Covers(job, s[k], cut[k], cut[k + 1]),
         NEW counts
  PROVE  JobOK(job, s, counts)
  <1>0. \A k \in 1..n : cut[k] \in Nat /\ cut[k + 1] - cut[k] \in Nat /\ cut[k + 1] <= 100
    BY CutFacts
  <1>1. ASSUME NEW k \in 1..n
        PROVE  /\ s[k].progress = cut[k] /\ s[k].size = cut[k + 1] - cut[k]
               /\ s[k].type = "PERCENTAGE" /\ s[k].up = 0
               /\ PartEndsAt(s, k) = cut[k + 1]
    <2>1. /\ s[k].progress = cut[k] /\ s[k].size = cut[k + 1] - cut[k]
          /\ s[k].type = "PERCENTAGE" /\ s[k].up = 0
      BY DEF Covers
    <2>2. cut[k] + (cut[k + 1] - cut[k]) = cut[k + 1]
      BY CutFacts
    <2> QED
      BY <2>1, <2>2 DEF PartEndsAt
  <1>2. Within(s)
    <2>1. \A k \in 1..n : s[k].progress = cut[k]
      BY <1>1
    <2>2. \A k \in 1..n : cut[k] \in 0..100
      BY CutFacts
    <2>3. \A k \in 1..n : s[k].progress \in 0..100
      BY <2>1, <2>2
    <2> QED
      BY <2>3 DEF Within
  <1>3. Ordered(s)
    <2> SUFFICES ASSUME NEW k \in 1..n, NEW l \in 1..n, k < l
                 PROVE  s[k].progress <= s[l].progress /\ PartEndsAt(s, k) <= s[l].progress
      BY DEF Ordered
    <2>1. cut[k] <= cut[l] /\ cut[k + 1] <= cut[l]
      BY CutFacts
    <2> QED
      BY <1>1, <2>1
  <1>4. ASSUME NEW k \in 1..n, s[k].nested # NoJob PROVE NestedOK(job, s, k)
    <2>1. Fits(s[k].nested, job)
      BY <1>4 DEF Covers
    <2>2. s[k].progress \in Nat /\ s[k].size \in Nat /\ PartEndsAt(s, k) <= 100
      <3>1. cut[k] \in Nat /\ cut[k + 1] - cut[k] \in Nat /\ cut[k + 1] <= 100
        BY <1>0
      <3>2. s[k].progress = cut[k] /\ s[k].size = cut[k + 1] - cut[k]
        BY <1>1
      <3>3. PartEndsAt(s, k) = cut[k + 1]
        BY <1>1
      <3> QED
        BY <3>1, <3>2, <3>3
    <2>3. k = Len(s) => PartEndsAt(s, k) = 100
      BY <1>1, CutFacts
    <2>4. ASSUME k < Len(s) PROVE s[k + 1].type # "WARNING" /\ s[k + 1].progress = PartEndsAt(s, k)
      <3>1. k + 1 \in 1..n
        BY <2>4
      <3> QED
        BY <3>1, <1>1
    <2> QED
      BY <1>1, <2>1, <2>2, <2>3, <2>4 DEF NestedOK
  <1>5. \A k \in 1..n : s[k].up # 1
    BY <1>1
  <1> QED
    BY <1>2, <1>3, <1>4, <1>5 DEF JobOK

\* A first part, and a job for all that is left.
Pair(x, z, inner) == <<Part(0, x), Nested(x, z, inner)>>

LEMMA PairOK ==
  ASSUME NEW job, NEW inner, Fits(inner, job), NEW x \in 0..100, NEW z \in Int, x + z = 100,
         NEW counts
  PROVE  JobOK(job, Pair(x, z, inner), counts)
  <1> SUFFICES ASSUME NEW s, s = Pair(x, z, inner) PROVE JobOK(job, s, counts)
    OBVIOUS
  <1> DEFINE a == Part(0, x)
             b == Nested(x, z, inner)
             cut == <<0, x, 100>>
  <1>1. Covers(job, a, 0, x)
    <2>1. x = x - 0 /\ 0 \in Int /\ x \in Int
      OBVIOUS
    <2> QED
      BY <2>1, PartCovers
  <1>2. Covers(job, b, x, 100)
    BY NestedCovers
  <1>3. cut[1] = 0 /\ cut[2] = x /\ cut[3] = 100
    OBVIOUS
  <1>4. s = <<a, b>>
    BY DEF Pair
  <1> HIDE DEF a, b, Jobs, StepRecords, cut
  <1>5. s \in Seq(StepRecords) /\ Len(s) = 2 /\ s[1] = a /\ s[2] = b
    BY <1>1, <1>2, <1>4 DEF Covers
  <1>6. \A k \in 1..2 : Covers(job, s[k], cut[k], cut[k + 1])
    <2>1. Covers(job, s[1], cut[1], cut[1 + 1]) /\ Covers(job, s[2], cut[2], cut[2 + 1])
      BY <1>1, <1>2, <1>3, <1>5
    <2> QED
      BY <2>1
  <1>7. Cuts(cut, 2)
    BY <1>3 DEF Cuts
  <1> QED
    BY <1>5, <1>6, <1>7, ChainOK

LEMMA FourElements ==
  ASSUME NEW S, NEW a \in S, NEW b \in S, NEW c \in S, NEW d \in S
  PROVE  LET s == <<a, b, c, d>>
         IN  s \in Seq(S) /\ Len(s) = 4 /\ s[1] = a /\ s[2] = b /\ s[3] = c /\ s[4] = d
  OBVIOUS

LEMMA FiveElements ==
  ASSUME NEW S, NEW a \in S, NEW b \in S, NEW c \in S, NEW d \in S, NEW e \in S
  PROVE  LET s == <<a, b, c, d, e>>
         IN  /\ s \in Seq(S) /\ Len(s) = 5
             /\ s[1] = a /\ s[2] = b /\ s[3] = c /\ s[4] = d /\ s[5] = e
  OBVIOUS

\* Three jobs after a first part.
Four(x, y, z, i, j, k) ==
  <<Part(0, x), Nested(x, y - x, i), Nested(y, z - y, j), Nested(z, 100 - z, k)>>

LEMMA FourOK ==
  ASSUME NEW job, NEW x \in 0..100, NEW y \in x..100, NEW z \in y..100,
         NEW i, Fits(i, job),
         NEW j, Fits(j, job),
         NEW k, Fits(k, job),
         NEW counts
  PROVE  JobOK(job, Four(x, y, z, i, j, k), counts)
  <1> SUFFICES ASSUME NEW s, s = Four(x, y, z, i, j, k) PROVE JobOK(job, s, counts)
    OBVIOUS
  <1> DEFINE a == Part(0, x)
             b == Nested(x, y - x, i)
             c == Nested(y, z - y, j)
             d == Nested(z, 100 - z, k)
             cut == <<0, x, y, z, 100>>
  <1>0. /\ x \in Int /\ y \in Int /\ z \in Int
        /\ y - x \in Int /\ z - y \in Int /\ 100 - z \in Int
        /\ 0 \in Int /\ 100 \in Int /\ x = x - 0
    OBVIOUS
  <1>1. Covers(job, a, 0, x)
    BY <1>0, PartCovers
  <1>2. Covers(job, b, x, y)
    BY <1>0, NestedCovers
  <1>3. Covers(job, c, y, z)
    BY <1>0, NestedCovers
  <1>4. Covers(job, d, z, 100)
    BY <1>0, NestedCovers
  <1>5. cut[1] = 0 /\ cut[2] = x /\ cut[3] = y /\ cut[4] = z /\ cut[5] = 100
    OBVIOUS
  <1>6. s = <<a, b, c, d>>
    BY DEF Four
  <1> HIDE DEF a, b, c, d, Jobs, StepRecords, cut
  <1>7. s \in Seq(StepRecords) /\ Len(s) = 4 /\ s[1] = a /\ s[2] = b /\ s[3] = c /\ s[4] = d
    <2>1. /\ a \in StepRecords /\ b \in StepRecords
          /\ c \in StepRecords /\ d \in StepRecords
      BY <1>1, <1>2, <1>3, <1>4 DEF Covers
    <2> DEFINE r == <<a, b, c, d>>
    <2>2. r \in Seq(StepRecords) /\ Len(r) = 4 /\ r[1] = a /\ r[2] = b /\ r[3] = c /\ r[4] = d
      BY <2>1, FourElements
    <2> QED
      BY <1>6, <2>2
  <1>8. \A n \in 1..4 : Covers(job, s[n], cut[n], cut[n + 1])
    <2>1. /\ Covers(job, s[1], cut[1], cut[1 + 1]) /\ Covers(job, s[2], cut[2], cut[2 + 1])
          /\ Covers(job, s[3], cut[3], cut[3 + 1]) /\ Covers(job, s[4], cut[4], cut[4 + 1])
      BY <1>1, <1>2, <1>3, <1>4, <1>5, <1>7
    <2> QED
      BY <2>1
  <1>9. Cuts(cut, 4)
    BY <1>5 DEF Cuts
  <1> QED
    BY <1>7, <1>8, <1>9, ChainOK

\* Three jobs after two parts, of which b is the second.
Five(x, y, z, t, b, j, k, l) ==
  <<Part(0, x), b, Nested(y, z - y, j), Nested(z, t - z, k), Nested(t, 100 - t, l)>>

LEMMA FiveOK ==
  ASSUME NEW job, NEW x \in 0..100, NEW y \in x..100, NEW z \in y..100,
         NEW t \in z..100,
         NEW b, Covers(job, b, x, y),
         NEW j, Fits(j, job),
         NEW k, Fits(k, job),
         NEW l, Fits(l, job),
         NEW counts
  PROVE  JobOK(job, Five(x, y, z, t, b, j, k, l), counts)
  <1> SUFFICES ASSUME NEW s, s = Five(x, y, z, t, b, j, k, l) PROVE JobOK(job, s, counts)
    OBVIOUS
  <1> DEFINE a == Part(0, x)
             c == Nested(y, z - y, j)
             d == Nested(z, t - z, k)
             e == Nested(t, 100 - t, l)
             cut == <<0, x, y, z, t, 100>>
  <1>0. /\ x \in Int /\ y \in Int /\ z \in Int /\ t \in Int
        /\ z - y \in Int /\ t - z \in Int /\ 100 - t \in Int
        /\ 0 \in Int /\ 100 \in Int /\ x = x - 0
    OBVIOUS
  <1>1. Covers(job, a, 0, x)
    BY <1>0, PartCovers
  <1>2. Covers(job, c, y, z)
    BY <1>0, NestedCovers
  <1>3. Covers(job, d, z, t)
    BY <1>0, NestedCovers
  <1>4. Covers(job, e, t, 100)
    BY <1>0, NestedCovers
  <1>5. cut[1] = 0 /\ cut[2] = x /\ cut[3] = y /\ cut[4] = z /\ cut[5] = t /\ cut[6] = 100
    OBVIOUS
  <1>6. s = <<a, b, c, d, e>>
    BY DEF Five
  <1> HIDE DEF a, c, d, e, Jobs, StepRecords, cut
  <1>7. /\ s \in Seq(StepRecords) /\ Len(s) = 5
        /\ s[1] = a /\ s[2] = b /\ s[3] = c /\ s[4] = d /\ s[5] = e
    <2>1. /\ a \in StepRecords /\ b \in StepRecords /\ c \in StepRecords
          /\ d \in StepRecords /\ e \in StepRecords
      BY <1>1, <1>2, <1>3, <1>4 DEF Covers
    <2> DEFINE r == <<a, b, c, d, e>>
    <2>2. /\ r \in Seq(StepRecords) /\ Len(r) = 5
          /\ r[1] = a /\ r[2] = b /\ r[3] = c /\ r[4] = d /\ r[5] = e
      BY <2>1, FiveElements
    <2> QED
      BY <1>6, <2>2
  <1>8. \A n \in 1..5 : Covers(job, s[n], cut[n], cut[n + 1])
    <2>1. /\ Covers(job, s[1], cut[1], cut[1 + 1]) /\ Covers(job, s[2], cut[2], cut[2 + 1])
          /\ Covers(job, s[3], cut[3], cut[3 + 1]) /\ Covers(job, s[4], cut[4], cut[4 + 1])
          /\ Covers(job, s[5], cut[5], cut[5 + 1])
      BY <1>1, <1>2, <1>3, <1>4, <1>5, <1>7
    <2> QED
      BY <2>1
  <1>9. Cuts(cut, 5)
    BY <1>5 DEF Cuts
  <1> QED
    BY <1>7, <1>8, <1>9, ChainOK

LEMMA WarningFields ==
  /\ Warning \in StepRecords /\ WarningOnParent \in StepRecords
  /\ Warning.type = "WARNING" /\ WarningOnParent.type = "WARNING"
  /\ Warning.nested = NoJob /\ WarningOnParent.nested = NoJob
  /\ Warning.progress = 0 /\ WarningOnParent.progress = 0
  /\ Warning.up = 0 /\ WarningOnParent.up = 1
  <1>1. Warning \in StepRecords
    BY DEF Warning, Update, StepRecords, Percentages
  <1>2. WarningOnParent \in StepRecords
    <2> HIDE DEF Warning
    <2> QED
      BY <1>1 DEF WarningOnParent, StepRecords
  <1>3. /\ Warning.type = "WARNING" /\ Warning.nested = NoJob
        /\ Warning.progress = 0 /\ Warning.up = 0
    BY DEF Warning, Update
  <1>4. /\ WarningOnParent.type = "WARNING" /\ WarningOnParent.nested = NoJob
        /\ WarningOnParent.progress = 0 /\ WarningOnParent.up = 1
    BY DEF WarningOnParent, Warning, Update
  <1> QED
    BY <1>1, <1>2, <1>3, <1>4

\* ImportFromYaml warns between its two parts.
LEMMA YamlOK ==
  ASSUME NEW job, NEW list, Fits(list, job), NEW counts
  PROVE  JobOK(job, ImportFromYaml(list), counts)
  <1> DEFINE a == Part(0, 30)
             b == Warning
             c == Nested(30, 70, list)
             s == <<a, b, c>>
  <1>1. /\ a \in StepRecords /\ a.nested = NoJob
        /\ a.progress = 0 /\ a.size = 30 /\ a.up = 0
    BY PartFields
  <1>2. /\ c \in StepRecords /\ c.type = "PERCENTAGE" /\ c.nested = list
        /\ c.progress = 30 /\ c.size = 70 /\ c.up = 0
    BY NestedFields DEF Fits
  <1>3. /\ b \in StepRecords /\ b.type = "WARNING" /\ b.nested = NoJob
        /\ b.progress = 0 /\ b.up = 0
    BY WarningFields
  <1>4. ImportFromYaml(list) = s
    BY DEF ImportFromYaml
  <1> HIDE DEF a, b, c, Jobs, StepRecords
  <1>5. s \in Seq(StepRecords) /\ Len(s) = 3 /\ s[1] = a /\ s[2] = b /\ s[3] = c
    BY <1>1, <1>2, <1>3
  <1> HIDE DEF s
  <1>6. Within(s)
    <2>1. s[1].progress \in 0..100 /\ s[2].progress \in 0..100 /\ s[3].progress \in 0..100
      BY <1>1, <1>2, <1>3, <1>5
    <2>2. Len(s) = 3
      BY <1>5
    <2>3. \A k \in 1..3 : k = 1 \/ k = 2 \/ k = 3
      OBVIOUS
    <2> QED
      BY <2>1, <2>2, <2>3 DEF Within
  <1>7. Ordered(s)
    BY <1>1, <1>2, <1>3, <1>5 DEF Ordered
  <1>8. NestedOK(job, s, 3)
    BY <1>2, <1>5 DEF NestedOK, PartEndsAt
  <1>9. \A k \in 1..Len(s) : s[k].nested # NoJob => NestedOK(job, s, k)
    BY <1>1, <1>3, <1>5, <1>8
  <1>10. \A k \in 1..Len(s) : s[k].up = 0
    BY <1>1, <1>2, <1>3, <1>5
  <1>11. JobOK(job, s, counts)
    BY <1>5, <1>6, <1>7, <1>9, <1>10 DEF JobOK
  <1> QED
    BY <1>4, <1>11

---------------------------------------------------------------------------
\* A turn; it has no progress if there is nothing to divide by.
LEMMA TurnFields ==
  ASSUME NEW of \in Nat, NEW i \in Nat \ {0}
  PROVE  /\ Turn(i, of) \in StepRecords
         /\ Turn(i, of).type = "PERCENTAGE" /\ Turn(i, of).nested = NoJob
         /\ Turn(i, of).up = 0
         /\ of # 0 => Turn(i, of).progress = (i - 1) * (100 \div of)
  <1> DEFINE q == IF of = 0 THEN NotFinite ELSE 100 \div of
             p == IF of = 0 THEN NotFinite ELSE (i - 1) * q
             a == Part(p, q)
  <1>1. p \in Percentages /\ q \in Percentages
    <2>1. CASE of = 0
      BY <2>1 DEF Percentages
    <2>2. CASE of # 0
      <3>1. 100 \div of \in Int
        BY <2>2
      <3>2. (i - 1) * (100 \div of) \in Int
        BY <3>1
      <3> QED
        BY <2>2, <3>1, <3>2 DEF Percentages
    <2> QED
      BY <2>1, <2>2
  <1>2. Turn(i, of) = [a EXCEPT !.guarded = TRUE]
    BY DEF Turn
  <1>3. of # 0 => p = (i - 1) * (100 \div of)
    OBVIOUS
  <1> HIDE DEF p, q, Percentages
  <1>4. a \in StepRecords
    BY <1>1 DEF Part, Update, StepRecords
  <1>5. /\ Turn(i, of).type = "PERCENTAGE" /\ Turn(i, of).nested = NoJob
        /\ Turn(i, of).progress = p /\ Turn(i, of).up = 0
    BY <1>2 DEF Part, Update
  <1> HIDE DEF a
  <1>6. Turn(i, of) \in StepRecords
    BY <1>2, <1>4 DEF StepRecords
  <1> QED
    BY <1>3, <1>5, <1>6

LEMMA TurnWithin ==
  ASSUME NEW of \in Nat, NEW i \in 1..of
  PROVE  Turn(i, of).progress \in 0..100
  <1> DEFINE q == 100 \div of
             p == (i - 1) * q
  <1>1. of # 0 /\ i \in Nat \ {0}
    OBVIOUS
  <1>2. q \in Nat /\ of * q <= 100
    BY <1>1
  <1>3. p \in Nat /\ p <= of * q
    <2> HIDE DEF q
    <2> QED
      BY <1>2
  <1>4. Turn(i, of).progress = p
    BY <1>1, TurnFields
  <1> HIDE DEF p, q
  <1> QED
    BY <1>2, <1>3, <1>4

LEMMA LaterTurns ==
  ASSUME NEW of \in Nat, NEW i \in 1..of, NEW j \in 1..of, i <= j
  PROVE  Turn(i, of).progress <= Turn(j, of).progress
  <1> DEFINE q == 100 \div of
  <1>1. q \in Nat
    OBVIOUS
  <1>2. (i - 1) * q <= (j - 1) * q
    <2> HIDE DEF q
    <2> QED
      BY <1>1
  <1>3. i \in Nat \ {0} /\ j \in Nat \ {0} /\ of # 0
    OBVIOUS
  <1>4. Turn(i, of).progress = (i - 1) * q /\ Turn(j, of).progress = (j - 1) * q
    BY <1>3, TurnFields
  <1> HIDE DEF q
  <1> QED
    BY <1>2, <1>4

\* A job without nested ones.
LEMMA LeafOK ==
  ASSUME NEW job, NEW counts, NEW s, s \in Seq(StepRecords),
         \A k \in 1..Len(s) : s[k].nested = NoJob,
         \A k \in 1..Len(s) : s[k].up = 1 => job = "removing",
         ~ ManyRemoved(job, counts) => \A k \in 1..Len(s) : s[k].progress \in 0..100,
         ~ ManyRemoved(job, counts) /\ ~ Streams(job, counts) =>
           \A k \in 1..Len(s), l \in 1..Len(s) :
             k < l /\ s[k].type # "WARNING" /\ s[l].type # "WARNING" =>
               s[k].progress <= s[l].progress
  PROVE  JobOK(job, s, counts)
  BY DEF JobOK, Within, Ordered

\* The turns of one loop.
LEMMA TurnsOK ==
  ASSUME NEW job, NEW counts, NEW n \in Int, NEW of \in Nat,
         ~ ManyRemoved(job, counts) => n <= of
  PROVE  JobOK(job, Turns(n, of), counts)
  <1> DEFINE s == Turns(n, of)
             m == IF n < 0 THEN 0 ELSE n
  <1>1. m \in Nat /\ s = [i \in 1..m |-> Turn(i, of)]
    BY DEF Turns
  <1>2. \A i \in 1..m : /\ Turn(i, of) \in StepRecords
                        /\ Turn(i, of).nested = NoJob /\ Turn(i, of).up = 0
    BY TurnFields
  <1>3. ~ ManyRemoved(job, counts) => m <= of
    OBVIOUS
  <1> HIDE DEF m, s
  <1>4. s \in Seq(StepRecords) /\ Len(s) = m /\ \A i \in 1..m : s[i] = Turn(i, of)
    BY <1>1, <1>2
  <1>5. \A k \in 1..Len(s) : s[k].nested = NoJob /\ s[k].up = 0
    BY <1>2, <1>4
  <1>6. ASSUME ~ ManyRemoved(job, counts), NEW k \in 1..Len(s)
        PROVE  s[k].progress \in 0..100
    <2>1. k \in 1..of
      BY <1>1, <1>3, <1>4, <1>6
    <2> QED
      BY <1>4, <2>1, TurnWithin
  <1>7. ASSUME ~ ManyRemoved(job, counts), NEW k \in 1..Len(s), NEW l \in 1..Len(s), k < l
        PROVE  s[k].progress <= s[l].progress
    <2>1. k \in 1..of /\ l \in 1..of /\ k <= l
      BY <1>1, <1>3, <1>4, <1>7
    <2> QED
      BY <1>4, <2>1, LaterTurns
  <1>8. \A k \in 1..Len(s) : s[k].up = 1 => job = "removing"
    BY <1>5
  <1>9. JobOK(job, s, counts)
    BY <1>4, <1>5, <1>6, <1>7, <1>8, LeafOK
  <1> QED
    BY <1>9 DEF s

\* The lines of a CSV document are not known beforehand.
LEMMA ImportedLinesOK ==
  ASSUME NEW counts \in CountsOfCalls
  PROVE  JobOK("lines", ImportedLines(counts), counts)
  <1> DEFINE u == Update("UNBOUNDED", 0, 0)
             s == ImportedLines(counts)
             n == counts.latest
  <1>1. u \in StepRecords /\ u.nested = NoJob /\ u.up = 0 /\ u.progress = 0
    BY DEF Update, StepRecords, Percentages
  <1>2. n \in Nat /\ s = [i \in 1..n |-> u]
    BY DEF ImportedLines, CountsOfCalls
  <1> HIDE DEF u, s, n
  <1>3. s \in Seq(StepRecords) /\ Len(s) = n /\ \A i \in 1..n : s[i] = u
    BY <1>1, <1>2
  <1>4. /\ \A k \in 1..Len(s) : s[k].nested = NoJob /\ s[k].progress = 0
        /\ \A k \in 1..Len(s) : s[k].up = 0
    BY <1>1, <1>3
  <1>5. JobOK("lines", s, counts)
    BY <1>3, <1>4, LeafOK
  <1> QED
    BY <1>5 DEF s

\* The resources of a bundle, with a size that is none.
LEMMA RebuiltResourcesOK ==
  ASSUME NEW counts \in CountsOfCalls
  PROVE  JobOK("rebuilding", RebuiltResources(counts), counts)
  <1> DEFINE n == counts.latest
             s == RebuiltResources(counts)
             T(i) == [Turn(i, n) EXCEPT !.size = 100 * (i - 1)]
  <1>1. n \in Nat
    BY DEF CountsOfCalls
  <1>2. s = [i \in 1..n |-> T(i)]
    BY DEF RebuiltResources
  <1>3. ASSUME NEW i \in 1..n
        PROVE  /\ T(i) \in StepRecords /\ T(i).nested = NoJob /\ T(i).up = 0
               /\ T(i).progress = Turn(i, n).progress
    <2>1. i \in Nat \ {0}
      BY <1>1
    <2> HIDE DEF n
    <2>2. /\ Turn(i, n) \in StepRecords /\ Turn(i, n).nested = NoJob /\ Turn(i, n).up = 0
          /\ Turn(i, n).type = "PERCENTAGE"
      BY <1>1, <2>1, TurnFields
    <2>3. 100 * (i - 1) \in Percentages
      BY <1>1 DEF Percentages
    <2> QED
      BY <2>2, <2>3 DEF StepRecords
  <1> HIDE DEF n, s, T
  <1>4. s \in Seq(StepRecords) /\ Len(s) = n /\ \A i \in 1..n : s[i] = T(i)
    BY <1>1, <1>2, <1>3
  <1>5. \A k \in 1..Len(s) : s[k].nested = NoJob /\ s[k].up = 0
    BY <1>3, <1>4
  <1>6. \A k \in 1..Len(s) : s[k].progress \in 0..100
    BY <1>1, <1>3, <1>4, TurnWithin
  <1>7. ASSUME NEW k \in 1..Len(s), NEW l \in 1..Len(s), k < l
        PROVE  s[k].progress <= s[l].progress
    <2>1. k \in 1..n /\ l \in 1..n /\ k <= l
      BY <1>4, <1>7
    <2> QED
      BY <1>1, <1>3, <1>4, <2>1, LaterTurns
  <1>8. \A k \in 1..Len(s) : s[k].up = 1 => FALSE
    BY <1>5
  <1>9. JobOK("rebuilding", s, counts)
    BY <1>4, <1>5, <1>6, <1>7, <1>8, LeafOK
  <1> QED
    BY <1>9 DEF s

\* Every file is announced; the pieces of one that is streamed are not in
\* order with what was sent before.
LEMMA ProcessedFilesOK ==
  ASSUME NEW counts \in CountsOfCalls
  PROVE  JobOK("files", ProcessedFiles(counts), counts)
  <1> DEFINE u == Update("UNBOUNDED", 0, 0)
             b == [Part(0, 1) EXCEPT !.guarded = TRUE]
             c == [Part(50, 1) EXCEPT !.guarded = TRUE]
             files == counts.files
             seqs == [i \in DOMAIN files |-> <<u>> \o IF files[i] THEN <<b, c>> ELSE <<>>]
             Finite == {r \in StepRecords : r.nested = NoJob /\ r.up = 0 /\ r.progress \in 0..100}
             AtZero == {r \in StepRecords : r.nested = NoJob /\ r.up = 0 /\ r.progress = 0}
             s == ProcessedFiles(counts)
  <1>1. u \in Finite /\ u \in AtZero
    BY DEF Update, StepRecords, Percentages
  <1>2. b \in Finite /\ c \in Finite
    <2>1. Part(0, 1) \in StepRecords /\ Part(50, 1) \in StepRecords
      BY PartFields
    <2>2. b \in StepRecords /\ c \in StepRecords
      <3> DEFINE p == Part(0, 1)
                 q == Part(50, 1)
      <3> HIDE DEF p, q
      <3> QED
        BY <2>1 DEF StepRecords, p, q
    <2>3. b.nested = NoJob /\ b.up = 0 /\ b.progress = 0
      BY DEF Part, Update
    <2>4. c.nested = NoJob /\ c.up = 0 /\ c.progress = 50
      BY DEF Part, Update
    <2> HIDE DEF b, c
    <2> QED
      BY <2>2, <2>3, <2>4
  <1>3. s = FlattenSeq(seqs)
    BY DEF ProcessedFiles
  <1>4. files \in Seq(BOOLEAN) /\ DOMAIN files = 1..Len(files) /\ Len(files) \in Nat
    BY DEF CountsOfCalls
  <1> HIDE DEF u, b, c, files, Finite, AtZero, s
  <1>5. seqs \in Seq(Seq(Finite))
    <2>1. \A i \in 1..Len(files) : <<u>> \o (IF files[i] THEN <<b, c>> ELSE <<>>) \in Seq(Finite)
      BY <1>1, <1>2
    <2> QED
      BY <1>4, <2>1
  <1>6. s \in Seq(Finite)
    <2> HIDE DEF seqs
    <2> QED
      BY <1>3, <1>5, FlattenFacts
  <1>7. ASSUME ~ Streams("files", counts) PROVE s \in Seq(AtZero)
    <2>1. \A i \in 1..Len(files) : ~ files[i]
      BY <1>4, <1>7 DEF Streams, files
    <2>2. \A i \in 1..Len(files) : <<u>> \o (IF files[i] THEN <<b, c>> ELSE <<>>) \in Seq(AtZero)
      BY <1>1, <2>1
    <2>3. seqs \in Seq(Seq(AtZero))
      BY <1>4, <2>2
    <2> HIDE DEF seqs
    <2> QED
      BY <1>3, <2>3, FlattenFacts
  <1>8. \A k \in 1..Len(s) : s[k] \in StepRecords /\ s[k].nested = NoJob /\ s[k].up = 0
                             /\ s[k].progress \in 0..100
    BY <1>6 DEF Finite
  <1>9. s \in Seq(StepRecords)
    BY <1>6, <1>8
  <1>10. ~ Streams("files", counts) => \A k \in 1..Len(s) : s[k].progress = 0
    BY <1>7 DEF AtZero
  <1>11. \A k \in 1..Len(s) : s[k].up = 1 => FALSE
    BY <1>8
  <1>12. ~ Streams("files", counts) =>
           \A k \in 1..Len(s), l \in 1..Len(s) : s[k].progress <= s[l].progress
    BY <1>10
  <1>13. JobOK("files", s, counts)
    BY <1>8, <1>9, <1>11, <1>12, LeafOK
  <1> QED
    BY <1>13 DEF s

\* Every file that is removed is one turn, with a warning on the parent.
LEMMA RemovedFilesOK ==
  ASSUME NEW counts \in CountsOfCalls
  PROVE  JobOK("removing", RemovedFiles(counts), counts)
  <1> DEFINE n == counts.removed
             a == Turn(1, n)
             w == WarningOnParent
             seqs == [i \in 1..n |-> <<a, w>>]
             AtZero == {r \in StepRecords : r.nested = NoJob /\ r.progress = 0}
             s == RemovedFiles(counts)
  <1>1. n \in Nat
    BY DEF CountsOfCalls
  <1>2. s = FlattenSeq(seqs)
    BY DEF RemovedFiles
  <1> HIDE DEF n, s
  <1>3. n # 0 => a \in AtZero
    <2> SUFFICES ASSUME n # 0 PROVE a \in AtZero
      OBVIOUS
    <2>1. a.progress = (1 - 1) * (100 \div n)
      BY <1>1, TurnFields
    <2>2. (1 - 1) * (100 \div n) = 0
      BY <1>1
    <2>3. a \in StepRecords /\ a.nested = NoJob
      BY <1>1, TurnFields
    <2> HIDE DEF a
    <2> QED
      BY <2>1, <2>2, <2>3
  <1>4. w \in AtZero
    BY WarningFields
  <1> HIDE DEF a, w, AtZero
  <1>5. seqs \in Seq(Seq(AtZero))
    <2>1. \A i \in 1..n : <<a, w>> \in Seq(AtZero)
      BY <1>1, <1>3, <1>4
    <2> QED
      BY <1>1, <2>1
  <1>6. s \in Seq(AtZero)
    <2> HIDE DEF seqs
    <2> QED
      BY <1>2, <1>5, FlattenFacts
  <1>7. \A k \in 1..Len(s) : s[k] \in StepRecords /\ s[k].nested = NoJob /\ s[k].progress = 0
    BY <1>6 DEF AtZero
  <1>8. s \in Seq(StepRecords)
    BY <1>6, <1>7
  <1>9. JobOK("removing", s, counts)
    <2>1. \A k \in 1..Len(s) : s[k].nested = NoJob
      BY <1>7
    <2>2. \A k \in 1..Len(s) : s[k].progress \in 0..100
      BY <1>7
    <2>3. \A k \in 1..Len(s), l \in 1..Len(s) : s[k].progress <= s[l].progress
      BY <1>7
    <2> QED
      BY <1>8, <2>1, <2>2, <2>3, LeafOK
  <1> QED
    BY <1>9 DEF s

\* One turn for every changed or new file, with a warning for a changed one.
LEMMA GeneratedPatchesOK ==
  ASSUME NEW counts \in CountsOfCalls
  PROVE  JobOK("patches", GeneratedPatches(counts), counts)
  <1> DEFINE n == counts.changed + counts.added
             c == counts.changed
             w == Warning
             T(i) == Turn(i, n)
             seqs == [i \in 1..n |-> <<T(i)>> \o IF i <= c THEN <<w>> ELSE <<>>]
             Finite == {r \in StepRecords : r.nested = NoJob /\ r.up = 0 /\ r.progress \in 0..100}
             s == GeneratedPatches(counts)
  <1>1. n \in Nat /\ c \in Nat
    BY DEF CountsOfCalls
  <1>2. s = FlattenSeq(seqs)
    BY DEF GeneratedPatches
  <1> HIDE DEF n, c, s
  <1>3. ASSUME NEW i \in 1..n PROVE T(i) \in Finite
    <2>1. i \in Nat \ {0}
      BY <1>1
    <2> QED
      BY <1>1, <2>1, TurnFields, TurnWithin
  <1>4. w \in Finite
    BY WarningFields
  <1>5. w.type = "WARNING"
    BY WarningFields
  <1> HIDE DEF T, w, Finite
  <1>6. \A i \in 1..n : <<T(i)>> \o (IF i <= c THEN <<w>> ELSE <<>>) \in Seq(Finite)
    BY <1>1, <1>3, <1>4
  <1>7. seqs \in Seq(Seq(Finite)) /\ Len(seqs) = n
    BY <1>1, <1>6
  <1>8. ASSUME NEW i \in 1..n, NEW k \in 1..Len(seqs[i])
        PROVE  seqs[i][k] = T(i) \/ seqs[i][k] = w
    BY <1>1
  <1> HIDE DEF seqs
  <1>9. s \in Seq(Finite)
    BY <1>2, <1>7, FlattenFacts
  <1>10. PICK g : Traces(g, s, seqs, n)
    BY <1>2, <1>7, FlattenFacts
  <1>11. \A k \in 1..Len(s) : s[k] \in StepRecords /\ s[k].nested = NoJob /\ s[k].up = 0
                              /\ s[k].progress \in 0..100
    BY <1>9 DEF Finite
  <1>12. s \in Seq(StepRecords)
    BY <1>9, <1>11
  <1>13. ASSUME NEW k \in 1..Len(s), NEW l \in 1..Len(s), k < l,
                s[k].type # "WARNING", s[l].type # "WARNING"
         PROVE  s[k].progress <= s[l].progress
    <2>1. /\ g[k] \in 1..n /\ g[l] \in 1..n /\ g[k] <= g[l]
      BY <1>1, <1>9, <1>13, <1>10 DEF Traces
    <2>2. s[k] = T(g[k])
      <3>1. PICK i \in 1..Len(seqs[g[k]]) : s[k] = seqs[g[k]][i]
        BY <1>10 DEF Traces
      <3> QED
        BY <1>5, <1>8, <1>13, <2>1, <3>1
    <2>3. s[l] = T(g[l])
      <3>1. PICK i \in 1..Len(seqs[g[l]]) : s[l] = seqs[g[l]][i]
        BY <1>10 DEF Traces
      <3> QED
        BY <1>5, <1>8, <1>13, <2>1, <3>1
    <2> QED
      BY <1>1, <2>1, <2>2, <2>3, LaterTurns DEF T
  <1>14. \A k \in 1..Len(s) : s[k].up = 1 => FALSE
    BY <1>11
  <1>15. JobOK("patches", s, counts)
    BY <1>11, <1>12, <1>13, <1>14, LeafOK
  <1> QED
    BY <1>15 DEF s
---------------------------------------------------------------------------
\* Which jobs may be nested in which.
LEMMA FitsFacts ==
  /\ \A job \in Branches \cup Stems, leaf \in Leaves \ {"removed", "files"} : Fits(leaf, job)
  /\ \A job \in Stems, branch \in Branches \ {"diff", "CreateFromDirectory"} : Fits(branch, job)
  /\ Fits("group", "Unpack") /\ Fits("ExportToFile", "Unpack")
  /\ Fits("rebuilding", "Unpack")
  /\ Fits("removed", "diff") /\ Fits("files", "CreateFromDirectory")
  /\ Fits("diff", "CreatePatch") /\ Fits("diff", "DiffChangesAsLists")
  <1>1. /\ \A job \in Leaves : Height(job) = 1 /\ job \in Jobs
        /\ \A job \in Branches : Height(job) = 2 /\ job \in Jobs
        /\ \A job \in Stems : Height(job) = 3 /\ job \in Jobs
        /\ Height("Unpack") = 4
    BY DEF Height, Leaves, Branches, Stems, Jobs
  <1>2. /\ \A job : \A leaf \in Leaves \ {"removed", "files"} : Belongs(leaf, job)
        /\ \A job : \A branch \in Branches \ {"diff", "CreateFromDirectory"} : Belongs(branch, job)
        /\ \A job : Belongs("group", job) /\ Belongs("ExportToFile", job)
    BY DEF Belongs, Leaves, Branches
  <1>3. /\ Belongs("removed", "diff") /\ Belongs("files", "CreateFromDirectory")
        /\ Belongs("diff", "CreatePatch") /\ Belongs("diff", "DiffChangesAsLists")
    BY DEF Belongs
  <1>4. /\ {"removed", "files", "rebuilding"} \subseteq Leaves
        /\ {"diff", "CreateFromDirectory"} \subseteq Branches
        /\ {"group", "ExportToFile", "CreatePatch", "DiffChangesAsLists"} \subseteq Stems
    BY DEF Leaves, Branches, Stems
  <1> HIDE DEF Leaves, Branches, Stems, Jobs
  <1>5. \A job \in Branches \cup Stems, leaf \in Leaves \ {"removed", "files"} : Fits(leaf, job)
    BY <1>1, <1>2 DEF Fits
  <1>6. \A job \in Stems, branch \in Branches \ {"diff", "CreateFromDirectory"} : Fits(branch, job)
    BY <1>1, <1>2 DEF Fits
  <1>7. Fits("group", "Unpack") /\ Fits("ExportToFile", "Unpack") /\ Fits("rebuilding", "Unpack")
    BY <1>1, <1>2, <1>4 DEF Fits
  <1>8. /\ Fits("removed", "diff") /\ Fits("files", "CreateFromDirectory")
        /\ Fits("diff", "CreatePatch") /\ Fits("diff", "DiffChangesAsLists")
    BY <1>1, <1>3, <1>4 DEF Fits
  <1> QED
    BY <1>5, <1>6, <1>7, <1>8

\* A job that is a first part and a job for the rest of it.
LEMMA PairsOK ==
  ASSUME NEW counts
  PROVE  /\ JobOK("ImportFromFile", ImportFromFile, counts)
         /\ JobOK("ImportFromCsvFile", ImportFromCsvFile, counts)
         /\ JobOK("ExportToFile", ExportToFile, counts)
         /\ JobOK("ExportToCsvFile", ExportToCsvFile, counts)
         /\ JobOK("CreateFromDirectory", CreateFromDirectory, counts)
         /\ JobOK("Merge", Merge, counts)
         /\ JobOK("RemoveResources", RemoveResources, counts)
         /\ JobOK("csv", ImportFromCSV, counts)
         /\ JobOK("group", CreateResourceGroupFromYamlString, counts)
         /\ JobOK("exportCsv", ExportCsv, counts)
         /\ JobOK("export", ExportYaml("resources"), counts)
         /\ JobOK("exportChanges", ExportYaml("changes"), counts)
         /\ JobOK("exportPatches", ExportYaml("patchList"), counts)
         /\ JobOK("exportChunks", ExportYaml("chunkList"), counts)
  <1>1. JobOK("ImportFromFile", ImportFromFile, counts)
    <2>1. Fits("yaml", "ImportFromFile")
      BY FitsFacts DEF Leaves, Branches, Stems
    <2>2. ImportFromFile = Pair(20, 80, "yaml")
      BY DEF ImportFromFile, Pair
    <2>3. 20 \in 0..100 /\ 80 \in Int /\ 20 + 80 = 100
      OBVIOUS
    <2>4. JobOK("ImportFromFile", Pair(20, 80, "yaml"), counts)
      BY <2>1, <2>3, PairOK
    <2> QED
      BY <2>2, <2>4
  <1>2. JobOK("ImportFromCsvFile", ImportFromCsvFile, counts)
    <2>1. Fits("csv", "ImportFromCsvFile")
      BY FitsFacts DEF Leaves, Branches, Stems
    <2>2. ImportFromCsvFile = Pair(20, 80, "csv")
      BY DEF ImportFromCsvFile, Pair
    <2>3. 20 \in 0..100 /\ 80 \in Int /\ 20 + 80 = 100
      OBVIOUS
    <2>4. JobOK("ImportFromCsvFile", Pair(20, 80, "csv"), counts)
      BY <2>1, <2>3, PairOK
    <2> QED
      BY <2>2, <2>4
  <1>3. JobOK("ExportToFile", ExportToFile, counts)
    <2>1. Fits("export", "ExportToFile")
      BY FitsFacts DEF Leaves, Branches, Stems
    <2>2. ExportToFile = Pair(10, 90, "export")
      BY DEF ExportToFile, Pair
    <2>3. 10 \in 0..100 /\ 90 \in Int /\ 10 + 90 = 100
      OBVIOUS
    <2>4. JobOK("ExportToFile", Pair(10, 90, "export"), counts)
      BY <2>1, <2>3, PairOK
    <2> QED
      BY <2>2, <2>4
  <1>4. JobOK("ExportToCsvFile", ExportToCsvFile, counts)
    <2>1. Fits("exportCsv", "ExportToCsvFile")
      BY FitsFacts DEF Leaves, Branches, Stems
    <2>2. ExportToCsvFile = Pair(10, 90, "exportCsv")
      BY DEF ExportToCsvFile, Pair
    <2>3. 10 \in 0..100 /\ 90 \in Int /\ 10 + 90 = 100
      OBVIOUS
    <2>4. JobOK("ExportToCsvFile", Pair(10, 90, "exportCsv"), counts)
      BY <2>1, <2>3, PairOK
    <2> QED
      BY <2>2, <2>4
  <1>5. JobOK("CreateFromDirectory", CreateFromDirectory, counts)
    <2>1. Fits("files", "CreateFromDirectory")
      BY FitsFacts DEF Leaves, Branches, Stems
    <2>2. CreateFromDirectory = Pair(10, 90, "files")
      BY DEF CreateFromDirectory, Pair
    <2>3. 10 \in 0..100 /\ 90 \in Int /\ 10 + 90 = 100
      OBVIOUS
    <2>4. JobOK("CreateFromDirectory", Pair(10, 90, "files"), counts)
      BY <2>1, <2>3, PairOK
    <2> QED
      BY <2>2, <2>4
  <1>6. JobOK("Merge", Merge, counts)
    <2>1. Fits("union", "Merge")
      BY FitsFacts DEF Leaves, Branches, Stems
    <2>2. Merge = Pair(20, 80, "union")
      BY DEF Merge, Pair
    <2>3. 20 \in 0..100 /\ 80 \in Int /\ 20 + 80 = 100
      OBVIOUS
    <2>4. JobOK("Merge", Pair(20, 80, "union"), counts)
      BY <2>1, <2>3, PairOK
    <2> QED
      BY <2>2, <2>4
  <1>7. JobOK("RemoveResources", RemoveResources, counts)
    <2>1. Fits("removals", "RemoveResources")
      BY FitsFacts DEF Leaves, Branches, Stems
    <2>2. RemoveResources = Pair(5, 95, "removals")
      BY DEF RemoveResources, Pair
    <2>3. 5 \in 0..100 /\ 95 \in Int /\ 5 + 95 = 100
      OBVIOUS
    <2>4. JobOK("RemoveResources", Pair(5, 95, "removals"), counts)
      BY <2>1, <2>3, PairOK
    <2> QED
      BY <2>2, <2>4
  <1>8. JobOK("csv", ImportFromCSV, counts)
    <2>1. Fits("lines", "csv")
      BY FitsFacts DEF Leaves, Branches, Stems
    <2>2. ImportFromCSV = Pair(10, 90, "lines")
      BY DEF ImportFromCSV, Pair
    <2>3. 10 \in 0..100 /\ 90 \in Int /\ 10 + 90 = 100
      OBVIOUS
    <2>4. JobOK("csv", Pair(10, 90, "lines"), counts)
      BY <2>1, <2>3, PairOK
    <2> QED
      BY <2>2, <2>4
  <1>9. JobOK("group", CreateResourceGroupFromYamlString, counts)
    <2>1. Fits("yaml", "group")
      BY FitsFacts DEF Leaves, Branches, Stems
    <2>2. CreateResourceGroupFromYamlString = Pair(30, 70, "yaml")
      BY DEF CreateResourceGroupFromYamlString, Pair
    <2>3. 30 \in 0..100 /\ 70 \in Int /\ 30 + 70 = 100
      OBVIOUS
    <2>4. JobOK("group", Pair(30, 70, "yaml"), counts)
      BY <2>1, <2>3, PairOK
    <2> QED
      BY <2>2, <2>4
  <1>10. JobOK("exportCsv", ExportCsv, counts)
    <2>1. Fits("resources", "exportCsv")
      BY FitsFacts DEF Leaves, Branches, Stems
    <2>2. ExportCsv = Pair(10, 90, "resources")
      BY DEF ExportCsv, Pair
    <2>3. 10 \in 0..100 /\ 90 \in Int /\ 10 + 90 = 100
      OBVIOUS
    <2>4. JobOK("exportCsv", Pair(10, 90, "resources"), counts)
      BY <2>1, <2>3, PairOK
    <2> QED
      BY <2>2, <2>4
  <1>11. JobOK("export", ExportYaml("resources"), counts)
    <2>1. Fits("resources", "export")
      BY FitsFacts DEF Leaves, Branches, Stems
    <2>2. ExportYaml("resources") = Pair(20, 80, "resources")
      BY DEF ExportYaml, Pair
    <2>3. 20 \in 0..100 /\ 80 \in Int /\ 20 + 80 = 100
      OBVIOUS
    <2>4. JobOK("export", Pair(20, 80, "resources"), counts)
      BY <2>1, <2>3, PairOK
    <2> QED
      BY <2>2, <2>4
  <1>12. JobOK("exportChanges", ExportYaml("changes"), counts)
    <2>1. Fits("changes", "exportChanges")
      BY FitsFacts DEF Leaves, Branches, Stems
    <2>2. ExportYaml("changes") = Pair(20, 80, "changes")
      BY DEF ExportYaml, Pair
    <2>3. 20 \in 0..100 /\ 80 \in Int /\ 20 + 80 = 100
      OBVIOUS
    <2>4. JobOK("exportChanges", Pair(20, 80, "changes"), counts)
      BY <2>1, <2>3, PairOK
    <2> QED
      BY <2>2, <2>4
  <1>13. JobOK("exportPatches", ExportYaml("patchList"), counts)
    <2>1. Fits("patchList", "exportPatches")
      BY FitsFacts DEF Leaves, Branches, Stems
    <2>2. ExportYaml("patchList") = Pair(20, 80, "patchList")
      BY DEF ExportYaml, Pair
    <2>3. 20 \in 0..100 /\ 80 \in Int /\ 20 + 80 = 100
      OBVIOUS
    <2>4. JobOK("exportPatches", Pair(20, 80, "patchList"), counts)
      BY <2>1, <2>3, PairOK
    <2> QED
      BY <2>2, <2>4
  <1>14. JobOK("exportChunks", ExportYaml("chunkList"), counts)
    <2>1. Fits("chunkList", "exportChunks")
      BY FitsFacts DEF Leaves, Branches, Stems
    <2>2. ExportYaml("chunkList") = Pair(20, 80, "chunkList")
      BY DEF ExportYaml, Pair
    <2>3. 20 \in 0..100 /\ 80 \in Int /\ 20 + 80 = 100
      OBVIOUS
    <2>4. JobOK("exportChunks", Pair(20, 80, "chunkList"), counts)
      BY <2>1, <2>3, PairOK
    <2> QED
      BY <2>2, <2>4
  <1> QED
    BY <1>1, <1>2, <1>3, <1>4, <1>5, <1>6, <1>7, <1>8, <1>9, <1>10, <1>11, <1>12, <1>13, <1>14

LEMMA DiffOK ==
  ASSUME NEW counts
  PROVE  JobOK("diff", Diff, counts)
  <1>1. Fits("common", "diff") /\ Fits("added", "diff") /\ Fits("removed", "diff")
    BY FitsFacts DEF Leaves, Branches
  <1>2. Diff = Four(20, 40, 60, "common", "added", "removed")
    BY DEF Diff, Four
  <1>3. /\ 20 \in 0..100 /\ 40 \in 20..100 /\ 60 \in 40..100
    OBVIOUS
  <1>4. JobOK("diff", Four(20, 40, 60, "common", "added", "removed"), counts)
    BY <1>1, <1>3, FourOK
  <1> QED
    BY <1>2, <1>4
LEMMA DiffChangesAsListsOK ==
  ASSUME NEW counts
  PROVE  JobOK("DiffChangesAsLists", DiffChangesAsLists, counts)
  <1>1. Fits("diff", "DiffChangesAsLists") /\ Fits("removals", "DiffChangesAsLists") /\ Fits("changes", "DiffChangesAsLists")
    BY FitsFacts DEF Leaves, Branches, Stems
  <1>2. DiffChangesAsLists = Four(20, 80, 90, "diff", "removals", "changes")
    BY DEF DiffChangesAsLists, Four
  <1>3. /\ 20 \in 0..100 /\ 80 \in 20..100 /\ 90 \in 80..100
    OBVIOUS
  <1>4. JobOK("DiffChangesAsLists", Four(20, 80, 90, "diff", "removals", "changes"), counts)
    BY <1>1, <1>3, FourOK
  <1> QED
    BY <1>2, <1>4

LEMMA ApplyOK ==
  ASSUME NEW counts
  PROVE  JobOK("Apply", Apply, counts)
  <1>1. Fits("importChanges", "Apply") /\ Fits("changes", "Apply") /\ Fits("removing", "Apply")
    BY FitsFacts DEF Leaves, Branches, Stems
  <1>2. Apply = Four(10, 20, 90, "importChanges", "changes", "removing")
    BY DEF Apply, Four
  <1>3. /\ 10 \in 0..100 /\ 20 \in 10..100 /\ 90 \in 20..100
    OBVIOUS
  <1>4. JobOK("Apply", Four(10, 20, 90, "importChanges", "changes", "removing"), counts)
    BY <1>1, <1>3, FourOK
  <1> QED
    BY <1>2, <1>4

LEMMA UnpackOK ==
  ASSUME NEW counts
  PROVE  JobOK("Unpack", Unpack, counts)
  <1>1. Fits("group", "Unpack") /\ Fits("rebuilding", "Unpack") /\ Fits("ExportToFile", "Unpack")
    BY FitsFacts DEF Leaves, Branches, Stems
  <1>2. Unpack = Four(20, 40, 80, "group", "rebuilding", "ExportToFile")
    BY DEF Unpack, Four
  <1>3. /\ 20 \in 0..100 /\ 40 \in 20..100 /\ 80 \in 40..100
    OBVIOUS
  <1>4. JobOK("Unpack", Four(20, 40, 80, "group", "rebuilding", "ExportToFile"), counts)
    BY <1>1, <1>3, FourOK
  <1> QED
    BY <1>2, <1>4

LEMMA CreatePatchOK ==
  ASSUME NEW counts
  PROVE  JobOK("CreatePatch", CreatePatch, counts)
  <1> DEFINE b == Nested(20, 20, "diff")
  <1>1. /\ Fits("diff", "CreatePatch") /\ Fits("patches", "CreatePatch")
        /\ Fits("exportChanges", "CreatePatch") /\ Fits("exportPatches", "CreatePatch")
    BY FitsFacts DEF Leaves, Branches, Stems
  <1>2. CreatePatch = Five(20, 40, 60, 80, b, "patches", "exportChanges", "exportPatches")
    BY DEF CreatePatch, Five
  <1>3. /\ 20 \in 0..100 /\ 40 \in 20..100 /\ 60 \in 40..100 /\ 80 \in 60..100
    OBVIOUS
  <1>4. Covers("CreatePatch", b, 20, 40)
    <2>1. 20 \in Int /\ 40 \in Int /\ 20 \in Int /\ 20 = 40 - 20
      OBVIOUS
    <2> QED
      BY <1>1, <2>1, NestedCovers
  <1> HIDE DEF b
  <1>5. JobOK("CreatePatch", Five(20, 40, 60, 80, b, "patches", "exportChanges", "exportPatches"), counts)
    BY <1>1, <1>3, <1>4, FiveOK
  <1> QED
    BY <1>2, <1>5

LEMMA CreateBundleOK ==
  ASSUME NEW counts
  PROVE  JobOK("CreateBundle", CreateBundle, counts)
  <1> DEFINE b == Part(5, 40)
  <1>1. /\ Fits("resources", "CreateBundle")
        /\ Fits("export", "CreateBundle") /\ Fits("exportChunks", "CreateBundle")
    BY FitsFacts DEF Leaves, Branches, Stems
  <1>2. CreateBundle = Five(5, 45, 80, 90, b, "resources", "export", "exportChunks")
    BY DEF CreateBundle, Five
  <1>3. /\ 5 \in 0..100 /\ 45 \in 5..100 /\ 80 \in 45..100 /\ 90 \in 80..100
    OBVIOUS
  <1>4. Covers("CreateBundle", b, 5, 45)
    <2>1. 5 \in Int /\ 45 \in Int /\ 40 \in Int /\ 40 = 45 - 5
      OBVIOUS
    <2> QED
      BY <1>1, <2>1, PartCovers
  <1> HIDE DEF b
  <1>5. JobOK("CreateBundle", Five(5, 45, 80, 90, b, "resources", "export", "exportChunks"), counts)
    BY <1>1, <1>3, <1>4, FiveOK
  <1> QED
    BY <1>2, <1>5
---------------------------------------------------------------------------
\* Every line of the table is in order.
LEMMA TableOK ==
  ASSUME NEW counts \in CountsOfCalls, counts.changed + counts.added <= counts.latest,
         NEW job \in Jobs
  PROVE  JobOK(job, Steps(job, counts), counts)
  <1>0. /\ counts.latest \in Nat /\ counts.added \in Nat /\ counts.changed \in Nat
        /\ counts.removed \in Nat /\ counts.patches \in Nat
    BY DEF CountsOfCalls
  <1>1. CASE job = "ImportFromFile"
    <2>1. Steps(job, counts) = ImportFromFile
      BY <1>1 DEF Steps
    <2> QED
      BY <1>1, <2>1, PairsOK
  <1>2. CASE job = "ImportFromCsvFile"
    <2>1. Steps(job, counts) = ImportFromCsvFile
      BY <1>2 DEF Steps
    <2> QED
      BY <1>2, <2>1, PairsOK
  <1>3. CASE job = "ExportToFile"
    <2>1. Steps(job, counts) = ExportToFile
      BY <1>3 DEF Steps
    <2> QED
      BY <1>3, <2>1, PairsOK
  <1>4. CASE job = "ExportToCsvFile"
    <2>1. Steps(job, counts) = ExportToCsvFile
      BY <1>4 DEF Steps
    <2> QED
      BY <1>4, <2>1, PairsOK
  <1>5. CASE job = "CreateFromDirectory"
    <2>1. Steps(job, counts) = CreateFromDirectory
      BY <1>5 DEF Steps
    <2> QED
      BY <1>5, <2>1, PairsOK
  <1>6. CASE job = "Merge"
    <2>1. Steps(job, counts) = Merge
      BY <1>6 DEF Steps
    <2> QED
      BY <1>6, <2>1, PairsOK
  <1>7. CASE job = "RemoveResources"
    <2>1. Steps(job, counts) = RemoveResources
      BY <1>7 DEF Steps
    <2> QED
      BY <1>7, <2>1, PairsOK
  <1>8. CASE job = "csv"
    <2>1. Steps(job, counts) = ImportFromCSV
      BY <1>8 DEF Steps
    <2> QED
      BY <1>8, <2>1, PairsOK
  <1>9. CASE job = "group"
    <2>1. Steps(job, counts) = CreateResourceGroupFromYamlString
      BY <1>9 DEF Steps
    <2> QED
      BY <1>9, <2>1, PairsOK
  <1>10. CASE job = "exportCsv"
    <2>1. Steps(job, counts) = ExportCsv
      BY <1>10 DEF Steps
    <2> QED
      BY <1>10, <2>1, PairsOK
  <1>11. CASE job = "export"
    <2>1. Steps(job, counts) = ExportYaml("resources")
      BY <1>11 DEF Steps
    <2> QED
      BY <1>11, <2>1, PairsOK
  <1>12. CASE job = "exportChanges"
    <2>1. Steps(job, counts) = ExportYaml("changes")
      BY <1>12 DEF Steps
    <2> QED
      BY <1>12, <2>1, PairsOK
  <1>13. CASE job = "exportPatches"
    <2>1. Steps(job, counts) = ExportYaml("patchList")
      BY <1>13 DEF Steps
    <2> QED
      BY <1>13, <2>1, PairsOK
  <1>14. CASE job = "exportChunks"
    <2>1. Steps(job, counts) = ExportYaml("chunkList")
      BY <1>14 DEF Steps
    <2> QED
      BY <1>14, <2>1, PairsOK
  <1>15. CASE job = "yaml"
    <2>1. Steps(job, counts) = ImportFromYaml("resources")
      BY <1>15 DEF Steps
    <2>2. Fits("resources", "yaml")
      BY FitsFacts DEF Leaves, Branches
    <2> QED
      BY <1>15, <2>1, <2>2, YamlOK
  <1>16. CASE job = "importChanges"
    <2>1. Steps(job, counts) = ImportFromYaml("changes")
      BY <1>16 DEF Steps
    <2>2. Fits("changes", "importChanges")
      BY FitsFacts DEF Leaves, Branches
    <2> QED
      BY <1>16, <2>1, <2>2, YamlOK
  <1>17. CASE job = "diff"
    <2>1. Steps(job, counts) = Diff
      BY <1>17 DEF Steps
    <2> QED
      BY <1>17, <2>1, DiffOK
  <1>18. CASE job = "DiffChangesAsLists"
    <2>1. Steps(job, counts) = DiffChangesAsLists
      BY <1>18 DEF Steps
    <2> QED
      BY <1>18, <2>1, DiffChangesAsListsOK
  <1>19. CASE job = "CreatePatch"
    <2>1. Steps(job, counts) = CreatePatch
      BY <1>19 DEF Steps
    <2> QED
      BY <1>19, <2>1, CreatePatchOK
  <1>20. CASE job = "Apply"
    <2>1. Steps(job, counts) = Apply
      BY <1>20 DEF Steps
    <2> QED
      BY <1>20, <2>1, ApplyOK
  <1>21. CASE job = "CreateBundle"
    <2>1. Steps(job, counts) = CreateBundle
      BY <1>21 DEF Steps
    <2> QED
      BY <1>21, <2>1, CreateBundleOK
  <1>22. CASE job = "Unpack"
    <2>1. Steps(job, counts) = Unpack
      BY <1>22 DEF Steps
    <2> QED
      BY <1>22, <2>1, UnpackOK
  <1>23. CASE job = "lines"
    <2>1. Steps(job, counts) = ImportedLines(counts)
      BY <1>23 DEF Steps
    <2> QED
      BY <1>23, <2>1, ImportedLinesOK
  <1>24. CASE job = "files"
    <2>1. Steps(job, counts) = ProcessedFiles(counts)
      BY <1>24 DEF Steps
    <2> QED
      BY <1>24, <2>1, ProcessedFilesOK
  <1>25. CASE job = "patches"
    <2>1. Steps(job, counts) = GeneratedPatches(counts)
      BY <1>25 DEF Steps
    <2> QED
      BY <1>25, <2>1, GeneratedPatchesOK
  <1>26. CASE job = "removing"
    <2>1. Steps(job, counts) = RemovedFiles(counts)
      BY <1>26 DEF Steps
    <2> QED
      BY <1>26, <2>1, RemovedFilesOK
  <1>27. CASE job = "rebuilding"
    <2>1. Steps(job, counts) = RebuiltResources(counts)
      BY <1>27 DEF Steps
    <2> QED
      BY <1>27, <2>1, RebuiltResourcesOK
  <1>28. CASE job = "resources"
    <2> DEFINE n == counts.latest
               of == counts.latest
    <2>1. Steps(job, counts) = Turns(n, of)
      BY <1>28 DEF Steps, Resources
    <2>2. n \in Int /\ of \in Nat /\ (~ ManyRemoved(job, counts) => n <= of)
      BY <1>0
    <2> HIDE DEF n, of
    <2> QED
      BY <2>1, <2>2, TurnsOK
  <1>29. CASE job = "union"
    <2> DEFINE n == counts.latest + counts.removed
               of == counts.latest + counts.removed
    <2>1. Steps(job, counts) = Turns(n, of)
      BY <1>29 DEF Steps, MergedResources
    <2>2. n \in Int /\ of \in Nat /\ (~ ManyRemoved(job, counts) => n <= of)
      BY <1>0
    <2> HIDE DEF n, of
    <2> QED
      BY <2>1, <2>2, TurnsOK
  <1>30. CASE job = "removals"
    <2> DEFINE n == counts.removed
               of == counts.removed
    <2>1. Steps(job, counts) = Turns(n, of)
      BY <1>30 DEF Steps, RemovedResources
    <2>2. n \in Int /\ of \in Nat /\ (~ ManyRemoved(job, counts) => n <= of)
      BY <1>0
    <2> HIDE DEF n, of
    <2> QED
      BY <2>1, <2>2, TurnsOK
  <1>31. CASE job = "common"
    <2> DEFINE n == counts.latest - counts.added
               of == counts.latest
    <2>1. Steps(job, counts) = Turns(n, of)
      BY <1>31 DEF Steps, CommonResources
    <2>2. n \in Int /\ of \in Nat /\ (~ ManyRemoved(job, counts) => n <= of)
      BY <1>0
    <2> HIDE DEF n, of
    <2> QED
      BY <2>1, <2>2, TurnsOK
  <1>32. CASE job = "added"
    <2> DEFINE n == counts.added
               of == counts.latest
    <2>1. Steps(job, counts) = Turns(n, of)
      BY <1>32 DEF Steps, AddedResources
    <2>2. n \in Int /\ of \in Nat /\ (~ ManyRemoved(job, counts) => n <= of)
      BY <1>0
    <2> HIDE DEF n, of
    <2> QED
      BY <2>1, <2>2, TurnsOK
  <1>33. CASE job = "removed"
    <2> DEFINE n == counts.removed
               of == counts.latest
    <2>1. Steps(job, counts) = Turns(n, of)
      BY <1>33 DEF Steps, RemovedByDiff
    <2>2. n \in Int /\ of \in Nat /\ (~ ManyRemoved(job, counts) => n <= of)
      BY <1>0, <1>33 DEF ManyRemoved
    <2> HIDE DEF n, of
    <2> QED
      BY <2>1, <2>2, TurnsOK
  <1>34. CASE job = "changes"
    <2> DEFINE n == counts.changed + counts.added
               of == counts.changed + counts.added
    <2>1. Steps(job, counts) = Turns(n, of)
      BY <1>34 DEF Steps, Changes
    <2>2. n \in Int /\ of \in Nat /\ (~ ManyRemoved(job, counts) => n <= of)
      BY <1>0
    <2> HIDE DEF n, of
    <2> QED
      BY <2>1, <2>2, TurnsOK
  <1>35. CASE job = "patchList"
    <2> DEFINE n == counts.patches
               of == counts.patches
    <2>1. Steps(job, counts) = Turns(n, of)
      BY <1>35 DEF Steps, Patches
    <2>2. n \in Int /\ of \in Nat /\ (~ ManyRemoved(job, counts) => n <= of)
      BY <1>0
    <2> HIDE DEF n, of
    <2> QED
      BY <2>1, <2>2, TurnsOK
  <1>36. CASE job = "chunkList"
    <2> DEFINE n == 1
               of == 1
    <2>1. Steps(job, counts) = Turns(n, of)
      BY <1>36 DEF Steps
    <2>2. n \in Int /\ of \in Nat /\ (~ ManyRemoved(job, counts) => n <= of)
      BY <1>0
    <2> HIDE DEF n, of
    <2> QED
      BY <2>1, <2>2, TurnsOK
  <1> QED
    BY <1>1, <1>2, <1>3, <1>4, <1>5, <1>6, <1>7, <1>8, <1>9, <1>10, <1>11, <1>12, <1>13, <1>14, <1>15, <1>16, <1>17, <1>18, <1>19, <1>20, <1>21, <1>22, <1>23, <1>24, <1>25, <1>26, <1>27, <1>28, <1>29, <1>30, <1>31, <1>32, <1>33, <1>34, <1>35, <1>36 DEF Jobs, Leaves, Branches, Stems
---------------------------------------------------------------------------
\* A warning is nowhere: it has no progress.
Lasts ==
  {r \in [type : {"UNBOUNDED", "PERCENTAGE", "WARNING", "START", "END"},
          progress : Percentages, size : Percentages] :
     r.type = "WARNING" => r.progress = 0 /\ r.size = 0}

Objects == [job : Jobs, next : Nat, linked : BOOLEAN, last : Lasts]

StepsOf(c, settings) == Steps(settings.job, c.counts)

\* What only some operations do.
Origin(c, job) ==
  /\ job \in {"removed", "diff"} => c.operation \in {"CreatePatch", "DiffChangesAsLists"}
  /\ job = "files" => c.operation = "CreateFromDirectory"
  /\ job \in {"CreatePatch", "DiffChangesAsLists", "CreateFromDirectory"} => c.operation = job

\* Level d of a call is heard.
Heard(c, d) == c.listening /\ (c.verbosity = -1 \/ d <= c.verbosity)

\* The d-th object: it is linked if the one above is heard, not too deep for
\* its height, and if there is one below, it has just handed on a part.
ObjectOK(c, s, d) ==
  /\ s[d].next <= Len(StepsOf(c, s[d])) + 1
  /\ s[d].linked <=> c.listening /\ (d = 1 \/ Heard(c, d - 1))
  /\ Height(s[d].job) <= 5 - d
  /\ Origin(c, s[d].job)
  /\ d = 1 => s[d].job = c.operation
  /\ d < Len(s) => /\ s[d].next >= 2
                   /\ StepsOf(c, s[d])[s[d].next - 1].nested = s[d + 1].job
                   /\ s[d + 1].job # NoJob

StackOK(c, s) ==
  /\ s \in Seq(Objects)
  /\ \A d \in 1..Len(s) : ObjectOK(c, s, d)

StackInv == call \in Calls /\ returning \in BOOLEAN /\ StackOK(call, stack)

LEMMA CallFacts ==
  ASSUME NEW c \in Calls
  PROVE  /\ c.operation \in Operations /\ c.operation \in Jobs
         /\ c.counts \in CountsOfCalls /\ c.counts.changed + c.counts.added <= c.counts.latest
         /\ c.verbosity \in Int /\ c.listening \in BOOLEAN
         /\ Height(c.operation) <= 4
         /\ c.operation # "removing"
         /\ Origin(c, c.operation)
  <1>1. /\ c.operation \in Operations
        /\ c.counts \in CountsOfCalls /\ c.counts.changed + c.counts.added <= c.counts.latest
        /\ c.verbosity \in Int /\ c.listening \in BOOLEAN
    BY CallsAssumption
  <1>2. \A job \in Operations : job \in Jobs /\ job # "removing" /\ job \notin {"removed", "diff", "files"}
    BY DEF Operations, Jobs, Leaves, Branches, Stems
  <1>3. Origin(c, c.operation)
    BY <1>1, <1>2 DEF Origin
  <1>4. Height(c.operation) <= 4
    BY DEF Height
  <1> QED
    BY <1>1, <1>2, <1>3, <1>4

LEMMA HeightIs ==
  ASSUME NEW job PROVE Height(job) \in 1..4
  BY DEF Height

\* The facts of the table about the object of a job.
LEMMA JobStepsFacts ==
  ASSUME NEW c \in Calls, NEW job \in Jobs
  PROVE  JobOK(job, Steps(job, c.counts), c.counts)
  BY CallFacts, TableOK

\* A step a job is about to take.
LEMMA NextStepFacts ==
  ASSUME NEW c \in Calls, NEW o \in Objects, o.next \in DOMAIN StepsOf(c, o)
  PROVE  LET step == StepsOf(c, o)[o.next]
         IN  /\ o.next \in 1..Len(StepsOf(c, o))
             /\ step \in StepRecords
             /\ step.up = 1 => o.job = "removing"
             /\ step.nested # NoJob => NestedOK(o.job, StepsOf(c, o), o.next)
  <1> DEFINE s == StepsOf(c, o)
  <1>1. o.job \in Jobs /\ o.next \in Nat
    BY DEF Objects
  <1>2. JobOK(o.job, s, c.counts)
    BY <1>1, JobStepsFacts DEF StepsOf
  <1> HIDE DEF s
  <1>3. s \in Seq(StepRecords)
    BY <1>2 DEF JobOK
  <1>4. DOMAIN s = 1..Len(s)
    BY <1>3
  <1>5. o.next \in 1..Len(s)
    BY <1>4 DEF s
  <1>6. s[o.next] \in StepRecords
    BY <1>3, <1>5
  <1>7. /\ s[o.next].up = 1 => o.job = "removing"
        /\ s[o.next].nested # NoJob => NestedOK(o.job, s, o.next)
    BY <1>2, <1>5 DEF JobOK
  <1> QED
    BY <1>5, <1>6, <1>7 DEF s

\* The last update of an object, and the step it takes.
WithLast(s, d, step) ==
  [s EXCEPT ![d].last = [type |-> step.type, progress |-> step.progress, size |-> step.size]]

LastOf(step) == [type |-> step.type, progress |-> step.progress, size |-> step.size]

LEMMA WithLastFacts ==
  ASSUME NEW s \in Seq(Objects), NEW d \in 1..Len(s), NEW step, LastOf(step) \in Lasts
  PROVE  LET t == WithLast(s, d, step)
         IN  /\ t \in Seq(Objects) /\ Len(t) = Len(s)
             /\ \A k \in 1..Len(s) : /\ t[k].job = s[k].job /\ t[k].next = s[k].next
                                     /\ t[k].linked = s[k].linked
                                     /\ k # d => t[k].last = s[k].last
             /\ t[d].last = LastOf(step)
  <1> DEFINE t == WithLast(s, d, step)
             l == LastOf(step)
  <1>1. t = [s EXCEPT ![d].last = l]
    BY DEF WithLast, LastOf
  <1> HIDE DEF t, l
  <1>2. s[d] \in Objects
    OBVIOUS
  <1>3. [s[d] EXCEPT !.last = l] \in Objects
    BY <1>2 DEF Objects, l
  <1>4. t = [s EXCEPT ![d] = [s[d] EXCEPT !.last = l]]
    BY <1>1
  <1>5. t \in Seq(Objects) /\ Len(t) = Len(s)
    BY <1>3, <1>4
  <1>6. ASSUME NEW k \in 1..Len(s), k # d PROVE t[k] = s[k]
    BY <1>4, <1>6
  <1>7. t[d] = [s[d] EXCEPT !.last = l]
    BY <1>4
  <1>8. t[d].job = s[d].job /\ t[d].next = s[d].next /\ t[d].linked = s[d].linked /\ t[d].last = l
    BY <1>2, <1>7 DEF Objects
  <1> QED
    BY <1>5, <1>6, <1>8 DEF t, l

LEMMA AdvancedFacts ==
  ASSUME NEW s \in Seq(Objects), s # <<>>
  PROVE  LET t == Advanced(s)
         IN  /\ t \in Seq(Objects) /\ Len(t) = Len(s)
             /\ \A k \in 1..Len(s) : /\ t[k].job = s[k].job /\ t[k].last = s[k].last
                                     /\ t[k].linked = s[k].linked
                                     /\ k # Len(s) => t[k].next = s[k].next
             /\ t[Len(s)].next = s[Len(s)].next + 1
  <1> DEFINE t == Advanced(s)
             d == Len(s)
  <1>1. d \in 1..Len(s) /\ s[d] \in Objects
    OBVIOUS
  <1>2. t = [s EXCEPT ![d] = [s[d] EXCEPT !.next = s[d].next + 1]]
    BY DEF Advanced
  <1> HIDE DEF t, d
  <1>3. s[d].next + 1 \in Nat
    BY <1>1 DEF Objects
  <1>4. [s[d] EXCEPT !.next = s[d].next + 1] \in Objects
    BY <1>1, <1>3 DEF Objects
  <1>5. t \in Seq(Objects) /\ Len(t) = Len(s)
    BY <1>1, <1>2, <1>4
  <1>6. ASSUME NEW k \in 1..Len(s), k # d PROVE t[k] = s[k]
    BY <1>2, <1>6
  <1>7. t[d] = [s[d] EXCEPT !.next = s[d].next + 1]
    BY <1>1, <1>2
  <1>8. /\ t[d].job = s[d].job /\ t[d].next = s[d].next + 1
        /\ t[d].linked = s[d].linked /\ t[d].last = s[d].last
    BY <1>1, <1>7 DEF Objects
  <1> QED
    BY <1>5, <1>6, <1>8 DEF t, d

\* The innermost job takes a step, and the e-th object is told (none, if e
\* is 0).
Moved(s, t, e, last) ==
  /\ t \in Seq(Objects)
  /\ Len(t) = Len(s)
  /\ \A k \in 1..Len(s) : /\ t[k].job = s[k].job
                          /\ t[k].linked = s[k].linked
                          /\ k # Len(s) => t[k].next = s[k].next
                          /\ k # e => t[k].last = s[k].last
                          /\ k = e => t[k].last = last
  /\ t[Len(s)].next = s[Len(s)].next + 1

LEMMA SilentMove ==
  ASSUME NEW s \in Seq(Objects), s # <<>>, NEW last
  PROVE  Moved(s, Advanced(s), 0, last)
  <1>1. \A k \in 1..Len(s) : k # 0
    OBVIOUS
  <1> QED
    BY <1>1, AdvancedFacts DEF Moved

LEMMA ToldMove ==
  ASSUME NEW s \in Seq(Objects), s # <<>>, NEW d \in 1..Len(s),
         NEW step, LastOf(step) \in Lasts
  PROVE  Moved(s, Advanced(WithLast(s, d, step)), d, LastOf(step))
  <1> DEFINE u == WithLast(s, d, step)
             t == Advanced(u)
             l == LastOf(step)
  <1>1. /\ u \in Seq(Objects) /\ Len(u) = Len(s)
        /\ \A k \in 1..Len(s) : /\ u[k].job = s[k].job /\ u[k].next = s[k].next
                                /\ u[k].linked = s[k].linked
                                /\ k # d => u[k].last = s[k].last
        /\ u[d].last = l
    BY WithLastFacts
  <1>2. u # <<>>
    BY <1>1
  <1> HIDE DEF u, l
  <1>3. /\ t \in Seq(Objects) /\ Len(t) = Len(u)
        /\ \A k \in 1..Len(u) : /\ t[k].job = u[k].job /\ t[k].last = u[k].last
                                /\ t[k].linked = u[k].linked
                                /\ k # Len(u) => t[k].next = u[k].next
        /\ t[Len(u)].next = u[Len(u)].next + 1
    BY <1>1, <1>2, AdvancedFacts
  <1>4. Len(s) \in 1..Len(s)
    OBVIOUS
  <1> HIDE DEF t
  <1>5. t \in Seq(Objects) /\ Len(t) = Len(s) /\ t[Len(s)].next = s[Len(s)].next + 1
    BY <1>1, <1>3, <1>4
  <1>6. \A k \in 1..Len(s) : /\ t[k].job = s[k].job
                             /\ k # Len(s) => t[k].next = s[k].next
                             /\ k # d => t[k].last = s[k].last
                             /\ k = d => t[k].last = l
    BY <1>1, <1>3
  <1>7. \A k \in 1..Len(s) : t[k].linked = s[k].linked
    BY <1>1, <1>3, Zenon
  <1>8. Moved(s, t, d, l)
    BY <1>5, <1>6, <1>7, Zenon DEF Moved
  <1> QED
    BY <1>8 DEF t, u, l

LEMMA MovedOK ==
  ASSUME NEW c, NEW s, StackOK(c, s), s # <<>>,
         s[Len(s)].next <= Len(StepsOf(c, s[Len(s)])), Len(StepsOf(c, s[Len(s)])) \in Nat,
         NEW t, NEW e, NEW last, Moved(s, t, e, last)
  PROVE  StackOK(c, t)
  <1> DEFINE n == Len(s)
  <1>1. s \in Seq(Objects) /\ n \in Nat
    BY DEF StackOK
  <1>2. /\ t \in Seq(Objects) /\ Len(t) = n
        /\ \A k \in 1..n : /\ t[k].job = s[k].job
                           /\ t[k].linked = s[k].linked
                           /\ k # n => t[k].next = s[k].next
        /\ t[n].next = s[n].next + 1
    BY Zenon DEF Moved
  <1>3. n \in 1..n /\ s[n] \in Objects
    BY <1>1
  <1>4. s[n].next \in Nat
    BY <1>3 DEF Objects
  <1>5. ASSUME NEW k \in 1..n PROVE ObjectOK(c, t, k)
    <2>1. ObjectOK(c, s, k)
      BY <1>5 DEF StackOK
    <2>2. /\ t[k].job = s[k].job /\ t[k].linked = s[k].linked
          /\ StepsOf(c, t[k]) = StepsOf(c, s[k])
      BY <1>2, <1>5 DEF StepsOf
    <2>3. k < n => t[k + 1].job = s[k + 1].job
      <3>1. k < n => k + 1 \in 1..n
        BY <1>1, <1>5
      <3> QED
        BY <1>2, <3>1
    <2>4. /\ Height(t[k].job) <= 5 - k
          /\ Origin(c, t[k].job)
          /\ k = 1 => t[k].job = c.operation
      BY <2>1, <2>2 DEF ObjectOK
    <2>5. t[k].linked <=> c.listening /\ (k = 1 \/ Heard(c, k - 1))
      BY <2>1, <2>2 DEF ObjectOK
    <2>6. k < n => /\ t[k].next >= 2
                   /\ StepsOf(c, t[k])[t[k].next - 1].nested = t[k + 1].job
                   /\ t[k + 1].job # NoJob
      BY <1>2, <2>1, <2>2, <2>3 DEF ObjectOK
    <2>7. t[k].next <= Len(StepsOf(c, t[k])) + 1
      <3>1. CASE k = n
        BY <3>1, <1>2, <1>4, <2>2
      <3>2. CASE k # n
        BY <3>2, <1>2, <2>1, <2>2 DEF ObjectOK
      <3> QED
        BY <3>1, <3>2
    <2> QED
      BY <1>2, <2>4, <2>5, <2>6, <2>7 DEF ObjectOK
  <1> QED
    BY <1>2, <1>5 DEF StackOK

LEMMA SettingsFacts ==
  ASSUME NEW job \in Jobs, NEW linked \in BOOLEAN
  PROVE  /\ Settings(job, linked) \in Objects
         /\ Settings(job, linked).job = job /\ Settings(job, linked).next = 0
         /\ Settings(job, linked).linked <=> linked
         /\ Settings(job, linked).last.progress = 0
         /\ Settings(job, linked).last.size = 0
         /\ Settings(job, linked).last.type = "UNBOUNDED"
  BY DEF Settings, Objects, Lasts, Percentages

\* A job that is handed on.
LEMMA AppendOK ==
  ASSUME NEW c \in Calls, NEW s, StackOK(c, s), s # <<>>, NEW o, o = s[Len(s)],
         o.next >= 2, NEW job, job = StepsOf(c, o)[o.next - 1].nested,
         job # NoJob, Fits(job, o.job), NEW linked \in BOOLEAN, linked <=> Heard(c, Len(s))
  PROVE  StackOK(c, Append(s, Settings(job, linked)))
  <1> DEFINE n == Len(s)
             e == Settings(job, linked)
             t == Append(s, e)
  <1>1. s \in Seq(Objects) /\ n \in Nat /\ n \in 1..n
    BY DEF StackOK
  <1>2. job \in Jobs /\ Height(job) < Height(o.job) /\ Belongs(job, o.job)
    BY DEF Fits
  <1>3. e \in Objects /\ e.job = job /\ e.next = 0 /\ (e.linked <=> linked)
    BY <1>2, SettingsFacts
  <1> HIDE DEF e
  <1>4. /\ t \in Seq(Objects) /\ Len(t) = n + 1 /\ t[n + 1] = e
        /\ \A k \in 1..n : t[k] = s[k]
    BY <1>1, <1>3
  <1>5. ObjectOK(c, s, n)
    BY <1>1 DEF StackOK
  <1> HIDE DEF t
  <1>6. ASSUME NEW k \in 1..n PROVE ObjectOK(c, t, k)
    <2>1. ObjectOK(c, s, k)
      BY <1>6 DEF StackOK
    <2>2. t[k] = s[k]
      BY <1>4, <1>6
    <2>3. k < Len(t) => /\ s[k].next >= 2
                        /\ StepsOf(c, s[k])[s[k].next - 1].nested = t[k + 1].job
                        /\ t[k + 1].job # NoJob
      <3>1. CASE k = n
        BY <1>3, <1>4, <3>1
      <3>2. CASE k # n
        <4>1. k < Len(s) /\ k + 1 \in 1..n
          BY <1>1, <1>6, <3>2
        <4>2. t[k + 1] = s[k + 1]
          BY <1>4, <4>1
        <4> QED
          BY <2>1, <4>1, <4>2 DEF ObjectOK
      <3> QED
        BY <3>1, <3>2
    <2>4. /\ s[k].next <= Len(StepsOf(c, s[k])) + 1
          /\ Height(s[k].job) <= 5 - k
          /\ Origin(c, s[k].job)
          /\ k = 1 => s[k].job = c.operation
      BY <2>1 DEF ObjectOK
    <2>5. s[k].linked <=> c.listening /\ (k = 1 \/ Heard(c, k - 1))
      BY <2>1 DEF ObjectOK
    <2> QED
      BY <2>2, <2>3, <2>4, <2>5 DEF ObjectOK
  <1>7. ObjectOK(c, t, n + 1)
    <2>1. JobOK(job, Steps(job, c.counts), c.counts)
      BY <1>2, JobStepsFacts
    <2>2. Len(StepsOf(c, e)) \in Nat
      <3>1. Steps(job, c.counts) \in Seq(StepRecords)
        BY <2>1 DEF JobOK
      <3>2. StepsOf(c, e) = Steps(job, c.counts)
        BY <1>3 DEF StepsOf
      <3> QED
        BY <3>1, <3>2, LenProperties
    <2>3. e.next <= Len(StepsOf(c, e)) + 1
      BY <1>3, <2>2
    <2>4. Height(job) <= 5 - (n + 1)
      <3>1. Height(o.job) <= 5 - n
        BY <1>5 DEF ObjectOK
      <3>2. Height(job) \in Int /\ Height(o.job) \in Int
        BY HeightIs
      <3> QED
        BY <1>1, <1>2, <3>1, <3>2
    <2>5. Origin(c, job)
      <3>1. Origin(c, o.job)
        BY <1>5 DEF ObjectOK
      <3> QED
        BY <1>2, <3>1 DEF Origin, Belongs
    <2>6. e.linked <=> c.listening /\ (n + 1 = 1 \/ Heard(c, (n + 1) - 1))
      <3>1. n + 1 # 1 /\ (n + 1) - 1 = n
        BY <1>1
      <3>2. Heard(c, n) => c.listening
        BY DEF Heard
      <3> QED
        BY <1>3, <3>1, <3>2
    <2>7. n + 1 # 1 /\ ~ (n + 1 < Len(t))
      BY <1>1, <1>4
    <2> QED
      BY <1>3, <1>4, <2>3, <2>4, <2>5, <2>6, <2>7 DEF ObjectOK
  <1>8. StackOK(c, t)
    <2>1. \A k \in 1..Len(t) : k \in 1..n \/ k = n + 1
      BY <1>1, <1>4
    <2> QED
      BY <1>4, <1>6, <1>7, <2>1 DEF StackOK
  <1> QED
    BY <1>8 DEF t, e

LEMMA FrontFacts ==
  ASSUME NEW S, NEW s \in Seq(S), s # <<>>
  PROVE  /\ Front(s) \in Seq(S) /\ Len(Front(s)) = Len(s) - 1
         /\ \A k \in 1..(Len(s) - 1) : Front(s)[k] = s[k]
  <1> DEFINE n == Len(s) - 1
  <1>1. n \in Nat /\ \A k \in 1..n : s[k] \in S
    OBVIOUS
  <1>2. Front(s) = SubSeq(s, 1, n)
    BY DEF Front
  <1> HIDE DEF n
  <1>3. /\ SubSeq(s, 1, n) \in Seq(S)
        /\ Len(SubSeq(s, 1, n)) = IF 1 <= n THEN n - 1 + 1 ELSE 0
        /\ \A k \in 1..(n - 1 + 1) : SubSeq(s, 1, n)[k] = s[1 + k - 1]
    BY <1>1, SubSeqProperties
  <1>4. /\ (IF 1 <= n THEN n - 1 + 1 ELSE 0) = n /\ n - 1 + 1 = n
        /\ \A k \in 1..n : 1 + k - 1 = k
    BY <1>1
  <1>5. Len(SubSeq(s, 1, n)) = n
    BY <1>3, <1>4
  <1>6. \A k \in 1..n : SubSeq(s, 1, n)[k] = s[k]
    BY <1>3, <1>4
  <1> QED
    BY <1>2, <1>3, <1>5, <1>6 DEF n

\* The innermost function returns.
LEMMA FrontOK ==
  ASSUME NEW c, NEW s, StackOK(c, s), s # <<>>
  PROVE  StackOK(c, Front(s))
  <1> DEFINE t == Front(s)
             n == Len(s)
  <1>1. s \in Seq(Objects) /\ n \in Nat /\ n # 0
    BY DEF StackOK
  <1>2. t \in Seq(Objects) /\ Len(t) = n - 1 /\ \A k \in 1..(n - 1) : t[k] = s[k]
    BY <1>1, FrontFacts
  <1> HIDE DEF t
  <1>3. ASSUME NEW k \in 1..(n - 1) PROVE ObjectOK(c, t, k)
    <2>1. ObjectOK(c, s, k) /\ k < Len(s)
      BY <1>1, <1>3 DEF StackOK
    <2>2. k < Len(t) => t[k + 1] = s[k + 1]
      BY <1>1, <1>2, <1>3
    <2>3. t[k] = s[k]
      BY <1>2, <1>3
    <2>4. /\ s[k].next <= Len(StepsOf(c, s[k])) + 1
          /\ Height(s[k].job) <= 5 - k
          /\ Origin(c, s[k].job)
          /\ k = 1 => s[k].job = c.operation
      BY <2>1 DEF ObjectOK
    <2>5. s[k].linked <=> c.listening /\ (k = 1 \/ Heard(c, k - 1))
      BY <2>1 DEF ObjectOK
    <2>6. /\ s[k].next >= 2
          /\ StepsOf(c, s[k])[s[k].next - 1].nested = s[k + 1].job
          /\ s[k + 1].job # NoJob
      BY <2>1 DEF ObjectOK
    <2> QED
      BY <2>2, <2>3, <2>4, <2>5, <2>6 DEF ObjectOK
  <1>4. StackOK(c, t)
    BY <1>2, <1>3 DEF StackOK
  <1> QED
    BY <1>4 DEF t
---------------------------------------------------------------------------
(* The stack of objects, and what the caller has been told of it.          *)

\* What StackInv says of the object on level d.
LEMMA LevelFacts ==
  ASSUME StackInv, NEW d \in 1..Depth
  PROVE  /\ call \in Calls
         /\ Depth \in Nat /\ stack \in Seq(Objects)
         /\ stack[d] \in Objects /\ stack[d].next \in Nat /\ stack[d].job \in Jobs
         /\ stack[d].last \in Lasts
         /\ ObjectOK(call, stack, d)
         /\ JobOK(stack[d].job, JobSteps(stack[d]), call.counts)
         /\ JobSteps(stack[d]) \in Seq(StepRecords)
         /\ Len(JobSteps(stack[d])) \in Nat
         /\ DOMAIN JobSteps(stack[d]) = 1..Len(JobSteps(stack[d]))
         /\ stack[d].next <= Len(JobSteps(stack[d])) + 1
  <1>1. call \in Calls /\ stack \in Seq(Objects)
    BY DEF StackInv, StackOK
  <1>2. Depth \in Nat /\ stack[d] \in Objects
    BY <1>1 DEF Depth
  <1>3. ObjectOK(call, stack, d)
    BY DEF StackInv, StackOK, Depth
  <1>4. stack[d].next \in Nat /\ stack[d].job \in Jobs /\ stack[d].last \in Lasts
    BY <1>2 DEF Objects
  <1>5. JobOK(stack[d].job, JobSteps(stack[d]), call.counts)
    BY <1>1, <1>4, JobStepsFacts DEF JobSteps
  <1>6. JobSteps(stack[d]) \in Seq(StepRecords)
    BY <1>5 DEF JobOK
  <1>7. /\ Len(JobSteps(stack[d])) \in Nat
        /\ DOMAIN JobSteps(stack[d]) = 1..Len(JobSteps(stack[d]))
    BY <1>6, LenProperties
  <1>8. stack[d].next <= Len(JobSteps(stack[d])) + 1
    BY <1>3 DEF ObjectOK, JobSteps, StepsOf
  <1> QED
    BY <1>1, <1>2, <1>3, <1>4, <1>5, <1>6, <1>7, <1>8

\* The two comparisons with the verbosity level: what is sent is what is heard.
LEMMA SendsHeard ==
  ASSUME StackInv, NEW d \in 1..Depth
  PROVE  /\ Sends(d) <=> Heard(call, d)
         /\ Heard(call, d) => RequiresStatusUpdates(d)
         /\ d > 1 /\ Heard(call, d) => Heard(call, d - 1)
         /\ Sends(d) \in BOOLEAN
  <1>1. call.listening \in BOOLEAN /\ call.verbosity \in Int /\ d \in Int
    BY LevelFacts, CallFacts
  <1>2. stack[d].linked <=> call.listening /\ (d = 1 \/ Heard(call, d - 1))
    BY LevelFacts DEF ObjectOK
  <1>3. /\ Heard(call, d) <=> call.listening /\ (call.verbosity = -1 \/ d <= call.verbosity)
        /\ Heard(call, d - 1) <=> call.listening /\ (call.verbosity = -1 \/ d - 1 <= call.verbosity)
    BY DEF Heard
  <1>4. /\ d <= call.verbosity <=> d - 1 < call.verbosity
        /\ d <= call.verbosity => d - 1 <= call.verbosity
    BY <1>1
  <1>5. Sends(d) <=> stack[d].linked /\ (call.verbosity = -1 \/ d - 1 < call.verbosity)
    BY DEF Sends
  <1>6. RequiresStatusUpdates(d) <=> stack[d].linked /\ (call.verbosity = -1 \/ d - 1 <= call.verbosity)
    BY DEF RequiresStatusUpdates
  <1>7. Sends(d) \in BOOLEAN
    BY DEF Sends
  <1> QED
    BY <1>2, <1>3, <1>4, <1>5, <1>6, <1>7

LEMMA HeardBelow ==
  ASSUME StackInv, NEW d \in 1..Depth, Heard(call, d), NEW k \in 1..d
  PROVE  Heard(call, k)
  <1>1. call.verbosity \in Int /\ d \in Int /\ k \in Int
    BY LevelFacts, CallFacts
  <1> QED
    BY <1>1 DEF Heard

\* The step the innermost job takes.
LEMMA RunningFacts ==
  ASSUME StackInv, Running
  PROVE  /\ Depth \in 1..Depth /\ stack # <<>> /\ Top.next \in Nat \ {0}
         /\ Top.next \in 1..Len(JobSteps(Top))
         /\ NextStep \in StepRecords /\ LastOf(NextStep) \in Lasts
         /\ NextStep.up = 1 => Depth - 1 \in 1..Depth /\ Top.job = "removing"
         /\ NextStep.nested # NoJob => NestedOK(Top.job, JobSteps(Top), Top.next)
  <1>1. call \in Calls /\ stack \in Seq(Objects)
    BY DEF StackInv, StackOK
  <1>2. Depth \in 1..Depth /\ Depth \in Nat /\ stack # <<>>
    BY <1>1 DEF Running, Depth
  <1>3. Top \in Objects /\ ObjectOK(call, stack, Depth)
    BY <1>2, LevelFacts DEF Top
  <1>4. Top.next \in DOMAIN StepsOf(call, Top)
    BY DEF Running, JobSteps, StepsOf
  <1>5. /\ Top.next \in 1..Len(JobSteps(Top))
        /\ NextStep \in StepRecords
        /\ NextStep.up = 1 => Top.job = "removing"
        /\ NextStep.nested # NoJob => NestedOK(Top.job, JobSteps(Top), Top.next)
    BY <1>1, <1>3, <1>4, NextStepFacts DEF NextStep, JobSteps, StepsOf
  <1>6. LastOf(NextStep) \in Lasts
    <2> DEFINE n == NextStep
    <2>1. n \in StepRecords
      BY <1>5
    <2> HIDE DEF n
    <2>2. LastOf(n) \in Lasts
      BY <2>1 DEF StepRecords, LastOf, Lasts
    <2> QED
      BY <2>2 DEF n
  <1>7. ASSUME NextStep.up = 1 PROVE Depth - 1 \in 1..Depth
    <2>1. Top.job = "removing"
      BY <1>5, <1>7
    <2>2. Depth # 1
      BY <1>1, <1>3, <2>1, CallFacts DEF ObjectOK, Top
    <2> QED
      BY <1>2, <2>2
  <1>8. Top.next \in Nat \ {0}
    BY <1>3, <1>5 DEF Objects
  <1> QED
    BY <1>2, <1>5, <1>6, <1>7, <1>8

\* The object that is told something, if the caller hears it.
Told(d) == IF Heard(call, d) THEN d ELSE 0

LEMMA ToldFacts ==
  ASSUME StackInv, stack # <<>>, NEW d \in 1..Depth, NEW step, LastOf(step) \in Lasts
  PROVE  Moved(stack, Advanced(AfterUpdate(d, step)), Told(d), LastOf(step))
  <1>1. stack \in Seq(Objects)
    BY DEF StackInv, StackOK
  <1>2. CASE Sends(d)
    <2>1. AfterUpdate(d, step) = WithLast(stack, d, step) /\ Told(d) = d
      BY <1>2, SendsHeard DEF AfterUpdate, Updated, WithLast, Told
    <2> QED
      BY <1>1, <2>1, ToldMove DEF Depth
  <1>3. CASE ~ Sends(d)
    <2>1. AfterUpdate(d, step) = stack /\ Told(d) = 0
      BY <1>3, SendsHeard DEF AfterUpdate, Told
    <2> QED
      BY <1>1, <2>1, SilentMove
  <1> QED
    BY <1>2, <1>3

StartStep == Update("START", 0, 0)

EndStep == Update("END", 100, 0)

LEMMA EdgeSteps ==
  /\ LastOf(StartStep) \in Lasts /\ LastOf(EndStep) \in Lasts
  /\ StartStep.type = "START" /\ StartStep.progress = 0 /\ StartStep.size = 0
  /\ EndStep.type = "END" /\ EndStep.progress = 100 /\ EndStep.size = 0
  BY DEF StartStep, EndStep, Update, LastOf, Lasts, Percentages

LEMMA StartMoves ==
  ASSUME StackInv, Start
  PROVE  /\ Depth \in 1..Depth /\ stack # <<>> /\ Top.next = 0
         /\ Moved(stack, stack', Told(Depth), LastOf(StartStep))
         /\ Tell(Depth, StartStep)
         /\ call' = call /\ returning' = returning
  <1>1. stack \in Seq(Objects)
    BY DEF StackInv, StackOK
  <1>2. Depth \in 1..Depth /\ stack # <<>>
    BY <1>1 DEF Start, Depth
  <1>3. stack' = Advanced(AfterUpdate(Depth, StartStep)) /\ Tell(Depth, StartStep)
    BY DEF Start, StartStep
  <1> QED
    BY <1>2, <1>3, ToldFacts, EdgeSteps DEF Start

LEMMA ProgressMoves ==
  ASSUME StackInv, Progress
  PROVE  /\ Moved(stack, stack', Told(Depth), LastOf(NextStep))
         /\ NextStep.type # "WARNING" /\ NextStep.nested = NoJob
         /\ Heard(call, Depth) => Tell(Depth, NextStep)
         /\ ~ Heard(call, Depth) => UNCHANGED <<heard, reached>>
         /\ UNCHANGED <<call, returning, open>>
  <1>1. stack \in Seq(Objects)
    BY DEF StackInv, StackOK
  <1>2. Running /\ NextStep.type # "WARNING" /\ NextStep.nested = NoJob
    BY DEF Progress
  <1>3. Depth \in 1..Depth /\ stack # <<>> /\ LastOf(NextStep) \in Lasts
    BY <1>2, RunningFacts
  <1>4. CASE NextStep.guarded => RequiresStatusUpdates(Depth)
    <2>1. /\ Tell(Depth, NextStep)
          /\ stack' = Advanced(AfterUpdate(Depth, NextStep))
      BY <1>4 DEF Progress
    <2>2. ~ Heard(call, Depth) => UNCHANGED <<heard, reached>>
      BY <1>3, <2>1, SendsHeard DEF Tell
    <2> QED
      BY <1>2, <1>3, <2>1, <2>2, ToldFacts DEF Progress
  <1>5. CASE ~ (NextStep.guarded => RequiresStatusUpdates(Depth))
    <2>1. ~ Heard(call, Depth)
      BY <1>3, <1>5, SendsHeard
    <2>2. stack' = Advanced(stack) /\ UNCHANGED <<heard, reached>> /\ Told(Depth) = 0
      BY <1>5, <2>1 DEF Progress, Told
    <2> QED
      BY <1>1, <1>2, <1>3, <2>1, <2>2, SilentMove DEF Progress
  <1> QED
    BY <1>4, <1>5

LEMMA WarnMoves ==
  ASSUME StackInv, Warn
  PROVE  /\ NextStep.type = "WARNING"
         /\ \/ /\ Moved(stack, stack', 0, LastOf(NextStep))
               /\ UNCHANGED <<heard, reached>>
            \/ \E d \in {Depth, Depth - 1} \cap 1..Depth :
                 /\ Moved(stack, stack', Told(d), LastOf(NextStep))
                 /\ Tell(d, NextStep)
         /\ UNCHANGED <<call, returning, open>>
  <1>1. stack \in Seq(Objects)
    BY DEF StackInv, StackOK
  <1>2. Running /\ NextStep.type = "WARNING"
    BY DEF Warn
  <1>3. /\ Depth \in 1..Depth /\ stack # <<>> /\ LastOf(NextStep) \in Lasts
        /\ NextStep \in StepRecords
        /\ NextStep.up = 1 => Depth - 1 \in 1..Depth
    BY <1>2, RunningFacts
  <1>4. CASE stack' = Advanced(stack) /\ UNCHANGED <<heard, reached>>
    <2>1. Moved(stack, stack', 0, LastOf(NextStep))
      BY <1>1, <1>3, <1>4, SilentMove
    <2> QED
      BY <1>2, <1>4, <2>1 DEF Warn
  <1>5. CASE LET d == Depth - NextStep.up
             IN  Tell(d, NextStep) /\ stack' = Advanced(AfterUpdate(d, NextStep))
    <2> DEFINE d == Depth - NextStep.up
    <2>1. NextStep.up \in {0, 1}
      BY <1>3 DEF StepRecords
    <2>2. d \in {Depth, Depth - 1} \cap 1..Depth
      BY <1>3, <2>1
    <2>3. Tell(d, NextStep) /\ stack' = Advanced(AfterUpdate(d, NextStep))
      BY <1>5
    <2> HIDE DEF d
    <2>4. Moved(stack, stack', Told(d), LastOf(NextStep))
      BY <1>3, <2>2, <2>3, ToldFacts
    <2> QED
      BY <1>2, <2>2, <2>3, <2>4 DEF Warn
  <1> QED
    BY <1>4, <1>5 DEF Warn

\* The stack between the update and the object that is made.
LEMMA OpenMoves ==
  ASSUME StackInv, OpenJob
  PROVE  /\ NestedOK(Top.job, JobSteps(Top), Top.next) /\ NextStep.nested # NoJob
         /\ Tell(Depth, NextStep)
         /\ \E t : /\ Moved(stack, t, Told(Depth), LastOf(NextStep))
                   /\ stack' = Append(t, Settings(NextStep.nested, Sends(Depth)))
         /\ UNCHANGED <<call, returning, open>>
  <1>1. Running /\ NextStep.nested # NoJob
    BY DEF OpenJob
  <1>2. /\ Depth \in 1..Depth /\ stack # <<>> /\ LastOf(NextStep) \in Lasts
        /\ NestedOK(Top.job, JobSteps(Top), Top.next)
    BY <1>1, RunningFacts
  <1> DEFINE t == Advanced(AfterUpdate(Depth, NextStep))
  <1>3. Moved(stack, t, Told(Depth), LastOf(NextStep))
    BY <1>2, ToldFacts
  <1>4. /\ Tell(Depth, NextStep)
        /\ stack' = Append(t, Settings(NextStep.nested, Sends(Depth)))
        /\ UNCHANGED <<call, returning, open>>
    BY DEF OpenJob
  <1> HIDE DEF t
  <1> QED
    BY <1>1, <1>2, <1>3, <1>4

LEMMA EndMoves ==
  ASSUME StackInv, End
  PROVE  /\ Depth \in 1..Depth /\ stack # <<>> /\ Top.next > 0
         /\ returning \/ Top.next = Len(JobSteps(Top)) + 1
         /\ stack' \in Seq(Objects) /\ Len(stack') = Depth - 1
         /\ \A k \in 1..(Depth - 1) : stack'[k] = stack[k]
         /\ Tell(Depth, EndStep)
         /\ open' = IF Heard(call, Depth) THEN Front(open) ELSE open
         /\ call' = call /\ returning' = returning
  <1>1. stack \in Seq(Objects)
    BY DEF StackInv, StackOK
  <1>2. Depth \in 1..Depth /\ stack # <<>> /\ Top.next > 0
    BY <1>1 DEF End, Depth
  <1>3. stack' = Front(stack) /\ Tell(Depth, EndStep)
    BY DEF End, EndStep
  <1>4. open' = IF Heard(call, Depth) THEN Front(open) ELSE open
    BY <1>2, SendsHeard DEF End
  <1>5. returning \/ Top.next = Len(JobSteps(Top)) + 1
    <2>1. /\ Top.next \in Nat /\ Len(JobSteps(Top)) \in Nat
          /\ DOMAIN JobSteps(Top) = 1..Len(JobSteps(Top))
          /\ Top.next <= Len(JobSteps(Top)) + 1
      BY <1>2, LevelFacts DEF Top
    <2>2. returning \/ Top.next \notin DOMAIN JobSteps(Top)
      BY DEF End
    <2> QED
      BY <1>2, <2>1, <2>2
  <1>6. /\ stack' \in Seq(Objects) /\ Len(stack') = Depth - 1
        /\ \A k \in 1..(Depth - 1) : stack'[k] = stack[k]
    BY <1>1, <1>2, <1>3, FrontFacts DEF Depth
  <1> QED
    BY <1>2, <1>3, <1>4, <1>5, <1>6 DEF End
---------------------------------------------------------------------------
LEMMA StackInvInit == Init => StackInv
  <1> SUFFICES ASSUME Init PROVE StackInv
    OBVIOUS
  <1> DEFINE e == Settings(call.operation, call.listening)
  <1>1. call \in Calls /\ stack = <<e>> /\ returning = FALSE
    BY DEF Init
  <1>2. /\ call.operation \in Jobs /\ call.listening \in BOOLEAN
        /\ Height(call.operation) <= 4 /\ Origin(call, call.operation)
    BY <1>1, CallFacts
  <1>3. /\ e \in Objects /\ e.job = call.operation /\ e.next = 0
        /\ e.linked <=> call.listening
    BY <1>2, SettingsFacts
  <1>4. Len(StepsOf(call, e)) \in Nat
    <2>1. JobOK(e.job, StepsOf(call, e), call.counts)
      BY <1>1, <1>2, <1>3, JobStepsFacts DEF StepsOf
    <2> QED
      BY <2>1, LenProperties DEF JobOK
  <1> HIDE DEF e
  <1>5. stack \in Seq(Objects) /\ Len(stack) = 1 /\ stack[1] = e
    BY <1>1, <1>3
  <1>6. stack[1].linked <=> call.listening /\ (1 = 1 \/ Heard(call, 1 - 1))
    <2>1. stack[1].linked <=> call.listening
      BY <1>3, <1>5, Zenon
    <2> QED
      BY <2>1, Zenon
  <1>7. ObjectOK(call, stack, 1)
    BY <1>2, <1>3, <1>4, <1>5, <1>6 DEF ObjectOK
  <1>8. StackOK(call, stack)
    BY <1>5, <1>7 DEF StackOK
  <1>9. returning \in BOOLEAN
    BY <1>1
  <1> QED
    BY <1>1, <1>8, <1>9 DEF StackInv

\* A step of the innermost job keeps what is said of the objects.
LEMMA MovedStackOK ==
  ASSUME StackInv, stack # <<>>, Top.next <= Len(JobSteps(Top)),
         NEW t, NEW e, NEW last, Moved(stack, t, e, last)
  PROVE  StackOK(call, t)
  <1>1. stack \in Seq(Objects) /\ StackOK(call, stack)
    BY DEF StackInv, StackOK
  <1>2. Depth \in 1..Depth
    BY <1>1 DEF Depth
  <1>3. Len(JobSteps(stack[Depth])) \in Nat
    BY <1>2, LevelFacts
  <1> QED
    BY <1>1, <1>3, MovedOK DEF Depth, Top, JobSteps, StepsOf

LEMMA StackInvNext == StackInv /\ [Next]_vars => StackInv'
  <1> SUFFICES ASSUME StackInv, [Next]_vars PROVE StackInv'
    OBVIOUS
  <1>1. call \in Calls /\ returning \in BOOLEAN /\ StackOK(call, stack) /\ stack \in Seq(Objects)
    BY DEF StackInv, StackOK
  <1>2. CASE Start
    <2>1. /\ Depth \in 1..Depth /\ stack # <<>> /\ Top.next = 0
          /\ Moved(stack, stack', Told(Depth), LastOf(StartStep))
          /\ call' = call /\ returning' = returning
      BY <1>2, StartMoves
    <2>2. Len(JobSteps(Top)) \in Nat
      BY <2>1, LevelFacts DEF Top
    <2>3. StackOK(call, stack')
      BY <2>1, <2>2, MovedStackOK
    <2> QED
      BY <1>1, <2>1, <2>3 DEF StackInv
  <1>3. ASSUME Running PROVE Top.next <= Len(JobSteps(Top)) /\ stack # <<>>
    BY <1>3, RunningFacts
  <1>4. CASE Progress
    <2>1. Moved(stack, stack', Told(Depth), LastOf(NextStep)) /\ UNCHANGED <<call, returning>>
      BY <1>4, ProgressMoves
    <2>2. StackOK(call, stack')
      BY <1>3, <1>4, <2>1, MovedStackOK DEF Progress
    <2> QED
      BY <1>1, <2>1, <2>2 DEF StackInv
  <1>5. CASE OpenJob
    <2>1. /\ NestedOK(Top.job, JobSteps(Top), Top.next) /\ NextStep.nested # NoJob
          /\ UNCHANGED <<call, returning>>
      BY <1>5, OpenMoves
    <2>2. PICK t : /\ Moved(stack, t, Told(Depth), LastOf(NextStep))
                   /\ stack' = Append(t, Settings(NextStep.nested, Sends(Depth)))
      BY <1>5, OpenMoves
    <2>3. StackOK(call, t)
      BY <1>3, <1>5, <2>2, MovedStackOK DEF OpenJob
    <2>4. /\ Depth \in 1..Depth /\ stack # <<>> /\ Top.next \in Nat \ {0}
          /\ Top.next \in 1..Len(JobSteps(Top))
      BY <1>5, RunningFacts DEF OpenJob
    <2>5. /\ Len(t) = Depth /\ t[Len(t)].job = Top.job
          /\ t[Len(t)].next = Top.next + 1
      BY <2>2, <2>4 DEF Moved, Depth, Top
    <2> DEFINE o == t[Len(t)]
               job == NextStep.nested
               linked == Sends(Depth)
    <2>6. StepsOf(call, o) = JobSteps(Top) /\ o.next >= 2 /\ o.next - 1 = Top.next
      BY <2>4, <2>5 DEF StepsOf, JobSteps
    <2>7. job = StepsOf(call, o)[o.next - 1].nested
      BY <2>6 DEF NextStep
    <2>8. Fits(job, o.job)
      BY <2>1, <2>5 DEF NestedOK, NextStep
    <2>9. linked \in BOOLEAN /\ (linked <=> Heard(call, Len(t)))
      BY <2>4, <2>5, SendsHeard
    <2>10. t # <<>>
      BY <2>4, <2>5
    <2> HIDE DEF o, job, linked
    <2>11. o = t[Len(t)]
      BY DEF o
    <2>12. job # NoJob
      BY <2>1 DEF job
    <2>13. StackOK(call, Append(t, Settings(job, linked)))
      BY <1>1, <2>3, <2>6, <2>7, <2>8, <2>9, <2>10, <2>11, <2>12, AppendOK
    <2> QED
      BY <1>1, <2>1, <2>2, <2>13 DEF StackInv, job, linked
  <1>6. CASE Warn
    <2>1. PICK e : Moved(stack, stack', e, LastOf(NextStep))
      BY <1>6, WarnMoves
    <2>2. UNCHANGED <<call, returning>>
      BY <1>6, WarnMoves
    <2>3. StackOK(call, stack')
      BY <1>3, <1>6, <2>1, MovedStackOK DEF Warn
    <2> QED
      BY <1>1, <2>2, <2>3 DEF StackInv
  <1>7. CASE Fail
    BY <1>1, <1>7 DEF Fail, StackInv
  <1>8. CASE End
    <2>1. call' = call /\ returning' = returning /\ stack' = Front(stack) /\ stack # <<>>
      BY <1>8, EndMoves DEF End
    <2>2. StackOK(call, stack')
      BY <1>1, <2>1, FrontOK
    <2> QED
      BY <1>1, <2>1, <2>2 DEF StackInv
  <1>9. CASE UNCHANGED vars
    BY <1>1, <1>9 DEF vars, StackInv
  <1> QED
    BY <1>2, <1>4, <1>5, <1>6, <1>7, <1>8, <1>9 DEF Next
---------------------------------------------------------------------------
\* An object that is heard remembers the last step of its job that was no
\* warning, or a warning.
LastOK(c, s, d) ==
  s[d].next - 1 > 0 /\ StepsOf(c, s[d])[s[d].next - 1].type # "WARNING" =>
    \/ s[d].last = LastOf(StepsOf(c, s[d])[s[d].next - 1])
    \/ s[d].last.type = "WARNING"

LastsOK(c, s) == \A d \in 1..Len(s) : Heard(c, d) => LastOK(c, s, d)

\* The caller has heard of the first k levels.
Announced(c, s, o, k) ==
  /\ o = [i \in 1..k |-> i - 1]
  /\ \A d \in 1..Len(s) : Heard(c, d) /\ s[d].next > 0 <=> d <= k

OpenOK(c, s, o) == \E k \in 0..Len(s) : Announced(c, s, o, k)

InformedInv == StackInv /\ LastsOK(call, stack) /\ OpenOK(call, stack, open)

\* The e-th object is told of the step; others are only told warnings.
Remembers(e, last) ==
  /\ \/ Top.next = 0
     \/ NextStep.type = "WARNING"
     \/ e = Told(Depth) /\ last = LastOf(NextStep)
  /\ e # 0 /\ e # Depth => last.type = "WARNING"

LEMMA MovedLastsOK ==
  ASSUME StackInv, LastsOK(call, stack), stack # <<>>,
         NEW t, NEW e, NEW last, Moved(stack, t, e, last),
         Remembers(e, last)
  PROVE  LastsOK(call, t)
  <1>1. stack \in Seq(Objects) /\ Depth \in Nat /\ Depth \in 1..Depth /\ Len(t) = Depth
    BY DEF StackInv, StackOK, Depth, Moved
  <1> SUFFICES ASSUME NEW d \in 1..Depth, Heard(call, d), t[d].next - 1 > 0,
                      StepsOf(call, t[d])[t[d].next - 1].type # "WARNING"
               PROVE  t[d].last = LastOf(StepsOf(call, t[d])[t[d].next - 1]) \/ t[d].last.type = "WARNING"
    BY <1>1 DEF LastsOK, LastOK
  <1>2. t[d].job = stack[d].job /\ (d # Depth => t[d].next = stack[d].next)
        /\ (d # e => t[d].last = stack[d].last) /\ (d = e => t[d].last = last)
        /\ t[Depth].next = stack[Depth].next + 1
    BY DEF Moved, Depth
  <1>3. StepsOf(call, t[d]) = StepsOf(call, stack[d])
    BY <1>2 DEF StepsOf
  <1>4. CASE d = Depth
    <2>1. Top.next \in Nat
      BY <1>1, LevelFacts DEF Top
    <2>2. t[d].next - 1 = Top.next /\ Top.next # 0
      BY <1>2, <1>4, <2>1 DEF Top
    <2>3. NextStep = StepsOf(call, t[d])[t[d].next - 1]
      BY <1>3, <1>4, <2>2 DEF NextStep, JobSteps, StepsOf, Top
    <2>4. Told(Depth) = d
      BY <1>4 DEF Told
    <2>5. t[d].last = LastOf(NextStep)
      BY <1>2, <1>4, <2>2, <2>3, <2>4 DEF Remembers
    <2> QED
      BY <2>3, <2>5
  <1>5. CASE d # Depth /\ d = e
    <2>1. e # 0 /\ e # Depth
      BY <1>5
    <2> QED
      BY <1>2, <1>5, <2>1 DEF Remembers
  <1>6. CASE d # Depth /\ d # e
    <2>1. t[d].next = stack[d].next /\ t[d].last = stack[d].last
      BY <1>2, <1>6
    <2>2. LastOK(call, stack, d)
      BY DEF LastsOK, Depth
    <2> QED
      BY <1>3, <2>1, <2>2 DEF LastOK
  <1> QED
    BY <1>4, <1>5, <1>6

\* A step after the START changes nothing of what the caller has heard of.
LEMMA MovedOpenOK ==
  ASSUME StackInv, OpenOK(call, stack, open), stack # <<>>, Top.next # 0,
         NEW t, NEW e, NEW last, Moved(stack, t, e, last)
  PROVE  OpenOK(call, t, open)
  <1>1. stack \in Seq(Objects) /\ Depth \in Nat /\ Depth \in 1..Depth /\ Len(t) = Depth
    BY DEF StackInv, StackOK, Depth, Moved
  <1>2. PICK k \in 0..Depth : Announced(call, stack, open, k)
    BY DEF OpenOK, Depth
  <1>3. ASSUME NEW d \in 1..Depth PROVE t[d].next > 0 <=> stack[d].next > 0
    <2>1. stack[d].next \in Nat
      BY LevelFacts
    <2>2. CASE d = Depth
      BY <2>1, <2>2 DEF Moved, Depth, Top
    <2>3. CASE d # Depth
      BY <2>3 DEF Moved, Depth
    <2> QED
      BY <2>2, <2>3
  <1>4. Announced(call, t, open, k)
    BY <1>1, <1>2, <1>3 DEF Announced, Depth
  <1> QED
    BY <1>1, <1>4 DEF OpenOK

LEMMA InformedInit == Init => InformedInv
  <1> SUFFICES ASSUME Init PROVE InformedInv
    OBVIOUS
  <1>1. StackInv
    BY StackInvInit
  <1>2. Len(stack) = 1 /\ stack[1].next = 0 /\ open = <<>>
    BY DEF Init, Settings
  <1>3. LastsOK(call, stack)
    BY <1>2 DEF LastsOK, LastOK
  <1>4. Announced(call, stack, open, 0)
    <2>1. open = [i \in 1..0 |-> i - 1]
      BY <1>2
    <2> QED
      BY <1>2, <2>1 DEF Announced
  <1>5. 0 \in 0..Len(stack)
    BY <1>2
  <1> QED
    BY <1>1, <1>3, <1>4, <1>5 DEF InformedInv, OpenOK

LEMMA InformedStart ==
  ASSUME InformedInv, Start
  PROVE  LastsOK(call, stack') /\ OpenOK(call, stack', open')
  <1>1. StackInv
    BY DEF InformedInv
  <1>2. /\ Depth \in 1..Depth /\ stack # <<>> /\ Top.next = 0
        /\ Moved(stack, stack', Told(Depth), LastOf(StartStep))
    BY <1>1, StartMoves
  <1>3. LastsOK(call, stack')
    <2>1. Told(Depth) # 0 => Told(Depth) = Depth
      BY DEF Told
    <2>2. LastsOK(call, stack)
      BY DEF InformedInv
    <2>3. Remembers(Told(Depth), LastOf(StartStep))
      BY <1>2, <2>1 DEF Remembers
    <2> QED
      BY <1>1, <1>2, <2>2, <2>3, MovedLastsOK
  <1>4. Depth \in Nat /\ Len(stack') = Depth
    BY <1>1, <1>2, LevelFacts DEF Moved, Depth
  <1>5. PICK k \in 0..Depth : Announced(call, stack, open, k)
    BY DEF OpenOK, Depth, InformedInv
  <1>6. /\ open = [i \in 1..k |-> i - 1]
        /\ \A d \in 1..Depth : Heard(call, d) /\ stack[d].next > 0 <=> d <= k
    BY <1>5 DEF Announced, Depth
  <1>7. k # Depth
    BY <1>2, <1>4, <1>6 DEF Top
  <1>8. /\ \A d \in 1..Depth : d # Depth => stack'[d].next = stack[d].next
        /\ stack'[Depth].next = 1
    BY <1>2 DEF Moved, Depth, Top
  <1>9. open' = IF Heard(call, Depth) THEN Append(open, Depth - 1) ELSE open
    BY <1>1, <1>2, SendsHeard DEF Start
  <1>10. CASE Heard(call, Depth)
    <2>1. k = Depth - 1
      <3>1. CASE Depth = 1
        BY <1>4, <1>5, <1>7, <3>1
      <3>2. CASE Depth # 1
        <4>1. Depth - 1 \in 1..Depth /\ Depth - 1 < Len(stack)
          BY <1>2, <1>4, <3>2 DEF Depth
        <4>2. Heard(call, Depth - 1)
          BY <1>1, <1>2, <1>10, <4>1, HeardBelow
        <4>3. stack[Depth - 1].next >= 2 /\ stack[Depth - 1].next \in Nat
          BY <1>1, <4>1, LevelFacts DEF ObjectOK
        <4>4. Depth - 1 <= k
          BY <1>6, <4>1, <4>2, <4>3
        <4> QED
          BY <1>4, <1>5, <1>7, <4>4
      <3> QED
        BY <3>1, <3>2
    <2>2. open' = [i \in 1..Depth |-> i - 1]
      <3>1. open = [i \in 1..k |-> i - 1] /\ k \in Nat /\ Depth = k + 1
        BY <1>4, <1>5, <1>6, <2>1
      <3>2. open \in Seq(Int) /\ Len(open) = k /\ \A i \in 1..k : open[i] = i - 1
        BY <3>1
      <3>3. open' = Append(open, k)
        BY <1>9, <1>10, <2>1
      <3>4. open' \in Seq(Int) /\ Len(open') = k + 1 /\ \A i \in 1..(k + 1) : open'[i] = i - 1
        BY <3>1, <3>2, <3>3
      <3>5. open' = [i \in 1..(k + 1) |-> i - 1]
        BY <3>1, <3>4
      <3> QED
        BY <3>1, <3>5
    <2>3. \A d \in 1..Depth : Heard(call, d)
      BY <1>1, <1>2, <1>10, HeardBelow
    <2>4. ASSUME NEW d \in 1..Depth PROVE stack'[d].next > 0
      <3>1. CASE d = Depth
        BY <1>8, <3>1
      <3>2. CASE d # Depth
        <4>1. d <= k
          BY <1>4, <2>1, <3>2
        <4> QED
          BY <1>6, <1>8, <3>2, <4>1
      <3> QED
        BY <3>1, <3>2
    <2>5. Announced(call, stack', open', Depth)
      BY <1>4, <2>2, <2>3, <2>4 DEF Announced
    <2> QED
      BY <1>3, <1>4, <2>5 DEF OpenOK
  <1>11. CASE ~ Heard(call, Depth)
    <2>1. open' = open
      BY <1>9, <1>11
    <2>2. ASSUME NEW d \in 1..Depth PROVE Heard(call, d) /\ stack'[d].next > 0 <=> d <= k
      <3>1. CASE d = Depth
        BY <1>4, <1>5, <1>7, <1>11, <3>1
      <3>2. CASE d # Depth
        BY <1>6, <1>8, <3>2
      <3> QED
        BY <3>1, <3>2
    <2>3. Announced(call, stack', open', k)
      BY <1>4, <1>6, <2>1, <2>2 DEF Announced
    <2> QED
      BY <1>3, <1>4, <2>3 DEF OpenOK
  <1> QED
    BY <1>10, <1>11

LEMMA InformedOpenJob ==
  ASSUME InformedInv, OpenJob
  PROVE  LastsOK(call, stack') /\ OpenOK(call, stack', open')
  <1>1. StackInv /\ Running
    BY DEF InformedInv, OpenJob
  <1>2. PICK t : /\ Moved(stack, t, Told(Depth), LastOf(NextStep))
                 /\ stack' = Append(t, Settings(NextStep.nested, Sends(Depth)))
    BY <1>1, OpenMoves
  <1>3. Depth \in 1..Depth /\ stack # <<>> /\ Top.next \in Nat \ {0}
    BY <1>1, RunningFacts
  <1>4. LastsOK(call, t)
    <2>1. Remembers(Told(Depth), LastOf(NextStep))
      BY DEF Told, Remembers
    <2>2. LastsOK(call, stack)
      BY DEF InformedInv
    <2> QED
      BY <1>1, <1>2, <1>3, <2>1, <2>2, MovedLastsOK
  <1>5. OpenOK(call, t, open) /\ open' = open
    BY <1>1, <1>2, <1>3, MovedOpenOK, OpenMoves DEF InformedInv
  <1> DEFINE e == Settings(NextStep.nested, Sends(Depth))
             n == Depth
  <1>6. e.next = 0
    BY DEF Settings
  <1>7. t \in Seq(Objects) /\ Len(t) = n /\ n \in Nat
    BY <1>1, <1>2, <1>3, LevelFacts DEF Moved, Depth
  <1>8. stack' = Append(t, e)
    BY <1>2
  <1> HIDE DEF e, n
  <1>9. Len(stack') = n + 1 /\ stack'[n + 1] = e /\ \A k \in 1..n : stack'[k] = t[k]
    BY <1>7, <1>8
  <1>10. \A d \in 1..(n + 1) : d \in 1..n \/ d = n + 1
    BY <1>7
  <1>11. LastsOK(call, stack')
    <2>1. ASSUME NEW d \in 1..n, Heard(call, d) PROVE LastOK(call, stack', d)
      BY <1>4, <1>7, <1>9, <2>1 DEF LastsOK, LastOK
    <2>2. LastOK(call, stack', n + 1)
      BY <1>6, <1>9 DEF LastOK
    <2> QED
      BY <1>9, <1>10, <2>1, <2>2 DEF LastsOK
  <1>12. OpenOK(call, stack', open')
    <2>1. PICK k \in 0..n : Announced(call, t, open, k)
      BY <1>5, <1>7 DEF OpenOK
    <2>2. ~ (n + 1 <= k) /\ k \in 0..(n + 1)
      BY <1>7, <2>1
    <2>3. \A d \in 1..n : Heard(call, d) /\ stack'[d].next > 0 <=> d <= k
      BY <1>7, <1>9, <2>1 DEF Announced
    <2>4. Announced(call, stack', open', k)
      BY <1>5, <1>6, <1>9, <1>10, <2>1, <2>2, <2>3 DEF Announced
    <2> QED
      BY <1>9, <2>2, <2>4 DEF OpenOK
  <1> QED
    BY <1>11, <1>12

LEMMA InformedEnd ==
  ASSUME InformedInv, End
  PROVE  LastsOK(call, stack') /\ OpenOK(call, stack', open')
  <1>1. StackInv
    BY DEF InformedInv
  <1> DEFINE n == Depth
  <1>2. /\ n \in 1..n /\ Top.next > 0 /\ Len(stack') = n - 1
        /\ \A k \in 1..(n - 1) : stack'[k] = stack[k]
        /\ open' = IF Heard(call, n) THEN Front(open) ELSE open
    BY <1>1, EndMoves
  <1>3. n \in Nat /\ n - 1 \in Nat /\ \A d \in 1..(n - 1) : d \in 1..n
    BY <1>1, <1>2, LevelFacts
  <1>4. LastsOK(call, stack')
    <2>1. ASSUME NEW d \in 1..(n - 1), Heard(call, d) PROVE LastOK(call, stack', d)
      <3>1. LastOK(call, stack, d)
        BY <1>3, <2>1 DEF LastsOK, InformedInv, Depth
      <3> QED
        BY <1>2, <3>1 DEF LastOK
    <2> QED
      BY <1>2, <2>1 DEF LastsOK
  <1>5. PICK k \in 0..n : Announced(call, stack, open, k)
    BY DEF OpenOK, Depth, InformedInv
  <1>6. /\ open = [i \in 1..k |-> i - 1]
        /\ \A d \in 1..n : Heard(call, d) /\ stack[d].next > 0 <=> d <= k
    BY <1>5 DEF Announced, Depth
  <1>7. stack[n].next > 0
    BY <1>2 DEF Top
  <1> HIDE DEF n
  <1>8. CASE Heard(call, n)
    <2>1. k = n
      BY <1>2, <1>3, <1>5, <1>6, <1>7, <1>8
    <2>2. open \in Seq(Int) /\ Len(open) = n /\ \A i \in 1..n : open[i] = i - 1
      BY <1>3, <1>6, <2>1
    <2>3. open # <<>>
      BY <1>2, <2>2
    <2>4. /\ open' \in Seq(Int) /\ Len(open') = n - 1
          /\ \A i \in 1..(n - 1) : open'[i] = open[i]
      BY <1>2, <1>8, <2>2, <2>3, FrontFacts
    <2>5. open' = [i \in 1..(n - 1) |-> i - 1]
      BY <1>3, <2>2, <2>4
    <2>6. \A d \in 1..(n - 1) : Heard(call, d) /\ stack'[d].next > 0 <=> d <= n - 1
      <3>1. \A d \in 1..(n - 1) : Heard(call, d) /\ stack[d].next > 0
        BY <1>3, <1>6, <2>1
      <3> QED
        BY <1>2, <1>3, <3>1
    <2>7. Announced(call, stack', open', n - 1)
      BY <1>2, <2>5, <2>6 DEF Announced
    <2>8. n - 1 \in 0..Len(stack')
      BY <1>2, <1>3
    <2> QED
      BY <1>4, <2>7, <2>8 DEF OpenOK
  <1>9. CASE ~ Heard(call, n)
    <2>1. ~ (n <= k)
      BY <1>2, <1>6, <1>9
    <2>2. k \in 0..(n - 1) /\ open' = open
      BY <1>2, <1>3, <1>5, <1>9, <2>1
    <2>3. \A d \in 1..(n - 1) : Heard(call, d) /\ stack'[d].next > 0 <=> d <= k
      BY <1>2, <1>3, <1>6
    <2>4. Announced(call, stack', open', k)
      BY <1>2, <1>6, <2>2, <2>3 DEF Announced
    <2> QED
      BY <1>2, <1>4, <2>2, <2>4 DEF OpenOK
  <1> QED
    BY <1>8, <1>9

LEMMA InformedNext == InformedInv /\ [Next]_vars => InformedInv'
  <1> SUFFICES ASSUME InformedInv, [Next]_vars PROVE InformedInv'
    OBVIOUS
  <1>1. StackInv /\ LastsOK(call, stack) /\ OpenOK(call, stack, open)
    BY DEF InformedInv
  <1>2. StackInv'
    BY <1>1, StackInvNext
  <1>3. CASE Start
    BY <1>2, <1>3, InformedStart DEF InformedInv, Start
  <1>4. CASE Progress
    <2>1. /\ Moved(stack, stack', Told(Depth), LastOf(NextStep))
          /\ UNCHANGED <<call, open>>
      BY <1>1, <1>4, ProgressMoves
    <2>2. stack # <<>> /\ Top.next # 0
      BY <1>1, <1>4, RunningFacts DEF Progress
    <2>3. Remembers(Told(Depth), LastOf(NextStep))
      BY DEF Told, Remembers
    <2>4. LastsOK(call, stack')
      BY <1>1, <2>1, <2>2, <2>3, MovedLastsOK
    <2>5. OpenOK(call, stack', open)
      BY <1>1, <2>1, <2>2, MovedOpenOK
    <2> QED
      BY <1>2, <2>1, <2>4, <2>5 DEF InformedInv
  <1>5. CASE OpenJob
    BY <1>2, <1>5, InformedOpenJob DEF InformedInv, OpenJob
  <1>6. CASE Warn
    <2>1. PICK e : Moved(stack, stack', e, LastOf(NextStep))
      BY <1>1, <1>6, WarnMoves
    <2>2. NextStep.type = "WARNING" /\ UNCHANGED <<call, open>>
      BY <1>1, <1>6, WarnMoves
    <2>3. stack # <<>> /\ Top.next # 0
      BY <1>1, <1>6, RunningFacts DEF Warn
    <2>4. Remembers(e, LastOf(NextStep))
      BY <2>2 DEF Remembers, LastOf
    <2>5. LastsOK(call, stack')
      BY <1>1, <2>1, <2>3, <2>4, MovedLastsOK
    <2>6. OpenOK(call, stack', open)
      BY <1>1, <2>1, <2>3, MovedOpenOK
    <2> QED
      BY <1>2, <2>2, <2>5, <2>6 DEF InformedInv
  <1>7. CASE Fail
    BY <1>1, <1>2, <1>7 DEF InformedInv, Fail
  <1>8. CASE End
    BY <1>2, <1>8, InformedEnd DEF InformedInv, End
  <1>9. CASE UNCHANGED vars
    BY <1>1, <1>2, <1>9 DEF InformedInv, vars
  <1> QED
    BY <1>3, <1>4, <1>5, <1>6, <1>7, <1>8, <1>9 DEF Next

LEMMA Informed == Spec => []InformedInv
  BY InformedInit, InformedNext, PTL DEF Spec

LEMMA InformedCaller == InformedInv => CallerInformed
  <1> SUFFICES ASSUME InformedInv PROVE CallerInformed
    OBVIOUS
  <1>1. StackInv /\ stack \in Seq(Objects) /\ Depth \in Nat
    BY DEF InformedInv, StackInv, StackOK, Depth
  <1>2. \A d \in 1..Depth : d \in HeardLevels <=> Heard(call, d)
    BY DEF HeardLevels, Heard
  <1>3. \A d \in HeardLevels : d \in 1..Depth
    BY DEF HeardLevels
  <1>4. open = [i \in 1..Cardinality({d \in HeardLevels : stack[d].next > 0}) |-> i - 1]
    <2>1. PICK k \in 0..Depth : Announced(call, stack, open, k)
      BY DEF InformedInv, OpenOK, Depth
    <2>2. {d \in HeardLevels : stack[d].next > 0} = 1..k
      BY <1>1, <1>2, <1>3, <2>1 DEF Announced, Depth
    <2>3. Cardinality(1..k) = k
      <3>1. 1 \in Int /\ k \in Int /\ (1 > k => k = 0) /\ k - 1 + 1 = k
        BY <1>1
      <3>2. Cardinality(1..k) = IF 1 > k THEN 0 ELSE k - 1 + 1
        BY <3>1, FS_Interval
      <3> QED
        BY <3>1, <3>2
    <2> QED
      BY <2>1, <2>2, <2>3 DEF Announced
  <1>5. ASSUME NEW d \in HeardLevels, stack[d].next - 1 > 0,
               JobSteps(stack[d])[stack[d].next - 1].type # "WARNING"
        PROVE  \/ stack[d].last = LastOf(JobSteps(stack[d])[stack[d].next - 1])
               \/ stack[d].last.type = "WARNING"
    <2>1. LastOK(call, stack, d)
      BY <1>2, <1>3, <1>5 DEF InformedInv, LastsOK, Depth
    <2> QED
      BY <1>5, <2>1 DEF LastOK, JobSteps, StepsOf
  <1> QED
    BY <1>4, <1>5 DEF CallerInformed, LastOf

\* A caller that asked for n levels hears of all jobs of these levels and of
\* no others, and of every step of them: for all operations, numbers of
\* resources and levels.
THEOREM CallerIsInformed == Spec => []CallerInformed
  BY Informed, InformedCaller, PTL

\* A step that the innermost job is about to take after it handed on a part.
LEMMA SeamlessStep ==
  ASSUME InformedInv, [Next]_vars, NEW d \in 1..Depth,
         d \in HeardLevels, ~ returning,
         stack[d].next - 1 \in DOMAIN JobSteps(stack[d]),
         JobSteps(stack[d])[stack[d].next - 1].nested # NoJob,
         stack[d].last.type # "WARNING"
  PROVE  /\ Len(stack') >= d /\ stack'[d].next # stack[d].next =>
              stack'[d].last.progress = PartEnd(stack[d])
         /\ Len(stack') < d => PartEnd(stack[d]) = 100
  <1> DEFINE steps == JobSteps(stack[d])
             taken == stack[d].next - 1
  <1>1. StackInv /\ Heard(call, d) /\ LastOK(call, stack, d)
    BY DEF InformedInv, HeardLevels, Heard, LastsOK, Depth
  <1>2. /\ steps \in Seq(StepRecords) /\ Len(steps) \in Nat /\ DOMAIN steps = 1..Len(steps)
        /\ stack[d].next \in Nat /\ stack[d].next <= Len(steps) + 1
        /\ JobOK(stack[d].job, steps, call.counts)
        /\ Depth \in Nat
    BY <1>1, LevelFacts
  <1>3. taken \in 1..Len(steps) /\ taken > 0
    BY <1>2
  <1>4. NestedOK(stack[d].job, steps, taken)
    BY <1>2, <1>3 DEF JobOK
  <1>5. stack[d].last = LastOf(steps[taken])
    <2>1. steps[taken].type # "WARNING"
      BY <1>4 DEF NestedOK
    <2> QED
      BY <1>1, <1>3, <2>1 DEF LastOK, JobSteps, StepsOf
  <1>6. PartEnd(stack[d]) = PartEndsAt(steps, taken)
    BY <1>5 DEF PartEnd, PartEndsAt, LastOf
  <1>7. /\ taken = Len(steps) => PartEnd(stack[d]) = 100
        /\ taken < Len(steps) => /\ steps[taken + 1].type # "WARNING"
                                 /\ steps[taken + 1].progress = PartEnd(stack[d])
    BY <1>4, <1>6 DEF NestedOK
  <1>8. ASSUME d = Depth, Running
        PROVE  NextStep.type # "WARNING" /\ NextStep.progress = PartEnd(stack[d])
    <2>1. taken + 1 = Top.next /\ Top.next \in 1..Len(steps) /\ NextStep = steps[taken + 1]
      BY <1>1, <1>2, <1>8, RunningFacts DEF Top, NextStep
    <2> QED
      BY <1>3, <1>7, <2>1
  <1>9. ASSUME NEW t, NEW e, NEW last, Moved(stack, t, e, last), t[d].next # stack[d].next
        PROVE  d = Depth
    BY <1>9 DEF Moved, Depth
  <1> HIDE DEF steps, taken
  <1>10. CASE Start
    <2>1. /\ Top.next = 0 /\ Moved(stack, stack', Told(Depth), LastOf(StartStep))
      BY <1>1, <1>10, StartMoves
    <2>2. d # Depth
      BY <1>3, <2>1 DEF Top, taken
    <2>3. Len(stack') = Depth
      BY <2>1 DEF Moved, Depth
    <2> QED
      BY <1>2, <1>9, <2>1, <2>2, <2>3
  <1>11. CASE Progress
    <2>1. Moved(stack, stack', Told(Depth), LastOf(NextStep))
      BY <1>1, <1>11, ProgressMoves
    <2>2. Len(stack') = Depth
      BY <2>1 DEF Moved, Depth
    <2>3. ASSUME stack'[d].next # stack[d].next PROVE stack'[d].last.progress = PartEnd(stack[d])
      <3>1. d = Depth
        BY <1>9, <2>1, <2>3
      <3>2. NextStep.progress = PartEnd(stack[d])
        BY <1>8, <1>11, <3>1 DEF Progress
      <3>3. stack'[d].last = LastOf(NextStep)
        BY <1>1, <2>1, <3>1 DEF Moved, Told, Depth
      <3> QED
        BY <3>2, <3>3 DEF LastOf
    <2> QED
      BY <1>2, <2>2, <2>3
  <1>12. CASE OpenJob
    <2>1. PICK t : /\ Moved(stack, t, Told(Depth), LastOf(NextStep))
                   /\ stack' = Append(t, Settings(NextStep.nested, Sends(Depth)))
      BY <1>1, <1>12, OpenMoves
    <2>2. t \in Seq(Objects) /\ Len(t) = Depth
      BY <2>1 DEF Moved, Depth
    <2>3. Len(stack') = Depth + 1 /\ stack'[d] = t[d]
      <3> DEFINE x == Settings(NextStep.nested, Sends(Depth))
      <3>1. stack' = Append(t, x) /\ d \in 1..Len(t)
        BY <2>1, <2>2
      <3> HIDE DEF x
      <3> QED
        BY <2>2, <3>1
    <2>4. ASSUME stack'[d].next # stack[d].next PROVE stack'[d].last.progress = PartEnd(stack[d])
      <3>1. d = Depth
        BY <1>9, <2>1, <2>3, <2>4
      <3>2. NextStep.progress = PartEnd(stack[d])
        BY <1>8, <1>12, <3>1 DEF OpenJob
      <3>3. t[d].last = LastOf(NextStep)
        BY <1>1, <2>1, <3>1 DEF Moved, Told, Depth
      <3> QED
        BY <2>3, <3>2, <3>3 DEF LastOf
    <2> QED
      BY <1>2, <2>3, <2>4
  <1>13. CASE Warn
    <2>1. PICK e : Moved(stack, stack', e, LastOf(NextStep))
      BY <1>1, <1>13, WarnMoves
    <2>2. NextStep.type = "WARNING" /\ Len(stack') = Depth
      BY <1>1, <1>13, <2>1, WarnMoves DEF Moved, Depth
    <2>3. d # Depth
      BY <1>8, <1>13, <2>2 DEF Warn
    <2> QED
      BY <1>2, <1>9, <2>1, <2>2, <2>3
  <1>14. CASE Fail \/ UNCHANGED vars
    <2>1. stack' = stack
      BY <1>14 DEF Fail, vars
    <2> QED
      BY <1>2, <2>1 DEF Depth
  <1>15. CASE End
    <2>1. /\ Depth \in 1..Depth
          /\ returning \/ Top.next = Len(JobSteps(Top)) + 1
          /\ Len(stack') = Depth - 1 /\ \A k \in 1..(Depth - 1) : stack'[k] = stack[k]
      BY <1>1, <1>15, EndMoves
    <2>2. CASE d = Depth
      <3>1. taken = Len(steps)
        BY <1>2, <2>1, <2>2 DEF Top, taken, steps
      <3> QED
        BY <1>2, <1>7, <2>1, <2>2, <3>1
    <2>3. CASE d # Depth
      <3>1. d \in 1..(Depth - 1) /\ ~ (Len(stack') < d)
        BY <1>2, <2>1, <2>3
      <3> QED
        BY <2>1, <3>1
    <2> QED
      BY <2>2, <2>3
  <1> QED
    BY <1>10, <1>11, <1>12, <1>13, <1>14, <1>15 DEF Next

\* A nested job ends where the next part of its parent begins, whatever the
\* depth: no part of a call is left out or counted twice.
THEOREM PartsAreSeamless == Spec => Seamless
  <1>1. InformedInv /\ [Next]_vars =>
          [\A d \in 1..Depth :
             LET steps == JobSteps(stack[d])
                 taken == stack[d].next - 1
             IN  d \in HeardLevels /\ ~returning /\ taken \in DOMAIN steps
                 /\ steps[taken].nested # NoJob /\ stack[d].last.type # "WARNING"
                 => /\ Len(stack') >= d /\ stack'[d].next # stack[d].next =>
                         stack'[d].last.progress = PartEnd(stack[d])
                    /\ Len(stack') < d => PartEnd(stack[d]) = 100]_stack
    BY SeamlessStep
  <1> QED
    BY <1>1, Informed, PTL DEF Spec, Seamless
---------------------------------------------------------------------------
(* The overall progress: what a part of a part is worth.                   *)

\* The definition of Scale unfolds: what the d-th object has handed on is a
\* part of what was handed to it.
LEMMA ScaleFacts ==
  ASSUME NEW objects, NEW n \in Nat, \A k \in 1..n : objects[k].last.size \in Int
  PROVE  /\ Scale(objects, 0) = Unit
         /\ \A d \in 0..n : Scale(objects, d) \in Int
         /\ \A d \in 1..n :
              Scale(objects, d) = (Scale(objects, d - 1) * objects[d].last.size) \div 100
  <1> DEFINE z(k) == objects[k].last.size
             G == [x \in Nat \X Int |-> IF x[1] + 1 \in 1..n THEN (x[2] * z(x[1] + 1)) \div 100 ELSE 0]
             Rule(d, g) == g = [k \in 0..d |-> IF k = 0 THEN Unit ELSE (g[k - 1] * z(k)) \div 100]
  <1>1. Unit \in Int
    BY DEF Unit, MaxDepth
  <1>2. G \in [Nat \X Int -> Int]
    <2>1. ASSUME NEW x \in Nat \X Int, x[1] + 1 \in 1..n PROVE (x[2] * z(x[1] + 1)) \div 100 \in Int
      <3>1. x[2] \in Int /\ z(x[1] + 1) \in Int
        BY <2>1
      <3> HIDE DEF z
      <3>2. x[2] * z(x[1] + 1) \in Int
        BY <3>1
      <3> QED
        BY <3>2
    <2> HIDE DEF z
    <2> QED
      BY <2>1
  <1>3. PICK f : Iterates(f, Int, Unit, G)
    <2> HIDE DEF G
    <2> QED
      BY <1>1, <1>2, Recursion
  <1>4. f \in [Nat -> Int] /\ f[0] = Unit
    BY <1>3 DEF Iterates
  <1>5. ASSUME NEW k \in 1..n PROVE f[k] = (f[k - 1] * z(k)) \div 100
    <2>1. k - 1 \in Nat /\ (k - 1) + 1 = k /\ f[k - 1] \in Int
      BY <1>4
    <2>2. f[(k - 1) + 1] = G[<<k - 1, f[k - 1]>>]
      <3> HIDE DEF G
      <3> QED
        BY <1>3, <2>1 DEF Iterates
    <2>3. G[<<k - 1, f[k - 1]>>] = (f[k - 1] * z(k)) \div 100
      <3> HIDE DEF z
      <3> QED
        BY <2>1
    <2> QED
      BY <2>1, <2>2, <2>3
  <1> HIDE DEF G
  <1>6. ASSUME NEW d \in 0..n PROVE Scale(objects, d) = f[d]
    <2> DEFINE g == CHOOSE g : Rule(d, g)
               h == [k \in 0..d |-> f[k]]
    <2>1. Rule(d, h)
      <3>1. ASSUME NEW k \in 0..d
            PROVE  f[k] = IF k = 0 THEN Unit ELSE (h[k - 1] * z(k)) \div 100
        <4>1. CASE k = 0
          BY <1>4, <4>1
        <4>2. CASE k # 0
          <5>1. k \in 1..n /\ k - 1 \in 0..d
            BY <4>2
          <5>2. h[k - 1] = f[k - 1]
            BY <5>1
          <5> HIDE DEF z, h
          <5> QED
            BY <1>5, <4>2, <5>1, <5>2
        <4> QED
          BY <4>1, <4>2
      <3> HIDE DEF z
      <3> QED
        BY <3>1
    <2>2. Rule(d, g)
      <3> HIDE DEF Rule, h
      <3> QED
        BY <2>1
    <2> HIDE DEF g
    <2>3. g = [k \in 0..d |-> IF k = 0 THEN Unit ELSE (g[k - 1] * z(k)) \div 100]
      BY <2>2
    <2> HIDE DEF z
    <2>4. \A k \in 0..d : g[k] = IF k = 0 THEN Unit ELSE (g[k - 1] * z(k)) \div 100
      BY <2>3
    <2>5. g[0] = f[0]
      BY <1>4, <2>4
    <2>6. ASSUME NEW k \in 1..d, g[k - 1] = f[k - 1] PROVE g[k] = f[k]
      <3>1. k \in 0..d /\ k # 0 /\ k \in 1..n
        OBVIOUS
      <3>2. g[k] = (g[k - 1] * z(k)) \div 100
        BY <2>4, <3>1
      <3> QED
        BY <1>5, <2>6, <3>1, <3>2
    <2>7. d \in Nat
      OBVIOUS
    <2>8. g[d] = f[d]
      <3>1. InStep(g, f, d)
        BY <2>6 DEF InStep
      <3> HIDE DEF Rule
      <3>2. \A k \in 0..d : g[k] = f[k]
        BY <2>5, <2>7, <3>1, GoOnAlike
      <3> QED
        BY <2>7, <3>2
    <2>9. Scale(objects, d) = g[d]
      BY DEF Scale, g, Rule, z
    <2> QED
      BY <2>8, <2>9
  <1> HIDE DEF z
  <1>7. 0 \in 0..n /\ \A d \in 1..n : d \in 0..n /\ d - 1 \in 0..n /\ d \in Nat
    OBVIOUS
  <1>8. \A d \in 0..n : Scale(objects, d) \in Int
    BY <1>4, <1>6
  <1>9. \A d \in 1..n : Scale(objects, d) = (Scale(objects, d - 1) * z(d)) \div 100
    BY <1>5, <1>6, <1>7
  <1> QED
    BY <1>4, <1>6, <1>7, <1>8, <1>9 DEF z

\* The sum that OverallProgress makes.
Total(objects, d) ==
  LET progress[k \in 0..d] ==
        IF k = 0 THEN 0
        ELSE progress[k - 1] + objects[k].last.progress * Scale(objects, k - 1)
  IN  progress[d]

LEMMA TotalFacts ==
  ASSUME NEW objects, NEW n \in Nat,
         \A k \in 1..n : objects[k].last.progress \in Int /\ Scale(objects, k - 1) \in Int
  PROVE  /\ Total(objects, 0) = 0
         /\ \A d \in 0..n : Total(objects, d) \in Int
         /\ \A d \in 1..n :
              Total(objects, d) =
                Total(objects, d - 1) + objects[d].last.progress * Scale(objects, d - 1)
  <1> DEFINE z(k) == objects[k].last.progress * Scale(objects, k - 1)
             G == [x \in Nat \X Int |-> IF x[1] + 1 \in 1..n THEN x[2] + z(x[1] + 1) ELSE 0]
             Rule(d, g) == g = [k \in 0..d |-> IF k = 0 THEN 0 ELSE g[k - 1] + z(k)]
  <1>0. \A k \in 1..n : z(k) \in Int
    <2>1. ASSUME NEW k \in 1..n, NEW a, NEW b, a = objects[k].last.progress, b = Scale(objects, k - 1)
          PROVE  a * b \in Int
      BY <2>1
    <2> QED
      BY <2>1
  <1> HIDE DEF z
  <1>2. G \in [Nat \X Int -> Int]
    <2>1. ASSUME NEW x \in Nat \X Int, x[1] + 1 \in 1..n PROVE x[2] + z(x[1] + 1) \in Int
      BY <1>0, <2>1
    <2> QED
      BY <2>1
  <1>3. PICK f : Iterates(f, Int, 0, G)
    <2>1. 0 \in Int
      OBVIOUS
    <2> HIDE DEF G
    <2> QED
      BY <1>2, <2>1, Recursion
  <1>4. f \in [Nat -> Int] /\ f[0] = 0
    BY <1>3 DEF Iterates
  <1>5. ASSUME NEW k \in 1..n PROVE f[k] = f[k - 1] + z(k)
    <2>1. k - 1 \in Nat /\ (k - 1) + 1 = k /\ f[k - 1] \in Int
      BY <1>4
    <2>2. f[(k - 1) + 1] = G[<<k - 1, f[k - 1]>>]
      <3> HIDE DEF G
      <3> QED
        BY <1>3, <2>1 DEF Iterates
    <2>3. G[<<k - 1, f[k - 1]>>] = f[k - 1] + z(k)
      BY <2>1
    <2> QED
      BY <2>1, <2>2, <2>3
  <1> HIDE DEF G
  <1>6. ASSUME NEW d \in 0..n PROVE Total(objects, d) = f[d]
    <2> DEFINE g == CHOOSE g : Rule(d, g)
               h == [k \in 0..d |-> f[k]]
    <2>1. Rule(d, h)
      <3>1. ASSUME NEW k \in 0..d
            PROVE  f[k] = IF k = 0 THEN 0 ELSE h[k - 1] + z(k)
        <4>1. CASE k = 0
          BY <1>4, <4>1
        <4>2. CASE k # 0
          <5>1. k \in 1..n /\ k - 1 \in 0..d
            BY <4>2
          <5>2. h[k - 1] = f[k - 1]
            BY <5>1
          <5> HIDE DEF h
          <5> QED
            BY <1>5, <4>2, <5>1, <5>2
        <4> QED
          BY <4>1, <4>2
      <3> QED
        BY <3>1
    <2>2. Rule(d, g)
      <3> HIDE DEF Rule, h
      <3> QED
        BY <2>1
    <2> HIDE DEF g
    <2>3. g = [k \in 0..d |-> IF k = 0 THEN 0 ELSE g[k - 1] + z(k)]
      BY <2>2
    <2>4. \A k \in 0..d : g[k] = IF k = 0 THEN 0 ELSE g[k - 1] + z(k)
      BY <2>3
    <2>5. g[0] = f[0]
      BY <1>4, <2>4
    <2>6. ASSUME NEW k \in 1..d, g[k - 1] = f[k - 1] PROVE g[k] = f[k]
      <3>1. k \in 0..d /\ k # 0 /\ k \in 1..n
        OBVIOUS
      <3>2. g[k] = g[k - 1] + z(k)
        BY <2>4, <3>1
      <3> QED
        BY <1>5, <2>6, <3>1, <3>2
    <2>7. d \in Nat
      OBVIOUS
    <2>8. g[d] = f[d]
      <3>1. InStep(g, f, d)
        BY <2>6 DEF InStep
      <3> HIDE DEF Rule
      <3>2. \A k \in 0..d : g[k] = f[k]
        BY <2>5, <2>7, <3>1, GoOnAlike
      <3> QED
        BY <2>7, <3>2
    <2>9. Total(objects, d) = g[d]
      BY DEF Total, g, Rule, z
    <2> QED
      BY <2>8, <2>9
  <1>7. 0 \in 0..n /\ \A d \in 1..n : d \in 0..n /\ d - 1 \in 0..n /\ d \in Nat
    OBVIOUS
  <1>8. \A d \in 0..n : Total(objects, d) \in Int
    BY <1>4, <1>6
  <1>9. \A d \in 1..n : Total(objects, d) = Total(objects, d - 1) + z(d)
    BY <1>5, <1>6, <1>7
  <1> QED
    BY <1>4, <1>6, <1>7, <1>8, <1>9 DEF z

LEMMA OverallIsTotal ==
  ASSUME NEW objects, NEW d, objects[d].last.progress # NotFinite
  PROVE  OverallProgress(objects, d) = Total(objects, d)
  BY DEF OverallProgress, Total
---------------------------------------------------------------------------
\* The first n objects have handed on parts of what was theirs.
Parted(objects, n) ==
  \A k \in 1..n : /\ objects[k].last.progress \in Nat
                  /\ objects[k].last.size \in Nat
                  /\ objects[k].last.progress + objects[k].last.size <= 100

\* What the progress p of the d-th object is worth.
Worth(objects, d, p) == Total(objects, d - 1) + p * Scale(objects, d - 1)

LEMMA PartOfPart ==
  ASSUME NEW o \in Nat, NEW s \in Nat, NEW p \in Nat, NEW z \in Nat, p + z <= 100
  PROVE  /\ (s * z) \div 100 \in Nat
         /\ o + p * s \in Nat
         /\ (o + p * s) + 100 * ((s * z) \div 100) <= o + (p + z) * s
         /\ o + (p + z) * s <= o + 100 * s
  <1>1. s * z \in Nat /\ p * s \in Nat
    OBVIOUS
  <1>2. \A x \in Nat : x \div 100 \in Nat /\ 100 * (x \div 100) <= x
    OBVIOUS
  <1>3. (s * z) \div 100 \in Nat /\ 100 * ((s * z) \div 100) <= s * z
    BY <1>1, <1>2
  <1>4. (p + z) * s = p * s + s * z
    OBVIOUS
  <1>5. (p + z) * s <= 100 * s
    OBVIOUS
  <1> DEFINE a == s * z
             b == p * s
             c == (s * z) \div 100
             e == (p + z) * s
             f == 100 * s
  <1>6. a \in Nat /\ b \in Nat /\ c \in Nat /\ e \in Nat /\ f \in Nat
        /\ 100 * c <= a /\ e = b + a /\ e <= f
    BY <1>1, <1>3, <1>4, <1>5
  <1> HIDE DEF a, b, c, e, f
  <1>7. c \in Nat /\ o + b \in Nat /\ (o + b) + 100 * c <= o + e /\ o + e <= o + f
    BY <1>6
  <1> QED
    BY <1>7 DEF a, b, c, e, f

LEMMA PartedFacts ==
  ASSUME NEW objects, NEW n \in Nat, Parted(objects, n)
  PROVE  /\ \A d \in 0..n : Scale(objects, d) \in Nat /\ Total(objects, d) \in Nat
         /\ Scale(objects, 0) = Unit /\ Total(objects, 0) = 0
         /\ \A d \in 1..n :
              /\ Total(objects, d) = Worth(objects, d, objects[d].last.progress)
              /\ Total(objects, d) + 100 * Scale(objects, d)
                   <= Worth(objects, d, objects[d].last.progress + objects[d].last.size)
              /\ Worth(objects, d, objects[d].last.progress + objects[d].last.size)
                   <= Worth(objects, d, 100)
  <1> DEFINE S(d) == Scale(objects, d)
             O(d) == Total(objects, d)
             p(d) == objects[d].last.progress
             z(d) == objects[d].last.size
  <1>1. \A k \in 1..n : p(k) \in Nat /\ z(k) \in Nat /\ p(k) + z(k) <= 100
    BY DEF Parted
  <1>2. /\ S(0) = Unit /\ \A d \in 0..n : S(d) \in Int
        /\ \A d \in 1..n : S(d) = (S(d - 1) * z(d)) \div 100
    <2>1. \A k \in 1..n : objects[k].last.size \in Int
      BY <1>1
    <2> QED
      BY <2>1, ScaleFacts
  <1>3. \A k \in 1..n : k - 1 \in 0..n /\ S(k - 1) \in Int
    BY <1>2
  <1>4. /\ O(0) = 0 /\ \A d \in 0..n : O(d) \in Int
        /\ \A d \in 1..n : O(d) = O(d - 1) + p(d) * S(d - 1)
    <2>1. \A k \in 1..n : objects[k].last.progress \in Int /\ Scale(objects, k - 1) \in Int
      BY <1>1, <1>3
    <2> QED
      BY <2>1, TotalFacts
  <1>5. Unit \in Nat
    BY DEF Unit, MaxDepth
  <1>6. \A d, q : Worth(objects, d, q) = O(d - 1) + q * S(d - 1)
    BY DEF Worth
  <1> HIDE DEF S, O, p, z
  <1>7. ASSUME NEW d \in 1..n, S(d - 1) \in Nat, O(d - 1) \in Nat
        PROVE  /\ S(d) \in Nat /\ O(d) \in Nat
               /\ O(d) + 100 * S(d) <= O(d - 1) + (p(d) + z(d)) * S(d - 1)
               /\ O(d - 1) + (p(d) + z(d)) * S(d - 1) <= O(d - 1) + 100 * S(d - 1)
    BY <1>1, <1>2, <1>4, <1>7, PartOfPart
  <1> DEFINE T == {d \in Nat : d \in 0..n => S(d) \in Nat /\ O(d) \in Nat}
  <1>8. 0 \in T
    BY <1>2, <1>4, <1>5
  <1>9. ASSUME NEW d \in Nat, d \in T PROVE d + 1 \in T
    <2>1. CASE d + 1 \in 0..n
      <3>1. d + 1 \in 1..n /\ d \in 0..n /\ (d + 1) - 1 = d
        BY <2>1
      <3>2. S(d + 1) \in Nat /\ O(d + 1) \in Nat
        BY <1>7, <1>9, <3>1
      <3> QED
        BY <3>2
    <2> QED
      BY <2>1
  <1> HIDE DEF T
  <1>10. Nat \subseteq T
    BY <1>8, <1>9, SetInduction
  <1>11. \A d \in 0..n : S(d) \in Nat /\ O(d) \in Nat
    BY <1>10 DEF T
  <1> QED
    BY <1>2, <1>3, <1>4, <1>7, <1>11 DEF Worth, S, O, p, z

\* Handed down, parts only get smaller: the deeper part ends no later.
LEMMA DeeperEndsEarlier ==
  ASSUME NEW objects, NEW n \in Nat, Parted(objects, n), NEW i \in 0..n, NEW j \in i..n
  PROVE  Total(objects, j) + 100 * Scale(objects, j) <= Total(objects, i) + 100 * Scale(objects, i)
  <1> DEFINE C(d) == Total(objects, d) + 100 * Scale(objects, d)
             T == {d \in Nat : i + d \in i..n => C(i + d) <= C(i)}
  <1>1. \A d \in 0..n : C(d) \in Nat
    BY PartedFacts
  <1>2. ASSUME NEW d \in 1..n PROVE C(d) <= C(d - 1)
    <2>1. /\ C(d) <= Worth(objects, d, objects[d].last.progress + objects[d].last.size)
          /\ Worth(objects, d, objects[d].last.progress + objects[d].last.size)
               <= Worth(objects, d, 100)
      BY PartedFacts
    <2>2. Worth(objects, d, 100) = C(d - 1)
      BY DEF Worth
    <2>3. C(d) \in Int /\ C(d - 1) \in Int
      <3>1. d \in 0..n /\ d - 1 \in 0..n
        OBVIOUS
      <3> QED
        BY <1>1, <3>1
    <2>4. Worth(objects, d, objects[d].last.progress + objects[d].last.size) \in Int
      <3>1. /\ objects[d].last.progress + objects[d].last.size \in Int
        BY DEF Parted
      <3>2. d - 1 \in 0..n
        OBVIOUS
      <3>3. Total(objects, d - 1) \in Int /\ Scale(objects, d - 1) \in Int
        BY <3>2, PartedFacts
      <3>4. \A a \in Int, b \in Int, c \in Int : a + b * c \in Int
        OBVIOUS
      <3> QED
        BY <3>1, <3>3, <3>4 DEF Worth
    <2> HIDE DEF C
    <2> QED
      BY <2>1, <2>2, <2>3, <2>4
  <1> HIDE DEF C
  <1>3. 0 \in T
    BY <1>1
  <1>4. ASSUME NEW d \in Nat, d \in T PROVE d + 1 \in T
    <2>1. CASE i + (d + 1) \in i..n
      <3>1. i + d \in i..n /\ i + (d + 1) \in 1..n /\ (i + (d + 1)) - 1 = i + d
        BY <2>1
      <3>2. C(i + (d + 1)) <= C(i + d) /\ C(i + d) <= C(i)
        BY <1>2, <1>4, <3>1
      <3>3. C(i + (d + 1)) \in Nat /\ C(i + d) \in Nat /\ C(i) \in Nat
        BY <1>1, <3>1
      <3>4. C(i + (d + 1)) <= C(i)
        BY <3>2, <3>3
      <3> QED
        BY <3>4
    <2> QED
      BY <2>1
  <1> HIDE DEF T
  <1>5. j - i \in T
    <2>1. j - i \in Nat
      OBVIOUS
    <2> QED
      BY <1>3, <1>4, <2>1, SetInduction
  <1>6. C(j) <= C(i)
    BY <1>5 DEF T
  <1> QED
    BY <1>6 DEF C

\* The first n objects were told the same.
Alike(objects, others, n) == \A k \in 1..n : others[k].last = objects[k].last

\* Objects that were told the same are worth the same.
LEMMA AlikeFacts ==
  ASSUME NEW objects, NEW others, NEW n \in Nat, Parted(objects, n),
         Alike(objects, others, n)
  PROVE  /\ Parted(others, n)
         /\ \A k \in 0..n : Scale(others, k) = Scale(objects, k) /\ Total(others, k) = Total(objects, k)
  <1>0. \A k \in 1..n : others[k].last = objects[k].last
    BY DEF Alike
  <1>1. Parted(others, n)
    BY <1>0 DEF Parted
  <1>2. \A k \in 0..n : Scale(others, k) = Scale(objects, k)
    <2> DEFINE f == [k \in 0..n |-> Scale(others, k)]
               g == [k \in 0..n |-> Scale(objects, k)]
    <2>1. f[0] = g[0]
      BY <1>1, PartedFacts
    <2>2. \A k \in 1..n : objects[k].last.size \in Int /\ others[k].last.size \in Int
      BY <1>1 DEF Parted
    <2>3. ASSUME NEW k \in 1..n, f[k - 1] = g[k - 1] PROVE f[k] = g[k]
      <3>1. k \in 0..n /\ k - 1 \in 0..n
        OBVIOUS
      <3>2. Scale(others, k - 1) = Scale(objects, k - 1)
        BY <2>3, <3>1
      <3>3. /\ Scale(others, k) = (Scale(others, k - 1) * others[k].last.size) \div 100
            /\ Scale(objects, k) = (Scale(objects, k - 1) * objects[k].last.size) \div 100
        BY <2>2, ScaleFacts
      <3>4. others[k].last = objects[k].last
        BY <1>0
      <3>5. Scale(others, k) = Scale(objects, k)
        BY <3>2, <3>3, <3>4
      <3> QED
        BY <3>1, <3>5
    <2>4. \A k \in 0..n : f[k] = g[k]
      <3> HIDE DEF f, g
      <3>1. InStep(f, g, n)
        BY <2>3 DEF InStep
      <3> QED
        BY <2>1, <3>1, GoOnAlike
    <2> QED
      BY <2>4
  <1>3. \A k \in 0..n : Total(others, k) = Total(objects, k)
    <2> DEFINE f == [k \in 0..n |-> Total(others, k)]
               g == [k \in 0..n |-> Total(objects, k)]
    <2>1. f[0] = g[0]
      BY <1>1, PartedFacts
    <2>3. ASSUME NEW k \in 1..n, f[k - 1] = g[k - 1] PROVE f[k] = g[k]
      <3>1. k \in 0..n /\ k - 1 \in 0..n
        OBVIOUS
      <3>2. Total(others, k - 1) = Total(objects, k - 1) /\ Scale(others, k - 1) = Scale(objects, k - 1)
        BY <1>2, <2>3, <3>1
      <3>3. /\ Total(others, k) = Worth(others, k, others[k].last.progress)
            /\ Total(objects, k) = Worth(objects, k, objects[k].last.progress)
        BY <1>1, PartedFacts
      <3>4. Total(others, k) = Total(objects, k)
        BY <1>0, <3>2, <3>3 DEF Worth
      <3> QED
        BY <3>1, <3>4
    <2>4. \A k \in 0..n : f[k] = g[k]
      <3> HIDE DEF f, g
      <3>1. InStep(f, g, n)
        BY <2>3 DEF InStep
      <3> QED
        BY <2>1, <3>1, GoOnAlike
    <2> QED
      BY <2>4
  <1> QED
    BY <1>1, <1>2, <1>3

LEMMA WorthFacts ==
  ASSUME NEW objects, NEW d \in Nat \ {0}, Parted(objects, d - 1), NEW p \in Int, NEW q \in Int, p <= q
  PROVE  /\ Worth(objects, d, p) \in Int
         /\ p >= 0 => Worth(objects, d, p) \in Nat
         /\ Worth(objects, d, p) <= Worth(objects, d, q)
         /\ Worth(objects, d, 0) = Total(objects, d - 1)
  <1>1. d - 1 \in Nat /\ d - 1 \in 0..(d - 1)
    OBVIOUS
  <1>2. Total(objects, d - 1) \in Nat /\ Scale(objects, d - 1) \in Nat
    BY <1>1, PartedFacts
  <1>3. \A o \in Nat, s \in Nat : /\ o + p * s \in Int /\ (p >= 0 => o + p * s \in Nat)
                                  /\ o + p * s <= o + q * s /\ o + 0 * s = o
    OBVIOUS
  <1> QED
    BY <1>2, <1>3 DEF Worth

\* The overall progress of an update: only the parts above count.
LEMMA OverallFacts ==
  ASSUME NEW objects, NEW n \in Nat \ {0}, Parted(objects, n - 1), NEW others,
         \A k \in 1..(n - 1) : others[k].last = objects[k].last,
         others[n].last.progress \in Int
  PROVE  OverallProgress(others, n) = Worth(objects, n, others[n].last.progress)
  <1> DEFINE m == n - 1
             p == others[n].last.progress
  <1>1. m \in Nat /\ m \in 0..m /\ n \in 1..n
    OBVIOUS
  <1>2. /\ Parted(others, m)
        /\ \A k \in 0..m : Scale(others, k) = Scale(objects, k) /\ Total(others, k) = Total(objects, k)
    <2>1. Alike(objects, others, m)
      BY DEF Alike
    <2> QED
      BY <1>1, <2>1, AlikeFacts
  <1>3. p # NotFinite
    BY NotFiniteAssumption
  <1>4. ASSUME NEW k \in 1..n
        PROVE  others[k].last.progress \in Int /\ Scale(others, k - 1) \in Int
    <2>1. k - 1 \in 0..m
      OBVIOUS
    <2>2. Scale(others, k - 1) \in Int
      BY <1>1, <1>2, <2>1, PartedFacts
    <2>3. others[k].last.progress \in Int
      <3>1. CASE k = n
        BY <3>1
      <3>2. CASE k # n
        BY <1>2, <3>2 DEF Parted
      <3> QED
        BY <3>1, <3>2
    <2> QED
      BY <2>2, <2>3
  <1>5. Total(others, n) = Total(others, n - 1) + p * Scale(others, n - 1)
    BY <1>1, <1>4, TotalFacts
  <1>6. OverallProgress(others, n) = Total(others, n)
    BY <1>3, OverallIsTotal
  <1> QED
    BY <1>1, <1>2, <1>5, <1>6 DEF Worth
---------------------------------------------------------------------------
\* What the objects above a heard one have handed on.
LEMMA ParentsParted ==
  ASSUME InformedInv, NEW d \in 1..Depth, Heard(call, d)
  PROVE  /\ Parted(stack, d - 1)
         /\ \A k \in 1..(d - 1) :
              LET steps == JobSteps(stack[k])
                  taken == stack[k].next - 1
              IN  /\ Heard(call, k)
                  /\ taken \in 1..Len(steps) /\ NestedOK(stack[k].job, steps, taken)
                  /\ \/ stack[k].last = LastOf(steps[taken])
                     \/ stack[k].last.progress = 0 /\ stack[k].last.size = 0
  <1>1. StackInv
    BY DEF InformedInv
  <1>2. ASSUME NEW k \in 1..(d - 1)
        PROVE  LET steps == JobSteps(stack[k])
                   taken == stack[k].next - 1
               IN  /\ Heard(call, k)
                   /\ taken \in 1..Len(steps) /\ NestedOK(stack[k].job, steps, taken)
                   /\ \/ stack[k].last = LastOf(steps[taken])
                      \/ stack[k].last.progress = 0 /\ stack[k].last.size = 0
    <2> DEFINE steps == JobSteps(stack[k])
               taken == stack[k].next - 1
    <2>1. Depth \in Nat
      BY <1>1, LevelFacts
    <2>2. k \in 1..d /\ k \in 1..Depth /\ k < Depth
      BY <2>1
    <2>3. Heard(call, k)
      BY <1>1, <2>2, HeardBelow
    <2>4. LastOK(call, stack, k)
      BY <2>2, <2>3 DEF InformedInv, LastsOK, Depth
    <2>5. /\ stack[k].next \in Nat /\ stack[k].last \in Lasts
          /\ stack[k].next <= Len(steps) + 1 /\ Len(steps) \in Nat
          /\ JobOK(stack[k].job, steps, call.counts)
          /\ ObjectOK(call, stack, k)
      BY <1>1, <2>2, LevelFacts
    <2>6. /\ stack[k].next >= 2 /\ steps[taken].nested # NoJob
      BY <2>2, <2>5 DEF ObjectOK, Depth, JobSteps, StepsOf
    <2>7. taken \in 1..Len(steps) /\ taken > 0
      BY <2>5, <2>6
    <2>8. NestedOK(stack[k].job, steps, taken)
      BY <2>5, <2>6, <2>7 DEF JobOK
    <2>9. steps[taken].type # "WARNING"
      BY <2>8 DEF NestedOK
    <2>10. stack[k].last = LastOf(steps[taken]) \/ stack[k].last.type = "WARNING"
      BY <2>4, <2>7, <2>9 DEF LastOK, JobSteps, StepsOf
    <2>11. stack[k].last.type = "WARNING" => stack[k].last.progress = 0 /\ stack[k].last.size = 0
      <3> DEFINE l == stack[k].last
      <3>1. l \in Lasts
        BY <2>5
      <3> HIDE DEF l
      <3>2. l.type = "WARNING" => l.progress = 0 /\ l.size = 0
        BY <3>1 DEF Lasts
      <3> QED
        BY <3>2 DEF l
    <2> QED
      BY <2>3, <2>7, <2>8, <2>10, <2>11
  <1>3. ASSUME NEW k \in 1..(d - 1)
        PROVE  /\ stack[k].last.progress \in Nat /\ stack[k].last.size \in Nat
               /\ stack[k].last.progress + stack[k].last.size <= 100
    <2> DEFINE steps == JobSteps(stack[k])
               taken == stack[k].next - 1
    <2>1. /\ NestedOK(stack[k].job, steps, taken)
          /\ \/ stack[k].last = LastOf(steps[taken])
             \/ stack[k].last.progress = 0 /\ stack[k].last.size = 0
      BY <1>2
    <2> HIDE DEF steps, taken
    <2>2. /\ steps[taken].progress \in Nat /\ steps[taken].size \in Nat
          /\ steps[taken].progress + steps[taken].size <= 100
      BY <2>1 DEF NestedOK, PartEndsAt
    <2> QED
      BY <2>1, <2>2 DEF LastOf
  <1> QED
    BY <1>2, <1>3 DEF Parted

\* What an update tells the caller.
LEMMA TellFacts ==
  ASSUME InformedInv, NEW d \in 1..Depth, NEW step, LastOf(step) \in Lasts, Tell(d, step)
  PROVE  /\ ~ Heard(call, d) => heard' = heard /\ reached' = reached
         /\ Heard(call, d) =>
              /\ heard'.type = step.type /\ heard'.level = d - 1
              /\ step.progress \in Int => heard'.overall = Worth(stack, d, step.progress)
              /\ reached' = IF step.type # "WARNING" THEN heard'.overall ELSE reached
  <1>1. StackInv /\ stack \in Seq(Objects) /\ Depth \in Nat
    BY DEF InformedInv, StackInv, StackOK, Depth
  <1>2. Sends(d) <=> Heard(call, d)
    BY <1>1, SendsHeard
  <1>3. CASE ~ Heard(call, d)
    BY <1>2, <1>3 DEF Tell
  <1>4. CASE Heard(call, d)
    <2> DEFINE u == Updated(d, step)
               o == OverallProgress(u, d)
    <2>1. /\ heard' = [type |-> step.type, level |-> d - 1,
                       progress |-> step.progress, overall |-> o]
          /\ reached' = IF step.type # "WARNING" THEN o ELSE reached
      BY <1>2, <1>4 DEF Tell
    <2>2. u = WithLast(stack, d, step)
      BY DEF Updated, WithLast
    <2>3. /\ \A k \in 1..Depth : k # d => u[k].last = stack[k].last
          /\ u[d].last = LastOf(step)
      BY <1>1, <2>2, WithLastFacts DEF Depth
    <2>4. \A k \in 1..(d - 1) : u[k].last = stack[k].last
      BY <1>1, <2>3
    <2>5. u[d].last.progress = step.progress
      BY <2>3 DEF LastOf
    <2>6. Parted(stack, d - 1) /\ d \in Nat \ {0}
      BY <1>1, <1>4, ParentsParted
    <2> HIDE DEF u
    <2>7. step.progress \in Int => o = Worth(stack, d, step.progress)
      BY <2>4, <2>5, <2>6, OverallFacts
    <2> HIDE DEF o
    <2>8. heard'.type = step.type /\ heard'.level = d - 1 /\ heard'.overall = o
      BY <2>1
    <2> QED
      BY <1>4, <2>1, <2>7, <2>8
  <1> QED
    BY <1>3, <1>4

LEMMA WorthInRange ==
  ASSUME InformedInv, NEW d \in 1..Depth, Heard(call, d), NEW p \in 0..100
  PROVE  Worth(stack, d, p) \in 0..(100 * Unit)
  <1>1. Parted(stack, d - 1)
    BY ParentsParted
  <1>2. d \in Nat \ {0} /\ d - 1 \in Nat /\ 0 \in 0..(d - 1) /\ d - 1 \in 0..(d - 1)
    OBVIOUS
  <1>3. /\ Worth(stack, d, p) \in Nat /\ Worth(stack, d, 100) \in Int
        /\ Worth(stack, d, p) <= Worth(stack, d, 100)
    <2>1. p \in Int /\ 100 \in Int /\ p <= 100 /\ 100 <= 100 /\ p >= 0
      OBVIOUS
    <2> QED
      BY <1>1, <1>2, <2>1, WorthFacts
  <1>4. Worth(stack, d, 100) <= 100 * Unit
    <2>1. Total(stack, d - 1) + 100 * Scale(stack, d - 1) <= Total(stack, 0) + 100 * Scale(stack, 0)
      BY <1>1, <1>2, DeeperEndsEarlier
    <2>2. Total(stack, 0) = 0 /\ Scale(stack, 0) = Unit
      BY <1>1, <1>2, PartedFacts
    <2>3. 0 + 100 * Unit = 100 * Unit
      BY DEF Unit, MaxDepth
    <2> QED
      BY <2>1, <2>2, <2>3 DEF Worth
  <1>5. 100 * Unit \in Int
    BY DEF Unit, MaxDepth
  <1> HIDE DEF Unit
  <1> QED
    BY <1>3, <1>4, <1>5

\* Only the loops of Diff that run over removed resources count too far.
LEMMA ProgressInRange ==
  ASSUME StackInv, NEW d \in 1..Depth, ~ MoreRemovedThanLatest
  PROVE  /\ Within(JobSteps(stack[d]))
         /\ ~ StreamsFiles => Ordered(JobSteps(stack[d]))
  <1>1. /\ JobOK(stack[d].job, JobSteps(stack[d]), call.counts)
        /\ ObjectOK(call, stack, d)
    BY LevelFacts
  <1>2. Origin(call, stack[d].job)
    BY <1>1 DEF ObjectOK
  <1>3. ~ ManyRemoved(stack[d].job, call.counts)
    BY <1>2 DEF ManyRemoved, MoreRemovedThanLatest, Origin
  <1>4. ~ StreamsFiles => ~ Streams(stack[d].job, call.counts)
    BY <1>2 DEF Streams, StreamsFiles, Origin
  <1> QED
    BY <1>1, <1>3, <1>4 DEF JobOK

\* The last call of the callback.
HeardOK ==
  heard # Nothing =>
    /\ heard.type \in {"UNBOUNDED", "PERCENTAGE", "WARNING", "START", "END"}
    /\ heard.level \in 0..(MaxDepth - 1)
    /\ MoreRemovedThanLatest \/ heard.overall \in 0..(100 * Unit)

LEMMA DepthBound == ASSUME StackInv PROVE Depth \in 0..MaxDepth
  <1>1. stack \in Seq(Objects)
    BY DEF StackInv, StackOK
  <1>2. Depth \in Nat
    BY <1>1 DEF Depth
  <1>3. CASE Depth = 0
    BY <1>3 DEF MaxDepth
  <1>4. CASE Depth # 0
    <2>1. Depth \in 1..Depth
      BY <1>2, <1>4
    <2>2. Height(stack[Depth].job) <= 5 - Depth
      BY <2>1, LevelFacts DEF ObjectOK
    <2>3. Height(stack[Depth].job) \in 1..4
      BY HeightIs
    <2> QED
      BY <1>2, <2>2, <2>3 DEF MaxDepth
  <1> QED
    BY <1>3, <1>4

LEMMA HeardStaysOK ==
  ASSUME InformedInv, HeardOK, call' = call, NEW d \in 1..Depth, NEW step,
         LastOf(step) \in Lasts, Tell(d, step),
         MoreRemovedThanLatest \/ step.progress \in 0..100
  PROVE  HeardOK'
  <1>1. MoreRemovedThanLatest' <=> MoreRemovedThanLatest
    BY DEF MoreRemovedThanLatest
  <1>2. CASE ~ Heard(call, d)
    <2>1. heard' = heard
      BY <1>2, TellFacts
    <2> QED
      BY <1>1, <2>1 DEF HeardOK
  <1>3. CASE Heard(call, d)
    <2>1. /\ heard'.type = step.type /\ heard'.level = d - 1
          /\ step.progress \in Int => heard'.overall = Worth(stack, d, step.progress)
      BY <1>3, TellFacts
    <2>2. step.type \in {"UNBOUNDED", "PERCENTAGE", "WARNING", "START", "END"}
      BY DEF LastOf, Lasts
    <2>3. d - 1 \in 0..(MaxDepth - 1)
      <3>1. Depth \in 0..MaxDepth
        BY DepthBound DEF InformedInv
      <3> QED
        BY <3>1 DEF MaxDepth
    <2>4. step.progress \in 0..100 => heard'.overall \in 0..(100 * Unit)
      <3>1. ASSUME step.progress \in 0..100 PROVE heard'.overall = Worth(stack, d, step.progress)
        BY <2>1, <3>1
      <3> QED
        BY <1>3, <3>1, WorthInRange
    <2>5. MoreRemovedThanLatest \/ heard'.overall \in 0..(100 * Unit)
      BY <2>4
    <2> QED
      BY <1>1, <2>1, <2>2, <2>3, <2>5 DEF HeardOK
  <1> QED
    BY <1>2, <1>3

LEMMA HeardInit == Init => HeardOK
  BY DEF Init, HeardOK

LEMMA HeardNext == InformedInv /\ HeardOK /\ [Next]_vars => HeardOK'
  <1> SUFFICES ASSUME InformedInv, HeardOK, [Next]_vars PROVE HeardOK'
    OBVIOUS
  <1>1. StackInv
    BY DEF InformedInv
  <1>2. ASSUME call' = call, heard' = heard PROVE HeardOK'
    BY <1>2 DEF HeardOK, MoreRemovedThanLatest
  <1>3. ASSUME Running
        PROVE  /\ Depth \in 1..Depth /\ LastOf(NextStep) \in Lasts
               /\ MoreRemovedThanLatest \/ NextStep.progress \in 0..100
    <2>1. /\ Depth \in 1..Depth /\ LastOf(NextStep) \in Lasts
          /\ Top.next \in 1..Len(JobSteps(Top))
      BY <1>1, <1>3, RunningFacts
    <2>2. MoreRemovedThanLatest \/ NextStep.progress \in 0..100
      BY <1>1, <2>1, ProgressInRange DEF Within, NextStep, Top
    <2> QED
      BY <2>1, <2>2
  <1>4. CASE Start
    <2>1. Depth \in 1..Depth /\ Tell(Depth, StartStep) /\ call' = call
      BY <1>1, <1>4, StartMoves
    <2>2. StartStep.progress \in 0..100
      BY EdgeSteps
    <2> QED
      BY <2>1, <2>2, EdgeSteps, HeardStaysOK
  <1>5. CASE Progress
    <2>1. /\ Heard(call, Depth) => Tell(Depth, NextStep)
          /\ ~ Heard(call, Depth) => heard' = heard
          /\ call' = call
      BY <1>1, <1>5, ProgressMoves
    <2>2. CASE Heard(call, Depth)
      BY <1>3, <1>5, <2>1, <2>2, HeardStaysOK DEF Progress
    <2>3. CASE ~ Heard(call, Depth)
      BY <1>2, <2>1, <2>3
    <2> QED
      BY <2>2, <2>3
  <1>6. CASE OpenJob
    <2>1. Tell(Depth, NextStep) /\ call' = call
      BY <1>1, <1>6, OpenMoves
    <2> QED
      BY <1>3, <1>6, <2>1, HeardStaysOK DEF OpenJob
  <1>7. CASE Warn
    <2>1. call' = call /\ NextStep.type = "WARNING"
      BY <1>1, <1>7, WarnMoves
    <2>2. CASE heard' = heard
      BY <1>2, <2>1, <2>2
    <2>3. CASE \E d \in {Depth, Depth - 1} \cap 1..Depth : Tell(d, NextStep)
      <3>1. PICK d \in 1..Depth : Tell(d, NextStep)
        BY <2>3
      <3> QED
        BY <1>3, <1>7, <2>1, <3>1, HeardStaysOK DEF Warn
    <2> QED
      BY <1>1, <1>7, <2>2, <2>3, WarnMoves
  <1>8. CASE Fail
    BY <1>2, <1>8 DEF Fail
  <1>9. CASE End
    <2>1. Depth \in 1..Depth /\ Tell(Depth, EndStep) /\ call' = call
      BY <1>1, <1>9, EndMoves
    <2>2. EndStep.progress \in 0..100
      BY EdgeSteps
    <2> QED
      BY <2>1, <2>2, EdgeSteps, HeardStaysOK
  <1>10. CASE UNCHANGED vars
    BY <1>2, <1>10 DEF vars
  <1> QED
    BY <1>4, <1>5, <1>6, <1>7, <1>8, <1>9, <1>10 DEF Next

\* The jobs are nested no deeper than four, and the overall progress is between
\* 0 and 100% of the call, unless Diff has removed more than there is left.
THEOREM StatusTypeCorrect == Spec => []StatusTypeOK
  <1>1. InformedInv /\ HeardOK => StatusTypeOK
    BY DepthBound DEF InformedInv, StackInv, HeardOK, StatusTypeOK
  <1> QED
    BY <1>1, Informed, HeardInit, HeardNext, PTL DEF Spec
---------------------------------------------------------------------------
\* What the d-th object has still to say is not behind what was heard.
Room(c, s, r, d) ==
  /\ r <= Worth(s, d, 100)
  /\ s[d].next = 0 => r <= Worth(s, d, 0)
  /\ \A k \in 1..Len(StepsOf(c, s[d])) :
       k >= s[d].next /\ StepsOf(c, s[d])[k].type # "WARNING"
         => r <= Worth(s, d, StepsOf(c, s[d])[k].progress)

\* A warning on an object makes nothing of all that its part is worth.
Warned(s, d) == \E k \in 1..(d - 1) : s[k].last.type = "WARNING"

Rooms(c, s, r) ==
  \A d \in 1..Len(s) : Heard(c, d) => Warned(s, d) \/ Room(c, s, r, d)

Exempt == MoreRemovedThanLatest \/ StreamsFiles

ReachedOK ==
  Exempt \/ (reached \in Int /\ Rooms(call, stack, reached))

\* The same object, some steps later.
LEMMA RoomStays ==
  ASSUME NEW c, NEW s, NEW t, NEW d \in Nat \ {0}, NEW r \in Int, Parted(s, d - 1),
         \A k \in 1..(d - 1) : t[k].last = s[k].last,
         t[d].job = s[d].job, t[d].next \in Nat, s[d].next \in Nat,
         s[d].next <= t[d].next, Room(c, s, r, d)
  PROVE  Room(c, t, r, d)
  <1>1. d - 1 \in Nat /\ d - 1 \in 0..(d - 1)
    OBVIOUS
  <1>2. Scale(t, d - 1) = Scale(s, d - 1) /\ Total(t, d - 1) = Total(s, d - 1)
    <2> DEFINE n == d - 1
    <2>1. n \in Nat /\ n \in 0..n /\ Parted(s, n) /\ Alike(s, t, n)
      BY <1>1 DEF Alike
    <2> HIDE DEF n
    <2>2. \A k \in 0..n : Scale(t, k) = Scale(s, k) /\ Total(t, k) = Total(s, k)
      BY <2>1, AlikeFacts
    <2> QED
      BY <2>1, <2>2 DEF n
  <1>3. \A p : Worth(t, d, p) = Worth(s, d, p)
    BY <1>2 DEF Worth
  <1>4. StepsOf(c, t[d]) = StepsOf(c, s[d])
    BY DEF StepsOf
  <1>5. t[d].next = 0 => s[d].next = 0
    OBVIOUS
  <1>6. r <= Worth(t, d, 100) /\ (t[d].next = 0 => r <= Worth(t, d, 0))
    BY <1>3, <1>5 DEF Room
  <1>7. ASSUME NEW k \in 1..Len(StepsOf(c, t[d])), k >= t[d].next,
               StepsOf(c, t[d])[k].type # "WARNING"
        PROVE  r <= Worth(t, d, StepsOf(c, t[d])[k].progress)
    <2>1. k \in Int /\ k >= s[d].next
      BY <1>7
    <2> QED
      BY <1>3, <1>4, <1>7, <2>1 DEF Room
  <1> QED
    BY <1>6, <1>7 DEF Room

\* What an update makes the caller hear leaves room for the steps of the
\* objects above: none of them goes back behind the part it has handed on.
LEMMA RoomAbove ==
  ASSUME InformedInv, ~ Exempt, NEW e \in 1..Depth, Heard(call, e), NEW p \in 0..100,
         NEW d \in 1..(e - 1)
  PROVE  Room(call, stack, Worth(stack, e, p), d)
  <1> DEFINE r == Worth(stack, e, p)
             steps == JobSteps(stack[d])
             taken == stack[d].next - 1
             q == stack[d].last.progress + stack[d].last.size
  <1>1. StackInv /\ Depth \in Nat /\ d \in 1..Depth /\ d \in Nat \ {0} /\ e \in Nat \ {0}
    <2>1. StackInv /\ Depth \in Nat
      BY LevelFacts DEF InformedInv
    <2> QED
      BY <2>1
  <1>2. /\ Parted(stack, e - 1)
        /\ Heard(call, d)
        /\ taken \in 1..Len(steps) /\ NestedOK(stack[d].job, steps, taken)
        /\ \/ stack[d].last = LastOf(steps[taken])
           \/ stack[d].last.progress = 0 /\ stack[d].last.size = 0
    BY ParentsParted
  <1>3. Parted(stack, d - 1)
    BY <1>1, <1>2, ParentsParted
  <1>4. e - 1 \in Nat /\ d \in 1..(e - 1) /\ e - 1 \in d..(e - 1) /\ d \in 0..(e - 1)
    BY <1>1
  <1> HIDE DEF steps, taken
  <1>5. q \in Nat /\ q <= 100
    <2>1. /\ stack[d].last.progress \in Nat /\ stack[d].last.size \in Nat
          /\ stack[d].last.progress + stack[d].last.size <= 100
      BY <1>2, <1>4 DEF Parted
    <2> QED
      BY <2>1
  <1>6. r \in Int /\ r <= Worth(stack, e, 100) /\ Worth(stack, e, 100) \in Int
    <2>1. p \in Int /\ 100 \in Int /\ p <= 100 /\ 100 <= 100
      OBVIOUS
    <2> QED
      BY <1>1, <1>2, <2>1, WorthFacts
  <1>7. Worth(stack, e, 100) <= Worth(stack, d, q)
    <2>1. Worth(stack, e, 100) = Total(stack, e - 1) + 100 * Scale(stack, e - 1)
      BY DEF Worth
    <2>2. Total(stack, e - 1) + 100 * Scale(stack, e - 1) <= Total(stack, d) + 100 * Scale(stack, d)
      BY <1>2, <1>4, DeeperEndsEarlier
    <2>3. Total(stack, d) + 100 * Scale(stack, d) <= Worth(stack, d, q)
      BY <1>2, <1>4, PartedFacts
    <2>4. Total(stack, d) + 100 * Scale(stack, d) \in Int
      <3>1. Total(stack, d) \in Nat /\ Scale(stack, d) \in Nat
        BY <1>2, <1>4, PartedFacts
      <3> QED
        BY <3>1
    <2>5. Worth(stack, d, q) \in Int
      <3> HIDE DEF q
      <3>1. q \in Int /\ q <= q
        BY <1>5
      <3> QED
        BY <1>1, <1>3, <3>1, WorthFacts
    <2> QED
      BY <1>6, <2>1, <2>2, <2>3, <2>4, <2>5
  <1> HIDE DEF r, q
  <1>8. ASSUME NEW x \in Int, q <= x PROVE r <= Worth(stack, d, x)
    <2>1. /\ Worth(stack, d, q) \in Int /\ Worth(stack, d, x) \in Int
          /\ Worth(stack, d, q) <= Worth(stack, d, x)
      <3>1. q \in Int /\ x <= x
        BY <1>5
      <3> QED
        BY <1>1, <1>3, <1>8, <3>1, WorthFacts
    <2> QED
      BY <1>6, <1>7, <2>1
  <1>9. r <= Worth(stack, d, 100)
    BY <1>5, <1>8
  <1>10. stack[d].next \in Nat /\ stack[d].next # 0 /\ Len(steps) \in Nat
    BY <1>1, <1>2, LevelFacts DEF steps, taken
  <1>11. ASSUME NEW k \in 1..Len(steps), k >= stack[d].next, steps[k].type # "WARNING"
         PROVE  r <= Worth(stack, d, steps[k].progress)
    <2>1. Within(steps) /\ Ordered(steps)
      BY <1>1, ProgressInRange DEF Exempt, steps
    <2>2. steps[k].progress \in 0..100
      BY <2>1 DEF Within
    <2>3. taken < k
      BY <1>10, <1>11 DEF taken
    <2>4. PartEndsAt(steps, taken) <= steps[k].progress
      <3>1. steps[taken].type # "WARNING"
        BY <1>2 DEF NestedOK
      <3>2. steps[taken].nested # NoJob
        <4>1. ObjectOK(call, stack, d) /\ d < Depth
          BY <1>1, LevelFacts
        <4> QED
          BY <4>1 DEF ObjectOK, JobSteps, StepsOf, Depth, steps, taken
      <3> QED
        BY <1>2, <1>11, <2>1, <2>3, <3>1, <3>2 DEF Ordered
    <2>5. q = 0 \/ q = PartEndsAt(steps, taken)
      BY <1>2 DEF q, PartEndsAt, LastOf
    <2>6. q <= steps[k].progress /\ steps[k].progress \in Int
      <3>0. \A x \in 0..100 : x \in Int /\ 0 <= x
        OBVIOUS
      <3>1. steps[k].progress \in Int /\ 0 <= steps[k].progress
        BY <2>2, <3>0, Zenon
      <3>2. CASE q = 0
        BY <3>1, <3>2
      <3>3. CASE q = PartEndsAt(steps, taken)
        BY <2>4, <3>1, <3>3
      <3> QED
        BY <2>5, <3>2, <3>3
    <2> QED
      BY <1>8, <2>6
  <1>12. Room(call, stack, r, d)
    BY <1>9, <1>10, <1>11 DEF Room, JobSteps, StepsOf, steps
  <1> QED
    BY <1>12 DEF r

\* An object that has not begun has room for all its steps.
LEMMA RoomFresh ==
  ASSUME NEW c, NEW s, NEW d \in Nat \ {0}, Parted(s, d - 1), NEW r \in Int,
         r <= Worth(s, d, 0), Within(StepsOf(c, s[d]))
  PROVE  Room(c, s, r, d)
  <1>1. ASSUME NEW p \in 0..100 PROVE r <= Worth(s, d, p)
    <2>1. 0 \in Int /\ p \in Int /\ 0 <= p /\ p <= p
      OBVIOUS
    <2>2. Worth(s, d, 0) <= Worth(s, d, p) /\ Worth(s, d, 0) \in Int /\ Worth(s, d, p) \in Int
      BY <2>1, WorthFacts
    <2> QED
      BY <2>2
  <1>2. ASSUME NEW k \in 1..Len(StepsOf(c, s[d])) PROVE StepsOf(c, s[d])[k].progress \in 0..100
    BY DEF Within
  <1>3. r <= Worth(s, d, 100)
    BY <1>1
  <1> QED
    BY <1>1, <1>2, <1>3 DEF Room

\* The stack after a step of which the caller does not hear, or a warning.
LEMMA ReachedQuiet ==
  ASSUME InformedInv, stack # <<>>, reached \in Int, Rooms(call, stack, reached),
         NEW t, NEW e, NEW last, Moved(stack, t, e, last), e # 0 => last.type = "WARNING"
  PROVE  Rooms(call, t, reached)
  <1>1. StackInv /\ stack \in Seq(Objects) /\ Depth \in Nat /\ Depth \in 1..Depth
    BY DEF InformedInv, StackInv, StackOK, Depth
  <1>2. /\ t \in Seq(Objects) /\ Len(t) = Depth
        /\ \A k \in 1..Depth : /\ t[k].job = stack[k].job
                               /\ k # Depth => t[k].next = stack[k].next
                               /\ k # e => t[k].last = stack[k].last
                               /\ k = e => t[k].last = last
        /\ t[Depth].next = stack[Depth].next + 1
    BY DEF Moved, Depth
  <1> SUFFICES ASSUME NEW d \in 1..Depth, Heard(call, d), ~ Warned(t, d)
               PROVE  Room(call, t, reached, d)
    BY <1>2 DEF Rooms
  <1>3. \A k \in 1..(d - 1) : k \in 1..Depth /\ t[k].last.type # "WARNING"
    BY <1>1 DEF Warned
  <1>4. \A k \in 1..(d - 1) : t[k].last = stack[k].last
    <2>1. ASSUME NEW k \in 1..(d - 1), k = e PROVE FALSE
      <3>1. k # 0 /\ t[k].last = last
        BY <1>2, <1>3, <2>1
      <3> QED
        BY <1>3, <2>1, <3>1
    <2> QED
      BY <1>2, <1>3, <2>1
  <1>5. ~ Warned(stack, d)
    BY <1>3, <1>4 DEF Warned
  <1>6. Room(call, stack, reached, d)
    BY <1>5 DEF Rooms, Depth
  <1>7. Parted(stack, d - 1) /\ d \in Nat \ {0} /\ stack[d].next \in Nat
    BY <1>1, ParentsParted, LevelFacts
  <1>8. t[d].job = stack[d].job /\ t[d].next \in Nat /\ stack[d].next <= t[d].next
    BY <1>2, <1>7
  <1> QED
    BY <1>4, <1>6, <1>7, <1>8, RoomStays

\* The stack after an update the caller hears.
LEMMA ReachedTold ==
  ASSUME InformedInv, ~ Exempt, stack # <<>>, Heard(call, Depth), NEW p \in 0..100,
         NEW t, NEW last, Moved(stack, t, Depth, last),
         \A k \in 1..Len(JobSteps(Top)) :
           k > Top.next /\ JobSteps(Top)[k].type # "WARNING" => p <= JobSteps(Top)[k].progress
  PROVE  Rooms(call, t, Worth(stack, Depth, p))
  <1> DEFINE e == Depth
             r == Worth(stack, e, p)
  <1>1. StackInv /\ stack \in Seq(Objects) /\ e \in Nat /\ e \in 1..e /\ e \in Nat \ {0}
    BY DEF InformedInv, StackInv, StackOK, Depth
  <1>2. /\ t \in Seq(Objects) /\ Len(t) = e
        /\ \A k \in 1..e : /\ t[k].job = stack[k].job
                           /\ k # e => t[k].next = stack[k].next
                           /\ k # e => t[k].last = stack[k].last
        /\ t[e].next = stack[e].next + 1
    BY DEF Moved, Depth
  <1>3. Parted(stack, e - 1)
    BY <1>1, ParentsParted
  <1>4. r \in Int
    <2>1. p \in Int /\ p <= p
      OBVIOUS
    <2> QED
      BY <1>1, <1>3, <2>1, WorthFacts
  <1> HIDE DEF r
  <1>5. ASSUME NEW d \in 1..(e - 1), Heard(call, d) PROVE Room(call, t, r, d)
    <2>1. Room(call, stack, r, d)
      BY <1>1, RoomAbove DEF r
    <2>2. d \in 1..Depth /\ d # e /\ d \in Nat \ {0} /\ \A k \in 1..(d - 1) : k \in 1..e /\ k # e
      BY <1>1
    <2>3. Parted(stack, d - 1) /\ stack[d].next \in Nat
      BY <1>1, <1>5, <2>2, ParentsParted, LevelFacts
    <2>4. /\ \A k \in 1..(d - 1) : t[k].last = stack[k].last
          /\ t[d].job = stack[d].job /\ t[d].next = stack[d].next
      BY <1>2, <2>2
    <2>5. stack[d].next <= t[d].next /\ t[d].next \in Nat
      BY <2>3, <2>4
    <2> QED
      BY <1>4, <2>1, <2>2, <2>3, <2>4, <2>5, RoomStays
  <1>6. Room(call, t, r, e)
    <2>1. \A x : Worth(t, e, x) = Worth(stack, e, x)
      <3> DEFINE n == e - 1
      <3>1. n \in Nat /\ n \in 0..n
        BY <1>1
      <3>2. Alike(stack, t, n)
        <4>1. \A k \in 1..n : k \in 1..e /\ k # e
          BY <1>1
        <4> QED
          BY <1>2, <4>1 DEF Alike
      <3>3. Parted(stack, n)
        BY <1>3
      <3> HIDE DEF n
      <3>4. Scale(t, n) = Scale(stack, n) /\ Total(t, n) = Total(stack, n)
        BY <3>1, <3>2, <3>3, AlikeFacts
      <3> QED
        BY <3>4 DEF Worth, n
    <2>2. ASSUME NEW x \in Int, p <= x PROVE r <= Worth(t, e, x)
      <3>1. p \in Int
        OBVIOUS
      <3>2. Worth(stack, e, p) <= Worth(stack, e, x)
        BY <1>1, <1>3, <2>2, <3>1, WorthFacts
      <3> QED
        BY <2>1, <3>2 DEF r
    <2>3. stack[e].next \in Nat /\ t[e].next # 0 /\ StepsOf(call, t[e]) = JobSteps(Top)
          /\ t[e].next = Top.next + 1 /\ Top.next \in Nat
      BY <1>1, <1>2, LevelFacts DEF StepsOf, JobSteps, Top
    <2>4. ASSUME NEW k \in 1..Len(JobSteps(Top)), k >= t[e].next, JobSteps(Top)[k].type # "WARNING"
          PROVE  r <= Worth(t, e, JobSteps(Top)[k].progress)
      <3>1. k > Top.next
        BY <2>3, <2>4
      <3>2. p <= JobSteps(Top)[k].progress
        BY <2>4, <3>1
      <3>3. JobSteps(Top)[k].progress \in Int
        <4>1. Within(JobSteps(Top))
          BY <1>1, ProgressInRange DEF Exempt, Top
        <4>2. \A x \in 0..100 : x \in Int
          OBVIOUS
        <4>3. JobSteps(Top)[k].progress \in 0..100
          BY <2>4, <4>1 DEF Within
        <4> QED
          BY <4>2, <4>3, Zenon
      <3> QED
        BY <2>2, <3>2, <3>3
    <2>5. r <= Worth(t, e, 100)
      <3>1. 100 \in Int /\ p <= 100
        OBVIOUS
      <3> QED
        BY <2>2, <3>1
    <2> QED
      BY <2>3, <2>4, <2>5 DEF Room
  <1>7. \A d \in 1..e : d = e \/ d \in 1..(e - 1)
    BY <1>1
  <1> QED
    BY <1>2, <1>5, <1>6, <1>7 DEF Rooms, r

\* The caller hears of no step that lies behind what was heard.
LEMMA ReachedForward ==
  ASSUME InformedInv, reached \in Int, Rooms(call, stack, reached), stack # <<>>,
         Heard(call, Depth), NEW p \in 0..100, ~ WarnedAbove,
         \/ p = 100
         \/ p = 0 /\ Top.next = 0
         \/ Top.next \in 1..Len(JobSteps(Top)) /\ NextStep.type # "WARNING" /\ p = NextStep.progress
  PROVE  reached <= Worth(stack, Depth, p)
  <1>1. Depth \in 1..Depth /\ StackInv
    BY DEF InformedInv, StackInv, StackOK, Depth
  <1>2. ~ Warned(stack, Depth)
    BY DEF Warned, WarnedAbove
  <1>3. Room(call, stack, reached, Depth)
    BY <1>1, <1>2 DEF Rooms, Depth
  <1>4. Top.next \in Nat
    BY <1>1, LevelFacts DEF Top
  <1> QED
    BY <1>3, <1>4 DEF Room, Top, NextStep, JobSteps, StepsOf

\* The innermost object and the steps that come after the one it takes.
LEMMA TopSteps ==
  ASSUME StackInv, Depth \in 1..Depth, ~ Exempt
  PROVE  /\ \A k \in 1..Len(JobSteps(Top)) : JobSteps(Top)[k].progress \in 0..100
         /\ Top.next \in 1..Len(JobSteps(Top)) /\ NextStep.type # "WARNING" =>
              \A k \in 1..Len(JobSteps(Top)) :
                k > Top.next /\ JobSteps(Top)[k].type # "WARNING" =>
                  NextStep.progress <= JobSteps(Top)[k].progress
  <1>1. Within(JobSteps(Top)) /\ Ordered(JobSteps(Top))
    BY ProgressInRange DEF Exempt, Top
  <1>2. \A k \in 1..Len(JobSteps(Top)) : JobSteps(Top)[k].progress \in 0..100
    BY <1>1 DEF Within
  <1>3. ASSUME Top.next \in 1..Len(JobSteps(Top)), NextStep.type # "WARNING",
               NEW k \in 1..Len(JobSteps(Top)), k > Top.next, JobSteps(Top)[k].type # "WARNING"
        PROVE  NextStep.progress <= JobSteps(Top)[k].progress
    BY <1>1, <1>3 DEF Ordered, NextStep
  <1> QED
    BY <1>2, <1>3

\* Where a step leaves the caller: not behind what was heard, unless there
\* is a warning above.
Onward ==
  /\ reached' \in Int
  /\ Rooms(call, stack', reached')
  /\ reached <= reached' \/ WarnedAbove

\* A step of the innermost job with an update that is no warning.
LEMMA OnwardTold ==
  ASSUME InformedInv, ~ Exempt, reached \in Int, Rooms(call, stack, reached),
         Depth \in 1..Depth, stack # <<>>, NEW step, LastOf(step) \in Lasts,
         step.type # "WARNING", step.progress \in 0..100,
         Heard(call, Depth) => Tell(Depth, step),
         ~ Heard(call, Depth) => reached' = reached,
         NEW t, Moved(stack, t, Told(Depth), LastOf(step)),
         \/ step.progress = 0 /\ Top.next = 0
         \/ Top.next \in 1..Len(JobSteps(Top)) /\ step = NextStep
  PROVE  /\ reached' \in Int /\ Rooms(call, t, reached')
         /\ reached <= reached' \/ WarnedAbove
         /\ Heard(call, Depth) => reached' = Worth(stack, Depth, step.progress)
  <1>1. StackInv
    BY DEF InformedInv
  <1>2. CASE ~ Heard(call, Depth)
    <2>1. Told(Depth) = 0 /\ reached' = reached
      BY <1>2 DEF Told
    <2>2. Rooms(call, t, reached)
      BY <2>1, ReachedQuiet
    <2> QED
      BY <1>2, <2>1, <2>2
  <1>3. CASE Heard(call, Depth)
    <2> DEFINE p == step.progress
    <2>1. Told(Depth) = Depth /\ p \in Int
      <3>1. \A x \in 0..100 : x \in Int
        OBVIOUS
      <3>2. p \in Int
        BY <3>1, Zenon
      <3> QED
        BY <1>3, <3>2 DEF Told
    <2>2. reached' = Worth(stack, Depth, p)
      BY <1>3, <2>1, TellFacts
    <2>3. \A k \in 1..Len(JobSteps(Top)) :
            k > Top.next /\ JobSteps(Top)[k].type # "WARNING" => p <= JobSteps(Top)[k].progress
      <3>1. CASE p = 0
        <4>1. \A x \in 0..100 : 0 <= x
          OBVIOUS
        <4>2. \A k \in 1..Len(JobSteps(Top)) : 0 <= JobSteps(Top)[k].progress
          BY <1>1, <4>1, TopSteps, Zenon
        <4> QED
          BY <3>1, <4>2
      <3>2. CASE Top.next \in 1..Len(JobSteps(Top)) /\ step = NextStep
        BY <1>1, <3>2, TopSteps
      <3> QED
        BY <3>1, <3>2
    <2>4. Rooms(call, t, Worth(stack, Depth, p))
      BY <1>3, <2>1, <2>3, ReachedTold
    <2>5. WarnedAbove \/ reached <= Worth(stack, Depth, p)
      BY <1>3, ReachedForward
    <2>6. Worth(stack, Depth, p) \in Int
      <3>1. Worth(stack, Depth, p) \in 0..(100 * Unit)
        BY <1>3, WorthInRange
      <3>2. 100 * Unit \in Int
        BY DEF Unit, MaxDepth
      <3> HIDE DEF Unit, p
      <3> QED
        BY <3>1, <3>2
    <2> QED
      BY <2>2, <2>4, <2>5, <2>6
  <1> QED
    BY <1>2, <1>3

LEMMA OnwardOpen ==
  ASSUME InformedInv, ~ Exempt, reached \in Int, Rooms(call, stack, reached), OpenJob
  PROVE  Onward
  <1>1. StackInv /\ Running /\ stack \in Seq(Objects)
    BY DEF InformedInv, OpenJob, StackInv, StackOK
  <1>2. PICK t : /\ Moved(stack, t, Told(Depth), LastOf(NextStep))
                 /\ stack' = Append(t, Settings(NextStep.nested, Sends(Depth)))
    BY <1>1, OpenMoves
  <1>3. /\ Depth \in 1..Depth /\ stack # <<>>
        /\ Top.next \in 1..Len(JobSteps(Top)) /\ LastOf(NextStep) \in Lasts
    BY <1>1, RunningFacts
  <1>4. /\ NestedOK(Top.job, JobSteps(Top), Top.next) /\ Tell(Depth, NextStep)
        /\ call' = call
    BY <1>1, OpenMoves
  <1>5. /\ NextStep.type # "WARNING" /\ NextStep.progress \in Nat /\ NextStep.size \in Nat
        /\ NextStep.progress + NextStep.size <= 100
    BY <1>4 DEF NestedOK, NextStep, PartEndsAt
  <1>6. NextStep.progress \in 0..100
    BY <1>5
  <1>7. ~ Heard(call, Depth) => reached' = reached
    BY <1>3, <1>4, TellFacts
  <1>8. /\ reached' \in Int /\ Rooms(call, t, reached')
        /\ reached <= reached' \/ WarnedAbove
        /\ Heard(call, Depth) => reached' = Worth(stack, Depth, NextStep.progress)
    BY <1>2, <1>3, <1>4, <1>5, <1>6, <1>7, OnwardTold
  <1> DEFINE n == Depth
             x == Settings(NextStep.nested, Sends(Depth))
  <1>9. n \in Nat /\ n # 0 /\ t \in Seq(Objects) /\ Len(t) = n
    BY <1>1, <1>2, <1>3 DEF Moved, Depth
  <1>10. stack' = Append(t, x) /\ x.next = 0
    BY <1>2 DEF Settings
  <1>11. \A k \in 1..(n - 1) : t[k].last = stack[k].last
    <2>1. \A k \in 1..(n - 1) : k \in 1..n /\ k # n /\ k # Told(Depth)
      BY <1>9 DEF Told
    <2> QED
      BY <1>2, <2>1 DEF Moved, Depth
  <1>12. Heard(call, n) => t[n].last = LastOf(NextStep)
    BY <1>2, <1>3 DEF Moved, Told, Depth
  <1> HIDE DEF n, x
  <1>13. Len(stack') = n + 1 /\ stack'[n + 1] = x /\ \A k \in 1..n : stack'[k] = t[k]
    BY <1>9, <1>10
  <1>14. ASSUME NEW d \in 1..n, Heard(call, d)
         PROVE  Warned(stack', d) \/ Room(call, stack', reached', d)
    <2>1. \A k \in 1..(d - 1) : k \in 1..n
      BY <1>9
    <2>2. CASE Warned(t, d)
      BY <1>13, <2>1, <2>2 DEF Warned
    <2>3. CASE Room(call, t, reached', d)
      <3>1. stack'[d] = t[d] /\ \A k \in 1..(d - 1) : stack'[k] = t[k]
        BY <1>13, <2>1
      <3>2. t[d].next \in Nat
        <4>1. t[d] \in Objects
          BY <1>9
        <4> QED
          BY <4>1 DEF Objects
      <3>3. Parted(t, d - 1) /\ d \in Nat \ {0}
        <4>1. d \in 1..Depth /\ d - 1 \in Nat
          BY <1>9 DEF n
        <4>2. Parted(stack, d - 1)
          BY <1>14, <4>1, ParentsParted
        <4>3. Alike(stack, t, d - 1)
          <5>1. \A k \in 1..(d - 1) : k \in 1..(n - 1)
            BY <1>9
          <5> QED
            BY <1>11, <5>1 DEF Alike
        <4> QED
          BY <4>1, <4>2, <4>3, AlikeFacts
      <3> QED
        BY <1>8, <2>3, <3>1, <3>2, <3>3, RoomStays
    <2> QED
      BY <1>8, <1>9, <1>14, <2>2, <2>3 DEF Rooms
  <1>15. ASSUME Heard(call, n + 1) PROVE Room(call, stack', reached', n + 1)
    <2>1. Heard(call, n)
      <3>1. call.verbosity \in Int
        BY <1>1, <1>3, LevelFacts, CallFacts
      <3> QED
        BY <1>9, <1>15, <3>1 DEF Heard
    <2>2. Parted(stack, n - 1) /\ n - 1 \in Nat
      BY <1>3, <1>9, <2>1, ParentsParted DEF n
    <2>3. Alike(stack, stack', n - 1)
      <3>1. \A k \in 1..(n - 1) : k \in 1..n
        BY <1>9
      <3> QED
        BY <1>11, <1>13, <3>1 DEF Alike
    <2>4. stack'[n].last = LastOf(NextStep)
      BY <1>9, <1>12, <1>13, <2>1
    <2>5. Parted(stack', n)
      <3>1. Parted(stack', n - 1)
        BY <2>2, <2>3, AlikeFacts
      <3>2. \A k \in 1..n : k = n \/ k \in 1..(n - 1)
        BY <1>9
      <3>3. /\ stack'[n].last.progress \in Nat /\ stack'[n].last.size \in Nat
            /\ stack'[n].last.progress + stack'[n].last.size <= 100
        BY <1>5, <2>4 DEF LastOf
      <3> QED
        BY <3>1, <3>2, <3>3 DEF Parted
    <2>6. Worth(stack', n + 1, 0) = reached'
      <3>1. n \in 1..n /\ n \in Nat \ {0} /\ (n + 1) - 1 = n /\ n - 1 \in 0..(n - 1) /\ n \in 0..n
        BY <1>9
      <3>2. Total(stack', n) = Worth(stack', n, stack'[n].last.progress)
        BY <1>9, <2>5, <3>1, PartedFacts
      <3>3. stack'[n].last.progress = NextStep.progress
        BY <2>4 DEF LastOf
      <3>4. Worth(stack', n, NextStep.progress) = Worth(stack, n, NextStep.progress)
        <4>1. \A k \in 0..(n - 1) : Scale(stack', k) = Scale(stack, k) /\ Total(stack', k) = Total(stack, k)
          BY <2>2, <2>3, AlikeFacts
        <4> QED
          BY <3>1, <4>1 DEF Worth
      <3>5. Worth(stack, n, NextStep.progress) = reached'
        BY <1>8, <2>1 DEF n
      <3>6. Worth(stack', n + 1, 0) = Total(stack', n)
        <4>1. n + 1 \in Nat \ {0} /\ 0 \in Int /\ 0 <= 0 /\ Parted(stack', (n + 1) - 1)
          BY <1>9, <2>5, <3>1
        <4> QED
          BY <3>1, <4>1, WorthFacts
      <3> QED
        BY <3>2, <3>3, <3>4, <3>5, <3>6
    <2>7. Within(StepsOf(call, stack'[n + 1]))
      <3>1. StackOK(call, stack') /\ call \in Calls
        <4>1. StackInv'
          BY <1>1, StackInvNext DEF Next
        <4> QED
          BY <1>1, <1>4, <4>1 DEF StackInv
      <3>2. n + 1 \in 1..Len(stack')
        BY <1>9, <1>13
      <3>3. ObjectOK(call, stack', n + 1) /\ stack'[n + 1] \in Objects
        BY <3>1, <3>2 DEF StackOK
      <3>4. Origin(call, stack'[n + 1].job) /\ stack'[n + 1].job \in Jobs
        BY <3>3 DEF ObjectOK, Objects
      <3>5. JobOK(stack'[n + 1].job, StepsOf(call, stack'[n + 1]), call.counts)
        BY <3>1, <3>4, JobStepsFacts DEF StepsOf
      <3>6. ~ ManyRemoved(stack'[n + 1].job, call.counts)
        BY <3>4 DEF ManyRemoved, Exempt, MoreRemovedThanLatest, Origin
      <3> QED
        BY <3>5, <3>6 DEF JobOK
    <2>8. n + 1 \in Nat \ {0} /\ Parted(stack', (n + 1) - 1)
      <3>1. (n + 1) - 1 = n
        BY <1>9
      <3> QED
        BY <1>9, <2>5, <3>1
    <2>9. reached' <= Worth(stack', n + 1, 0)
      BY <1>8, <2>6
    <2> QED
      BY <1>8, <2>7, <2>8, <2>9, RoomFresh
  <1>16. Rooms(call, stack', reached')
    <2>1. \A d \in 1..(n + 1) : d \in 1..n \/ d = n + 1
      BY <1>9
    <2> QED
      BY <1>13, <1>14, <1>15, <2>1 DEF Rooms
  <1> QED
    BY <1>8, <1>16 DEF Onward

LEMMA OnwardEnd ==
  ASSUME InformedInv, ~ Exempt, reached \in Int, Rooms(call, stack, reached), End
  PROVE  Onward
  <1> DEFINE n == Depth
  <1>1. StackInv
    BY DEF InformedInv
  <1>2. /\ n \in 1..n /\ stack # <<>>
        /\ stack' \in Seq(Objects) /\ Len(stack') = n - 1
        /\ \A k \in 1..(n - 1) : stack'[k] = stack[k]
        /\ Tell(n, EndStep)
    BY <1>1, EndMoves
  <1>3. n \in Nat /\ n \in Nat \ {0}
    BY <1>1, <1>2, LevelFacts
  <1>4. ASSUME NEW d \in 1..(n - 1), NEW r \in Int, Heard(call, d), Room(call, stack, r, d)
        PROVE  Room(call, stack', r, d)
    <2>1. d \in 1..Depth /\ d \in Nat \ {0} /\ \A k \in 1..(d - 1) : k \in 1..(n - 1)
      BY <1>3
    <2>2. stack'[d] = stack[d] /\ \A k \in 1..(d - 1) : stack'[k].last = stack[k].last
      BY <1>2, <2>1
    <2>3. stack[d].next \in Nat /\ Parted(stack, d - 1)
      BY <1>1, <1>4, <2>1, LevelFacts, ParentsParted
    <2>4. stack[d].next <= stack[d].next
      BY <2>3
    <2> QED
      BY <1>4, <2>1, <2>2, <2>3, <2>4, RoomStays
  <1>5. CASE ~ Heard(call, n)
    <2>1. reached' = reached
      BY <1>2, <1>5, EdgeSteps, TellFacts
    <2>2. ASSUME NEW d \in 1..(n - 1), Heard(call, d)
          PROVE  Warned(stack', d) \/ Room(call, stack', reached, d)
      <3>1. d \in 1..Len(stack) /\ \A k \in 1..(d - 1) : k \in 1..(n - 1)
        BY <1>3 DEF Depth
      <3>2. Warned(stack, d) \/ Room(call, stack, reached, d)
        BY <2>2, <3>1 DEF Rooms
      <3>3. Warned(stack, d) => Warned(stack', d)
        BY <1>2, <3>1 DEF Warned
      <3> QED
        BY <1>4, <2>2, <3>2, <3>3
    <2>3. Rooms(call, stack', reached)
      BY <1>2, <2>2 DEF Rooms
    <2> QED
      BY <2>1, <2>3 DEF Onward
  <1>6. CASE Heard(call, n)
    <2>1. reached' = Worth(stack, n, 100)
      <3>1. EndStep.type # "WARNING" /\ EndStep.progress = 100 /\ LastOf(EndStep) \in Lasts /\ 100 \in Int
        BY EdgeSteps
      <3> QED
        BY <1>2, <1>6, <3>1, TellFacts
    <2>2. 100 \in 0..100
      OBVIOUS
    <2>3. WarnedAbove \/ reached <= Worth(stack, n, 100)
      BY <1>2, <1>6, <2>2, ReachedForward
    <2>4. Worth(stack, n, 100) \in Int
      <3>1. Worth(stack, n, 100) \in 0..(100 * Unit)
        BY <1>2, <1>6, <2>2, WorthInRange
      <3>2. 100 * Unit \in Int
        BY DEF Unit, MaxDepth
      <3> HIDE DEF Unit
      <3> QED
        BY <3>1, <3>2
    <2>5. ASSUME NEW d \in 1..(n - 1), Heard(call, d)
          PROVE  Room(call, stack', Worth(stack, n, 100), d)
      <3>1. Room(call, stack, Worth(stack, n, 100), d)
        BY <1>2, <1>6, <2>2, RoomAbove
      <3> QED
        BY <1>4, <2>4, <2>5, <3>1
    <2>6. Rooms(call, stack', Worth(stack, n, 100))
      BY <1>2, <2>5 DEF Rooms
    <2> QED
      BY <2>1, <2>3, <2>4, <2>6 DEF Onward
  <1> QED
    BY <1>5, <1>6
LEMMA ReachedInit == Init => ReachedOK
  <1> SUFFICES ASSUME Init, ~ Exempt PROVE reached \in Int /\ Rooms(call, stack, reached)
    BY DEF ReachedOK
  <1>1. StackInv /\ reached = 0 /\ Len(stack) = 1
    BY StackInvInit DEF Init
  <1>2. 1 \in 1..Depth
    BY <1>1 DEF Depth
  <1>3. Within(StepsOf(call, stack[1]))
    BY <1>1, <1>2, ProgressInRange DEF Exempt, JobSteps, StepsOf
  <1>4. Parted(stack, 0)
    BY DEF Parted
  <1>5. Worth(stack, 1, 0) = 0
    <2>1. Total(stack, 0) = 0 /\ Scale(stack, 0) = Unit
      BY <1>4, PartedFacts
    <2>2. Unit \in Int
      BY DEF Unit, MaxDepth
    <2>3. 1 - 1 = 0 /\ 0 + 0 * Unit = 0
      BY <2>2
    <2> QED
      BY <2>1, <2>3 DEF Worth
  <1>6. Room(call, stack, 0, 1)
    <2>1. 1 \in Nat \ {0} /\ 1 - 1 = 0 /\ 0 \in Int /\ 0 <= 0
      OBVIOUS
    <2> QED
      BY <1>3, <1>4, <1>5, <2>1, RoomFresh
  <1>7. \A d \in 1..Len(stack) : d = 1
    BY <1>1
  <1> QED
    BY <1>1, <1>6, <1>7 DEF Rooms

\* Every step leaves the caller where it was or further on.
LEMMA ReachedStep ==
  ASSUME InformedInv, ~ Exempt, reached \in Int, Rooms(call, stack, reached), [Next]_vars
  PROVE  Onward
  <1>1. StackInv
    BY DEF InformedInv
  <1>2. reached <= reached
    OBVIOUS
  <1>3. CASE Start
    <2>1. /\ Depth \in 1..Depth /\ stack # <<>> /\ Top.next = 0
          /\ Moved(stack, stack', Told(Depth), LastOf(StartStep))
          /\ Tell(Depth, StartStep)
      BY <1>1, <1>3, StartMoves
    <2>2. ~ Heard(call, Depth) => reached' = reached
      BY <2>1, EdgeSteps, TellFacts
    <2>3. StartStep.progress \in 0..100 /\ StartStep.progress = 0
          /\ StartStep.type # "WARNING" /\ LastOf(StartStep) \in Lasts
      BY EdgeSteps
    <2>4. /\ reached' \in Int /\ Rooms(call, stack', reached')
          /\ reached <= reached' \/ WarnedAbove
      BY <2>1, <2>2, <2>3, OnwardTold
    <2> QED
      BY <2>4 DEF Onward
  <1>4. CASE Progress
    <2>1. /\ Moved(stack, stack', Told(Depth), LastOf(NextStep))
          /\ NextStep.type # "WARNING"
          /\ Heard(call, Depth) => Tell(Depth, NextStep)
          /\ ~ Heard(call, Depth) => reached' = reached
      BY <1>1, <1>4, ProgressMoves
    <2>2. /\ Depth \in 1..Depth /\ stack # <<>> /\ LastOf(NextStep) \in Lasts
          /\ Top.next \in 1..Len(JobSteps(Top))
      BY <1>1, <1>4, RunningFacts DEF Progress
    <2>3. NextStep.progress \in 0..100
      BY <1>1, <2>2, TopSteps DEF NextStep
    <2>4. /\ reached' \in Int /\ Rooms(call, stack', reached')
          /\ reached <= reached' \/ WarnedAbove
      BY <2>1, <2>2, <2>3, OnwardTold
    <2> QED
      BY <2>4 DEF Onward
  <1>5. CASE OpenJob
    BY <1>5, OnwardOpen
  <1>6. CASE Warn
    <2>1. NextStep.type = "WARNING" /\ LastOf(NextStep) \in Lasts /\ stack # <<>>
      BY <1>1, <1>6, WarnMoves, RunningFacts DEF Warn
    <2>2. \E e : Moved(stack, stack', e, LastOf(NextStep))
      BY <1>1, <1>6, WarnMoves
    <2>3. reached' = reached
      <3>1. ASSUME NEW d \in {Depth, Depth - 1} \cap 1..Depth, Tell(d, NextStep)
            PROVE  reached' = reached
        BY <2>1, <3>1, TellFacts
      <3> QED
        BY <1>1, <1>6, <3>1, WarnMoves
    <2>4. call' = call /\ LastOf(NextStep).type = "WARNING"
      BY <1>1, <1>6, <2>1, WarnMoves DEF LastOf
    <2>5. Rooms(call, stack', reached)
      BY <2>1, <2>2, <2>4, ReachedQuiet
    <2> QED
      BY <1>2, <2>3, <2>5 DEF Onward
  <1>7. CASE Fail
    BY <1>2, <1>7 DEF Fail, Onward
  <1>8. CASE End
    BY <1>8, OnwardEnd
  <1>9. CASE UNCHANGED vars
    BY <1>2, <1>9 DEF vars, Onward
  <1> QED
    BY <1>3, <1>4, <1>5, <1>6, <1>7, <1>8, <1>9 DEF Next

LEMMA CallStays == ASSUME [Next]_vars PROVE call' = call
  BY DEF Next, vars, Start, Progress, OpenJob, Warn, Fail, End

LEMMA ReachedNext == InformedInv /\ ReachedOK /\ [Next]_vars => ReachedOK'
  <1> SUFFICES ASSUME InformedInv, ReachedOK, [Next]_vars PROVE ReachedOK'
    OBVIOUS
  <1>1. call' = call
    BY CallStays
  <1>2. Exempt' <=> Exempt
    BY <1>1 DEF Exempt, MoreRemovedThanLatest, StreamsFiles
  <1>3. CASE Exempt
    BY <1>2, <1>3 DEF ReachedOK
  <1>4. CASE ~ Exempt
    <2>1. Onward
      BY <1>4, ReachedStep DEF ReachedOK
    <2> QED
      BY <1>1, <2>1 DEF Onward, ReachedOK
  <1> QED
    BY <1>3, <1>4

\* The overall progress the caller hears never goes back, whatever the numbers
\* of resources and files, but for the three cases that the code has.
THEOREM NeverGoesBack == Spec => NeverBack
  <1>1. ASSUME InformedInv, ReachedOK, [Next]_vars
        PROVE  [\/ reached # NotFinite /\ reached' # NotFinite /\ reached <= reached'
                \/ MoreRemovedThanLatest
                \/ StreamsFiles
                \/ WarnedAbove]_reached
    <2>1. CASE Exempt
      BY <2>1 DEF Exempt
    <2>2. CASE ~ Exempt
      <3>1. Onward /\ reached \in Int
        BY <1>1, <2>2, ReachedStep DEF ReachedOK
      <3>2. reached' \in Int /\ (reached <= reached' \/ WarnedAbove)
        BY <3>1 DEF Onward
      <3>3. reached # NotFinite /\ reached' # NotFinite
        BY <3>1, <3>2, NotFiniteAssumption
      <3> QED
        BY <3>2, <3>3
    <2> QED
      BY <2>1, <2>2
  <1> QED
    BY <1>1, Informed, ReachedInit, ReachedNext, PTL DEF Spec, NeverBack
===========================================================================
