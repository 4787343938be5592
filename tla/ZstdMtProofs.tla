---------------------------- MODULE ZstdMtProofs ----------------------------
EXTENDS ZstdMt, FiniteSetTheorems, SequenceTheorems, WellFoundedInduction, TLAPS

(***************************************************************************)
(* The round input buffer of zstdmt_compress.c, for any number of workers, *)
(* any sizes of sections and prefixes, and callers of any habits but one.  *)
(*                                                                         *)
(* ZSTDMT_getInputDataInUse looks at one job, the first that is not        *)
(* complete, and ZSTDMT_tryGetInputRange asks no more than that the        *)
(* section to be filled does not overlap what that job has.  This suffices *)
(* because of the order in which jobs lie in the buffer: what a job has    *)
(* that is still to be read is either behind the place pos where the next  *)
(* section goes, or ahead of the section's end, and never in it (Placed);  *)
(* and of two such jobs the earlier one is the first the caller would run  *)
(* into (InOrder).  Layout says so of the buffer in the middle of a frame, *)
(* and InputInv of every state.                                            *)
(*                                                                         *)
(* The frame follows from who has which job. A job is posted to the pool,  *)
(* taken by one worker and reported complete, and stays in the table until *)
(* then (OwnersInv): so a worker finds the job it was given, and nobody    *)
(* else writes to it. What the workers write are the parts of one frame,   *)
(* one behind the other (FrameInv): TextOf says of a job how far its part  *)
(* got, Chain that the parts have no gap and no overlap, and Hashing that  *)
(* the input goes into the checksum in its order, each job in its turn, as *)
(* long as none has failed; and what the caller has flushed reads like the *)
(* frame up to there. This is of callers who end no empty frame, begin no  *)
(* new frame while a job waits to be posted, and change the number of      *)
(* workers only between frames that ended (Orderly).                       *)
(***************************************************************************)

(* Where the caller is *)

Live == InFrame /\ main.at \notin {"restart", "reset"}
Streaming == InFrame /\ main.at \in {"out", "flush"}
Posting == InFrame /\ main.at \in {"post", "collect"}

(* Shapes of records and sequences *)

MtFields == {"doneJobID", "nextJobID", "jobReady", "frameEnded", "allJobsCompleted", "nbWorkers", "nbJobs"}
MainFields == {"bound", "at", "order", "op", "room", "block", "left", "job", "nbJobs", "failed", "said"}
JobFields == {"frame", "jobID", "user", "src", "prefix", "from", "consumed", "error", "dstFlushed", "out", "lastJob",
              "frameChecksumNeeded"}
Has(r, fields) == r = [f \in fields |-> r[f]]
IsSequence(s) == Len(s) \in Nat /\ s = [i \in 1 .. Len(s) |-> s[i]]

IsMt(m) ==
  /\ Has(m, MtFields)
  /\ m.doneJobID \in Nat /\ m.nextJobID \in Nat
  /\ m.jobReady \in BOOLEAN /\ m.frameEnded \in BOOLEAN /\ m.allJobsCompleted \in BOOLEAN
  /\ m.nbWorkers \in Nat \ {0}

Places == {"out", "flush", "drain", "restart", "reset", "post", "collect"}
IsMain(m) ==
  /\ Has(m, MainFields)
  /\ m.bound \in Instances /\ m.at \in Places /\ m.order \in Orders /\ m.op \in Orders
  /\ m.left \in Nat /\ m.job \in Nat /\ m.nbJobs \in Nat /\ m.said \in {"more", "flushed", "done", "error"}

Ranges == [start : Int, size : Int]
IsJob(j) ==
  /\ Has(j, JobFields)
  /\ j.user \in BOOLEAN /\ j.src \in Ranges /\ j.prefix \in Ranges
  /\ j.from \in Int /\ j.consumed \in Int
AreJobs(js) == IsSequence(js) /\ \A i \in 1 .. Len(js) : IsJob(js[i])

Sections == [has : BOOLEAN, start : Int, filled : Int, prefix : Ranges]
C == Cardinality(DOMAIN ring)
IsRing(rg, c) == c \in Nat /\ rg = [i \in 0 .. c - 1 |-> rg[i]]

Shapes ==
  /\ IsMt(mt) /\ IsMain(main) /\ IsRing(ring, C)
  /\ pos \in Nat /\ fed \in Nat /\ inBuff \in Sections

-----------------------------------------------------------------------------
(* Where jobs lie: from Begin, with the prefix in front of the source, to  *)
(* End.  b is the section being filled at p, c the size of the buffer.     *)

Begin(j) == j.src.start - j.prefix.size
End(j) == j.src.start + j.src.size
Behind(j, p, b) == End(j) <= p /\ Begin(j) <= p - b.prefix.size
Ahead(j, p, b) == (IF b.has THEN p + targetSectionSize ELSE p) <= Begin(j)

RangeOK(r, at) ==
  /\ r.start >= 0 /\ r.size >= 0
  /\ r.size <= targetPrefixSize
  /\ r.size > 0 => r.start + r.size = at

SectionOK(b, p, c) ==
  /\ 0 <= p /\ p <= c
  /\ 0 <= b.filled /\ b.filled <= targetSectionSize
  /\ b.has => b.start = p /\ p + targetSectionSize <= c
  /\ ~b.has => b.filled = 0
  /\ RangeOK(b.prefix, p)

JobFits(j, c) ==
  /\ ~j.user
  /\ 0 <= j.src.start /\ 0 <= j.src.size /\ j.src.size <= targetSectionSize
  /\ j.src.size > 0 => j.src.start + targetSectionSize <= c
  /\ 0 <= j.consumed
  /\ RangeOK(j.prefix, j.src.start)

(* Of two jobs that are to read, j before k: behind p they come in the     *)
(* order of their numbers, ahead of it too, and those ahead came first.    *)
InOrder(j, k, p, b) ==
  /\ Behind(j, p, b) => Behind(k, p, b)
  /\ Ahead(k, p, b) => Ahead(j, p, b)
  /\ Behind(j, p, b) \/ Ahead(k, p, b) => Begin(j) <= Begin(k)

(* The ring rg has the chunks from, from + 1, ... at start, start + 1, ... *)
HoldsIn(rg, start, size, from) == \A i \in 1 .. size : rg[start + i - 1] = from + i - 1

JobIntact(j, rg) ==
  /\ HoldsIn(rg, j.src.start, j.src.size, j.from)
  /\ HoldsIn(rg, j.prefix.start, j.prefix.size, j.from - j.prefix.size)

SectionIntact(b, rg, n) ==
  /\ HoldsIn(rg, b.start, b.filled, n - b.filled + 1)
  /\ HoldsIn(rg, b.prefix.start, b.prefix.size, n - b.filled - b.prefix.size + 1)

(* A job j that is to read what is in the round buffer rg. *)
Placed(j, rg, p, b) ==
  /\ JobIntact(j, rg)
  /\ Behind(j, p, b) \/ Ahead(j, p, b)

(* The jobs js, the ring and the section, n chunks having been taken. *)
Layout(js, rg, c, p, b, n) ==
  /\ 2 * targetSectionSize <= c
  /\ SectionOK(b, p, c)
  /\ SectionIntact(b, rg, n)
  /\ \A i \in 1 .. Len(js) : JobFits(js[i], c)
  /\ \A i \in 1 .. Len(js) : ~Complete(js[i]) => Placed(js[i], rg, p, b)
  /\ \A i, k \in 1 .. Len(js) : i < k /\ ~Complete(js[i]) /\ ~Complete(js[k]) => InOrder(js[i], js[k], p, b)

(* The job table has the posted jobs and the prepared one, for which there *)
(* is no section (ZSTDMT_compressStream_generic fills none while jobReady).*)
Count ==
  /\ mt.doneJobID <= mt.nextJobID
  /\ Len(jobs) = mt.nextJobID - mt.doneJobID + (IF mt.jobReady THEN 1 ELSE 0)
  /\ mt.jobReady => ~inBuff.has
  /\ mt.nextJobID = 0 /\ ~mt.jobReady => inBuff.prefix.size = 0
  /\ mt.frameEnded => main.order = "end" /\ main.left = 0 /\ (main.at = "flush" => main.op = "end")

(* In the middle of a frame, in ZSTDMT_compress_advanced, between frames,  *)
(* and when the jobs of a frame that failed are waited for.                *)
StreamInv == Streaming => Count /\ Layout(jobs, ring, C, pos, inBuff, fed)
PostInv == Posting => main.nbJobs > 0 /\ inBuff.filled = 0 /\ inBuff.prefix.size = 0 /\ \A i \in 1 .. Len(jobs) : jobs[i].user
Kept ==
  /\ main.at # "restart" => AreJobs(jobs)
  /\ mt.allJobsCompleted => jobs = <<>>
  /\ Live => ~mt.allJobsCompleted
  /\ main.at = "reset" => jobs = <<>>
  /\ main.at = "restart" => ~mt.allJobsCompleted
  /\ main.at \in {"restart", "reset"} => ~mt.jobReady
  /\ main.at \in {"flush", "drain", "post", "collect"} => InFrame

DrainInv ==
  main.at = "drain" =>
    /\ \A i \in 1 .. Len(jobs) : ~Complete(jobs[i]) => JobIntact(jobs[i], ring)
    /\ SectionIntact(inBuff, ring, fed)
    /\ mt.nextJobID - mt.doneJobID <= Len(jobs)

InputInv == Shapes /\ Kept /\ StreamInv /\ PostInv /\ DrainInv
-----------------------------------------------------------------------------
(* Records and sequences *)

LEMMA JobConsumes ==
  ASSUME NEW j, Has(j, JobFields), NEW x
  PROVE  LET k == [j EXCEPT !.consumed = x]
         IN Has(k, JobFields) /\ k.consumed = x /\ k.user = j.user /\ k.src = j.src /\ k.prefix = j.prefix /\ k.from = j.from
BY DEF Has, JobFields

LEMMA MtAdvance ==
  ASSUME NEW m, IsMt(m)
  PROVE  LET k == Advance(m)
         IN IsMt(k) /\ k.doneJobID = m.doneJobID /\ k.nextJobID = m.nextJobID + 1 /\ k.jobReady = FALSE
            /\ k.frameEnded = m.frameEnded /\ k.allJobsCompleted = m.allJobsCompleted
<1>1. Has(Advance(m), MtFields)
  BY DEF Has, IsMt, MtFields, Advance
<1>2. Advance(m).nbWorkers = m.nbWorkers
  BY DEF Has, IsMt, MtFields, Advance
<1>3. QED
  BY <1>1, <1>2 DEF Has, IsMt, MtFields, Advance

LEMMA SequencesOf ==
  ASSUME NEW S, NEW s \in Seq(S)
  PROVE  IsSequence(s) /\ \A i \in 1 .. Len(s) : s[i] \in S
<1>1. Len(s) \in Nat /\ DOMAIN s = 1 .. Len(s) /\ s \in [1 .. Len(s) -> S]
  BY LenProperties
<1>2. s = [i \in 1 .. Len(s) |-> s[i]]
  BY <1>1
<1>3. QED
  BY <1>1, <1>2 DEF IsSequence

LEMMA SequenceHas ==
  ASSUME NEW s, IsSequence(s)
  PROVE  \E S : s \in Seq(S)
<1>1. s \in Seq({s[i] : i \in 1 .. Len(s)})
  BY DEF IsSequence
<1>2. QED
  BY <1>1

LEMMA SequenceAppend ==
  ASSUME NEW s, IsSequence(s), NEW x
  PROVE  /\ IsSequence(Append(s, x))
         /\ Len(Append(s, x)) = Len(s) + 1
         /\ \A i \in 1 .. Len(s) : Append(s, x)[i] = s[i]
         /\ Append(s, x)[Len(s) + 1] = x
<1>1. PICK S : s \in Seq(S)
  BY SequenceHas
<1>2. s \in Seq(S \cup {x}) /\ x \in S \cup {x}
  BY <1>1, SequencesOf, LenProperties
<1>3. Append(s, x) \in Seq(S \cup {x})
  BY <1>2, AppendProperties
<1>4. QED
  <2>1. IsSequence(Append(s, x))
    BY <1>3, SequencesOf
  <2>2. Len(Append(s, x)) = Len(s) + 1 /\ Append(s, x)[Len(s) + 1] = x
    BY <1>2, AppendProperties
  <2>3. \A i \in 1 .. Len(s) : Append(s, x)[i] = s[i]
    BY <1>2, AppendProperties
  <2>4. QED
    BY <2>1, <2>2, <2>3

LEMMA SequenceTail ==
  ASSUME NEW s, IsSequence(s), Len(s) > 0
  PROVE  /\ IsSequence(Tail(s))
         /\ Len(Tail(s)) = Len(s) - 1
         /\ \A i \in 1 .. Len(s) - 1 : Tail(s)[i] = s[i + 1]
<1>1. PICK S : s \in Seq(S)
  BY SequenceHas
<1>2. s # <<>>
  BY <1>1
<1>3. Tail(s) \in Seq(S) /\ Len(Tail(s)) = Len(s) - 1 /\ \A i \in 1 .. Len(Tail(s)) : Tail(s)[i] = s[i + 1]
  BY <1>1, <1>2, HeadTailProperties
<1>4. QED
  BY <1>3, SequencesOf

LEMMA SequenceSet ==
  ASSUME NEW s, IsSequence(s), NEW t, t = [i \in DOMAIN s |-> t[i]]
  PROVE  IsSequence(t) /\ Len(t) = Len(s) /\ DOMAIN s = 1 .. Len(s)
<1>1. DOMAIN s = 1 .. Len(s) /\ Len(s) \in Nat
  BY DEF IsSequence
<1>2. t = [i \in 1 .. Len(s) |-> t[i]]
  BY <1>1
<1>3. \E S : t \in Seq(S)
  <2>1. PICK S : S = {t[i] : i \in 1 .. Len(s)}
    OBVIOUS
  <2>2. t \in [1 .. Len(s) -> S]
    BY <1>2, <2>1
  <2>3. t \in Seq(S)
    BY ONLY <1>1, <2>2
  <2>4. QED
    BY <2>3
<1>4. Len(t) = Len(s)
  BY ONLY <1>1, <1>2
<1>5. IsSequence(t)
  BY ONLY <1>3, SequencesOf
<1>6. QED
  BY ONLY <1>1, <1>4, <1>5

LEMMA SequencePrefix ==
  ASSUME NEW s, IsSequence(s), NEW n \in 0 .. Len(s)
  PROVE  /\ IsSequence(SubSeq(s, 1, n)) /\ Len(SubSeq(s, 1, n)) = n
         /\ \A i \in 1 .. n : SubSeq(s, 1, n)[i] = s[i]
         /\ n = Len(s) => SubSeq(s, 1, n) = s
<1>1. PICK S : s \in Seq(S)
  BY SequenceHas
<1>2. Len(s) \in Nat /\ s = [i \in 1 .. Len(s) |-> s[i]]
  BY DEF IsSequence
<1>3. /\ SubSeq(s, 1, n) \in Seq(S) /\ Len(SubSeq(s, 1, n)) = n
      /\ \A i \in 1 .. n : SubSeq(s, 1, n)[i] = s[i]
  BY <1>1, <1>2, SubSeqProperties
<1>4. IsSequence(SubSeq(s, 1, n))
  BY <1>3, SequencesOf
<1>5. n = Len(s) => SubSeq(s, 1, n) = s
  BY <1>2, <1>3, <1>4 DEF IsSequence
<1>6. QED
  BY <1>3, <1>4, <1>5

LEMMA EmptySequence == IsSequence(<<>>) /\ Len(<<>>) = 0 /\ \A s : IsSequence(s) /\ Len(s) = 0 => s = <<>>
BY DEF IsSequence
-----------------------------------------------------------------------------
(* The round buffer *)

Keeps(j, k) ==
  /\ IsJob(k)
  /\ k.user = j.user /\ k.src = j.src /\ k.prefix = j.prefix /\ k.from = j.from
  /\ 0 <= j.consumed /\ 0 <= j.src.size => 0 <= k.consumed
  /\ Complete(j) => Complete(k)

(* Jobs that only come further leave the layout as it is.                  *)
LEMMA LayoutKeeps ==
  ASSUME NEW js, AreJobs(js), NEW ks, AreJobs(ks), Len(ks) = Len(js), \A i \in 1 .. Len(js) : Keeps(js[i], ks[i]),
         NEW rg, NEW c, NEW p, NEW b, NEW n, Layout(js, rg, c, p, b, n)
  PROVE  Layout(ks, rg, c, p, b, n)
<1>1. \A i \in 1 .. Len(ks) : JobFits(ks[i], c)
  BY DEF Layout, JobFits, Keeps
<1>2. \A i \in 1 .. Len(ks) : ~Complete(ks[i]) => Placed(ks[i], rg, p, b)
  BY DEF Layout, Placed, JobIntact, Behind, Ahead, Begin, End, Keeps
<1>3. \A i, k \in 1 .. Len(ks) : i < k /\ ~Complete(ks[i]) /\ ~Complete(ks[k]) => InOrder(ks[i], ks[k], p, b)
  <2> SUFFICES ASSUME NEW i \in 1 .. Len(ks), NEW k \in 1 .. Len(ks), i < k, ~Complete(ks[i]), ~Complete(ks[k])
               PROVE  InOrder(ks[i], ks[k], p, b)
    OBVIOUS
  <2>1. InOrder(js[i], js[k], p, b)
    BY DEF Layout, Keeps
  <2>2. QED
    BY <2>1 DEF InOrder, Behind, Ahead, Begin, End, Keeps
<1>4. QED
  BY <1>1, <1>2, <1>3 DEF Layout

(* So does the first job when it is freed.                                 *)
LEMMA LayoutTail ==
  ASSUME NEW js, AreJobs(js), Len(js) > 0,
         NEW rg, NEW c, NEW p, NEW b, NEW n, Layout(js, rg, c, p, b, n)
  PROVE  AreJobs(Tail(js)) /\ Layout(Tail(js), rg, c, p, b, n)
<1>1. /\ IsSequence(Tail(js)) /\ Len(Tail(js)) = Len(js) - 1 /\ Len(js) \in Nat
      /\ \A i \in 1 .. Len(js) - 1 : Tail(js)[i] = js[i + 1] /\ i + 1 \in 1 .. Len(js)
  BY SequenceTail DEF AreJobs, IsSequence
<1>2. AreJobs(Tail(js))
  BY <1>1 DEF AreJobs
<1>3. \A i \in 1 .. Len(Tail(js)) : JobFits(Tail(js)[i], c)
  BY <1>1 DEF Layout
<1>4. \A i \in 1 .. Len(Tail(js)) : ~Complete(Tail(js)[i]) => Placed(Tail(js)[i], rg, p, b)
  BY <1>1 DEF Layout
<1>5. \A i, k \in 1 .. Len(Tail(js)) : i < k /\ ~Complete(Tail(js)[i]) /\ ~Complete(Tail(js)[k]) =>
        InOrder(Tail(js)[i], Tail(js)[k], p, b)
  <2> SUFFICES ASSUME NEW i \in 1 .. Len(js) - 1, NEW k \in 1 .. Len(js) - 1, i < k,
                      ~Complete(js[i + 1]), ~Complete(js[k + 1])
               PROVE  InOrder(js[i + 1], js[k + 1], p, b)
    BY <1>1
  <2>1. i + 1 \in 1 .. Len(js) /\ k + 1 \in 1 .. Len(js) /\ i + 1 < k + 1
    BY <1>1
  <2>2. QED
    BY <2>1 DEF Layout
<1>6. QED
  BY <1>2, <1>3, <1>4, <1>5 DEF Layout

LEMMA JobNumbers ==
  ASSUME NEW j, IsJob(j), NEW c \in Nat, JobFits(j, c)
  PROVE  /\ j.src.size \in Nat /\ j.src.start \in Nat /\ j.prefix.size \in Nat /\ j.prefix.start \in Int
         /\ j.from \in Int /\ j.consumed \in Nat
         /\ Begin(j) \in Nat /\ End(j) \in Nat
         /\ Begin(j) = j.src.start - j.prefix.size
         /\ End(j) = j.src.start + j.src.size
         /\ j.src.size <= targetSectionSize
         /\ ~Complete(j) => j.src.size > 0 /\ j.src.start + targetSectionSize <= c
         /\ j.prefix.size <= targetPrefixSize
         /\ j.prefix.size > 0 => j.prefix.start = Begin(j)
<1>1. j.src.size \in Nat /\ j.src.start \in Nat /\ j.prefix.size \in Nat /\ j.prefix.start \in Int
      /\ j.from \in Int /\ j.consumed \in Nat
  BY DEF IsJob, Ranges, JobFits, RangeOK
<1>2. j.prefix.size <= targetPrefixSize /\ j.prefix.start >= 0 /\ (j.prefix.size > 0 => j.prefix.start + j.prefix.size = j.src.start)
  BY DEF JobFits, RangeOK
<1>3. j.src.size <= targetSectionSize /\ (j.src.size > 0 => j.src.start + targetSectionSize <= c)
  BY DEF JobFits
<1>4. ~Complete(j) => j.src.size > 0
  BY <1>1 DEF Complete
<1>5. QED
  BY <1>1, <1>2, <1>3, <1>4 DEF Begin, End

LEMMA JobUntouched ==
  ASSUME NEW j, IsJob(j), NEW c \in Nat, JobFits(j, c), ~Complete(j), NEW rg, JobIntact(j, rg), NEW rg2,
         \A i \in 0 .. c - 1 : Begin(j) <= i /\ i < End(j) => rg2[i] = rg[i]
  PROVE  JobIntact(j, rg2)
<1> DEFINE lo == Begin(j)
           start == j.src.start
           size == j.src.size
           pstart == j.prefix.start
           psize == j.prefix.size
<1>1. /\ size \in Nat /\ start \in Nat /\ psize \in Nat /\ lo \in Nat
      /\ lo = start - psize /\ size <= targetSectionSize /\ start + targetSectionSize <= c
      /\ psize > 0 => pstart = lo
  BY JobNumbers
<1>2. /\ HoldsIn(rg, start, size, j.from) /\ HoldsIn(rg, pstart, psize, j.from - psize)
      /\ \A i \in 0 .. c - 1 : lo <= i /\ i < start + size => rg2[i] = rg[i]
  BY DEF JobIntact, End
<1>a. targetSectionSize \in Nat
  BY SizesAssumption
<1>3. ASSUME NEW start_, start_ = start, NEW size_, size_ = size, NEW lo_, lo_ = lo, NEW psize_, psize_ = psize
      PROVE  (\A k \in 1 .. size_ : rg2[start_ + k - 1] = rg[start_ + k - 1])
             /\ (\A k \in 1 .. psize_ : rg2[lo_ + k - 1] = rg[lo_ + k - 1])
  <2>1. /\ size_ \in Nat /\ start_ \in Nat /\ psize_ \in Nat /\ lo_ \in Nat
        /\ lo_ = start_ - psize_ /\ size_ <= targetSectionSize /\ start_ + targetSectionSize <= c
        /\ \A i \in 0 .. c - 1 : lo_ <= i /\ i < start_ + size_ => rg2[i] = rg[i]
    BY <1>1, <1>2, <1>3
  <2>2. \A k \in 1 .. size_ : start_ + k - 1 \in 0 .. c - 1 /\ lo_ <= start_ + k - 1 /\ start_ + k - 1 < start_ + size_
    BY ONLY <1>a, <2>1, c \in Nat
  <2>3. \A k \in 1 .. psize_ : lo_ + k - 1 \in 0 .. c - 1 /\ lo_ <= lo_ + k - 1 /\ lo_ + k - 1 < start_ + size_
    BY ONLY <1>a, <2>1, c \in Nat
  <2>4. QED
    BY <2>1, <2>2, <2>3
<1>4. (\A k \in 1 .. size : rg2[start + k - 1] = rg[start + k - 1])
      /\ (\A k \in 1 .. psize : rg2[lo + k - 1] = rg[lo + k - 1])
  BY <1>3
<1>5. HoldsIn(rg2, start, size, j.from)
  BY <1>2, <1>4 DEF HoldsIn
<1>6. HoldsIn(rg2, pstart, psize, j.from - psize)
  <2>1. CASE psize > 0
    BY <1>1, <1>2, <1>4, <2>1 DEF HoldsIn
  <2>2. CASE psize = 0
    BY <2>2 DEF HoldsIn
  <2>3. QED
    BY <1>1, <2>1, <2>2
<1>7. QED
  BY <1>5, <1>6 DEF JobIntact

(* Going on at the beginning of the buffer, behind a copy of the prefix.   *)
LEMMA LayoutWrap ==
  ASSUME NEW js, AreJobs(js), NEW c \in Nat, NEW rg, IsRing(rg, c), NEW p \in Int, NEW b \in Sections, NEW n \in Int,
         Layout(js, rg, c, p, b, n), ~b.has, c - p < targetSectionSize,
         \A i \in 1 .. Len(js) : ~Complete(js[i]) => b.prefix.size <= Begin(js[i]),
         NEW rg2, rg2 = [i \in DOMAIN rg |-> IF i < b.prefix.size THEN rg[b.prefix.start + i] ELSE rg[i]],
         NEW b2, b2 \in Sections, ~b2.has, b2.filled = 0, b2.prefix = [start |-> 0, size |-> b.prefix.size]
  PROVE  Layout(js, rg2, c, b.prefix.size, b2, n)
<1> DEFINE s == b.prefix.size
<1>a. targetSectionSize \in Nat /\ targetPrefixSize \in Nat /\ targetPrefixSize <= targetSectionSize
  BY SizesAssumption
<1>b. s \in Int /\ 0 <= s /\ s <= targetPrefixSize /\ b.prefix.start \in Int /\ 0 <= b.prefix.start /\ p <= c
      /\ (s > 0 => b.prefix.start + s = p) /\ b.filled = 0 /\ 2 * targetSectionSize <= c
  BY DEF Layout, SectionOK, RangeOK, Sections, Ranges
<1>c. \A i \in 0 .. c - 1 : rg2[i] = IF i < s THEN rg[b.prefix.start + i] ELSE rg[i]
  BY DEF IsRing
<1> HIDE DEF s
<1>1. SectionOK(b2, s, c)
  BY <1>a, <1>b DEF SectionOK, RangeOK, s
<1>2. SectionIntact(b2, rg2, n)
  <2>1. HoldsIn(rg, b.prefix.start, s, n - b.filled - s + 1)
    BY DEF Layout, SectionIntact, s
  <2>2. ASSUME NEW i \in 1 .. s PROVE rg2[0 + i - 1] = rg[b.prefix.start + i - 1]
    <3>1. i - 1 \in 0 .. c - 1 /\ i - 1 < s /\ 0 + i - 1 = i - 1 /\ b.prefix.start + (i - 1) = b.prefix.start + i - 1
      BY <1>a, <1>b
    <3>2. QED
      BY <1>c, <3>1
  <2>3. \A i \in 1 .. s : rg[b.prefix.start + i - 1] = n - 0 - s + 1 + i - 1
    BY <1>b, <2>1 DEF HoldsIn
  <2>4. HoldsIn(rg2, 0, s, n - 0 - s + 1)
    BY <2>2, <2>3 DEF HoldsIn
  <2>5. HoldsIn(rg2, b2.start, 0, n - 0 + 1)
    BY DEF HoldsIn
  <2>6. QED
    BY <2>4, <2>5 DEF SectionIntact, s
<1>3. ASSUME NEW i \in 1 .. Len(js), ~Complete(js[i])
      PROVE  Placed(js[i], rg2, s, b2) /\ Ahead(js[i], s, b2) /\ ~Ahead(js[i], p, b) /\ ~Behind(js[i], s, b2)
  <2>1. IsJob(js[i]) /\ JobFits(js[i], c) /\ Placed(js[i], rg, p, b) /\ s <= Begin(js[i])
    BY <1>3 DEF Layout, AreJobs, s
  <2>2. /\ js[i].src.size \in Nat /\ js[i].src.start \in Nat /\ js[i].prefix.size \in Nat /\ Begin(js[i]) \in Nat
        /\ Begin(js[i]) = js[i].src.start - js[i].prefix.size /\ End(js[i]) = js[i].src.start + js[i].src.size
        /\ js[i].src.size > 0 /\ js[i].src.start + targetSectionSize <= c
    BY ONLY <1>3, <2>1, JobNumbers, c \in Nat
  <2>4. Ahead(js[i], s, b2)
    BY <2>1 DEF Ahead
  <2>5. ~(p <= Begin(js[i]))
    <3> DEFINE start == js[i].src.start
               size == js[i].prefix.size
               at == Begin(js[i])
    <3>1. start \in Nat /\ size \in Nat /\ at = start - size /\ start + targetSectionSize <= c
      BY ONLY <2>2
    <3> HIDE DEF start, size, at
    <3>2. ~(p <= at)
      BY ONLY <1>a, <3>1, c \in Nat, p \in Int, c - p < targetSectionSize
    <3>3. QED
      BY ONLY <3>2 DEF at
  <2>6. ~Ahead(js[i], p, b)
    BY <2>5 DEF Ahead
  <2>7. JobIntact(js[i], rg2)
    <3>1. s <= Begin(js[i]) /\ Begin(js[i]) \in Int
      BY <2>1, <2>2
    <3>2. \A k \in 0 .. c - 1 : Begin(js[i]) <= k => ~(k < s)
      BY ONLY <1>b, <3>1, c \in Nat
    <3>3. \A k \in 0 .. c - 1 : Begin(js[i]) <= k => rg2[k] = rg[k]
      BY <1>c, <3>2
    <3>4. IsJob(js[i]) /\ JobFits(js[i], c) /\ ~Complete(js[i]) /\ JobIntact(js[i], rg)
      BY <1>3, <2>1 DEF Placed
    <3>5. \A k \in 0 .. c - 1 : Begin(js[i]) <= k /\ k < End(js[i]) => rg2[k] = rg[k]
      BY <3>3
    <3>6. QED
      BY ONLY <3>4, <3>5, JobUntouched, c \in Nat
  <2>8. ~(End(js[i]) <= s)
    <3>1. s <= Begin(js[i])
      BY ONLY <2>1
    <3>2. \A a \in Nat, x, y, z \in Nat : a <= y - z /\ x > 0 => ~(y + x <= a)
      OBVIOUS
    <3>3. s \in Nat /\ s <= js[i].src.start - js[i].prefix.size
      BY ONLY <1>b, <2>2, <3>1
    <3>4. ~(js[i].src.start + js[i].src.size <= s)
      BY ONLY <2>2, <3>2, <3>3
    <3>5. QED
      BY ONLY <2>2, <3>4
  <2>9. QED
    BY <2>4, <2>6, <2>7, <2>8 DEF Placed, Behind
<1>4. ASSUME NEW i \in 1 .. Len(js), NEW k \in 1 .. Len(js), i < k, ~Complete(js[i]), ~Complete(js[k])
      PROVE  InOrder(js[i], js[k], s, b2)
  <2>1. InOrder(js[i], js[k], p, b) /\ Placed(js[i], rg, p, b)
    BY <1>4 DEF Layout
  <2>2. Behind(js[i], p, b)
    BY <1>3, <1>4, <2>1 DEF Placed
  <2>3. QED
    BY <1>3, <1>4, <2>1, <2>2 DEF InOrder
<1>5. QED
  BY <1>b, <1>1, <1>2, <1>3, <1>4 DEF Layout, s

(* Taking a section at pos.                                                *)
LEMMA LayoutSection ==
  ASSUME NEW js, AreJobs(js), NEW c \in Nat, NEW rg, NEW p \in Int, NEW b \in Sections, NEW n \in Int,
         Layout(js, rg, c, p, b, n), ~b.has, p + targetSectionSize <= c,
         \A i \in 1 .. Len(js) : ~Complete(js[i]) => Behind(js[i], p, b) \/ p + targetSectionSize <= Begin(js[i]),
         NEW b2, b2 = [has |-> TRUE, start |-> p, filled |-> 0, prefix |-> b.prefix]
  PROVE  Layout(js, rg, c, p, b2, n)
<1>a. targetSectionSize \in Nat
  BY SizesAssumption
<1>b. b2.has /\ b2.start = p /\ b2.filled = 0 /\ b2.prefix = b.prefix
  OBVIOUS
<1>1. SectionOK(b2, p, c)
  BY <1>a, <1>b DEF Layout, SectionOK
<1>2. SectionIntact(b2, rg, n)
  BY <1>b DEF Layout, SectionIntact, SectionOK, HoldsIn
<1>3. ASSUME NEW i \in 1 .. Len(js), ~Complete(js[i])
      PROVE  /\ Placed(js[i], rg, p, b2)
             /\ Behind(js[i], p, b2) <=> Behind(js[i], p, b)
             /\ Ahead(js[i], p, b2) => Ahead(js[i], p, b)
             /\ Behind(js[i], p, b) \/ Ahead(js[i], p, b2)
  <2>1. Placed(js[i], rg, p, b)
    BY <1>3 DEF Layout
  <2>2. Behind(js[i], p, b2) <=> Behind(js[i], p, b)
    BY <1>b DEF Behind
  <2>3. Behind(js[i], p, b) \/ Ahead(js[i], p, b2)
    BY <1>b, <1>3 DEF Ahead
  <2>4. Begin(js[i]) \in Int
    BY <1>3, JobNumbers DEF AreJobs, Layout
  <2>5. Ahead(js[i], p, b2) => Ahead(js[i], p, b)
    BY <1>a, <1>b, <2>4 DEF Ahead
  <2>6. QED
    BY <2>1, <2>2, <2>3, <2>5 DEF Placed
<1>4. ASSUME NEW i \in 1 .. Len(js), NEW k \in 1 .. Len(js), i < k, ~Complete(js[i]), ~Complete(js[k])
      PROVE  InOrder(js[i], js[k], p, b2)
  <2>1. InOrder(js[i], js[k], p, b)
    BY <1>4 DEF Layout
  <2>2. /\ Behind(js[i], p, b2) => Behind(js[k], p, b2)
        /\ Behind(js[i], p, b2) \/ Ahead(js[k], p, b2) => Begin(js[i]) <= Begin(js[k])
    BY <1>3, <1>4, <2>1 DEF InOrder
  <2>3. ASSUME Ahead(js[k], p, b2) PROVE Ahead(js[i], p, b2)
    <3>1. Ahead(js[i], p, b) /\ Ahead(js[k], p, b)
      BY <1>3, <1>4, <2>1, <2>3 DEF InOrder
    <3>2. CASE Behind(js[i], p, b)
      <4>1. IsJob(js[i]) /\ JobFits(js[i], c)
        BY DEF AreJobs, Layout
      <4>2. /\ js[i].src.size \in Nat /\ js[i].src.start \in Nat /\ js[i].prefix.size \in Nat
            /\ Begin(js[i]) = js[i].src.start - js[i].prefix.size /\ End(js[i]) = js[i].src.start + js[i].src.size
            /\ js[i].src.size > 0
        BY ONLY <1>4, <4>1, JobNumbers, c \in Nat
      <4>3. End(js[i]) <= p /\ p <= Begin(js[i])
        BY <3>1, <3>2 DEF Behind, Ahead
      <4>4. FALSE
        BY ONLY <4>2, <4>3, p \in Int
      <4>5. QED
        BY <4>4
    <3>3. CASE ~Behind(js[i], p, b)
      BY <1>3, <1>4, <3>3
    <3>4. QED
      BY <3>2, <3>3
  <2>4. QED
    BY <2>2, <2>3 DEF InOrder
<1>5. QED
  BY <1>1, <1>2, <1>3, <1>4 DEF Layout

(* Copying input into the section.                                         *)
LEMMA LayoutFill ==
  ASSUME NEW js, AreJobs(js), NEW c \in Nat, NEW rg, IsRing(rg, c), NEW p \in Int, NEW b \in Sections, NEW n \in Int,
         Layout(js, rg, c, p, b, n), b.has, NEW load \in Nat, b.filled + load <= targetSectionSize,
         NEW rg2, rg2 = [i \in DOMAIN rg |-> IF i \in b.start + b.filled .. b.start + b.filled + load - 1
                                             THEN n + 1 + i - (b.start + b.filled) ELSE rg[i]],
         NEW b2 \in Sections, b2.has, b2.start = b.start, b2.filled = b.filled + load, b2.prefix = b.prefix
  PROVE  Layout(js, rg2, c, p, b2, n + load)
<1> DEFINE f == b.filled
           ps == b.prefix.size
           pb == b.prefix.start
<1>a. targetSectionSize \in Nat /\ targetPrefixSize \in Nat
  BY SizesAssumption
<1>b. /\ f \in Nat /\ b.start = p /\ 0 <= p /\ p + targetSectionSize <= c
      /\ ps \in Nat /\ pb \in Int /\ 0 <= pb /\ (ps > 0 => pb + ps = p)
  BY DEF Layout, SectionOK, RangeOK, Sections, Ranges
<1>c. \A i \in 0 .. c - 1 : rg2[i] = IF p + f <= i /\ i <= p + f + load - 1 THEN n + 1 + i - (p + f) ELSE rg[i]
  BY <1>b DEF IsRing
<1>d. HoldsIn(rg, p, f, n - f + 1) /\ HoldsIn(rg, pb, ps, n - f - ps + 1)
  BY <1>b DEF Layout, SectionIntact
<1>1. SectionOK(b2, p, c)
  BY <1>a, <1>b DEF Layout, SectionOK, RangeOK
<1> HIDE DEF f, ps, pb
<1>2. HoldsIn(rg2, p, f + load, n + load - (f + load) + 1)
  <2> SUFFICES ASSUME NEW i \in 1 .. f + load PROVE rg2[p + i - 1] = n + load - (f + load) + 1 + i - 1
    BY DEF HoldsIn
  <2>1. p + i - 1 \in 0 .. c - 1
    BY <1>a, <1>b DEF f
  <2>2. CASE i <= f
    <3>1. rg2[p + i - 1] = rg[p + i - 1]
      BY <1>b, <1>c, <2>1, <2>2
    <3>2. i \in 1 .. f
      BY <1>b, <2>2
    <3>3. rg[p + i - 1] = n - f + 1 + i - 1
      BY <1>d, <3>2 DEF HoldsIn
    <3>4. QED
      BY <1>b, <3>1, <3>3
  <2>3. CASE i > f
    <3>1. rg2[p + i - 1] = n + 1 + (p + i - 1) - (p + f)
      BY <1>b, <1>c, <2>1, <2>3
    <3>2. QED
      BY <1>b, <3>1
  <2>4. QED
    BY <1>b, <2>2, <2>3
<1>3. HoldsIn(rg2, pb, ps, n + load - (f + load) - ps + 1)
  <2> SUFFICES ASSUME NEW i \in 1 .. ps PROVE rg2[pb + i - 1] = n + load - (f + load) - ps + 1 + i - 1
    BY DEF HoldsIn
  <2>1. pb + i - 1 \in 0 .. c - 1 /\ pb + i - 1 < p + f
    BY <1>a, <1>b
  <2>2. rg2[pb + i - 1] = rg[pb + i - 1]
    BY <1>b, <1>c, <2>1
  <2>3. rg[pb + i - 1] = n - f - ps + 1 + i - 1
    BY <1>d DEF HoldsIn
  <2>4. QED
    BY <1>b, <2>2, <2>3
<1>4. SectionIntact(b2, rg2, n + load)
  BY <1>2, <1>3, <1>b DEF SectionIntact, f, ps, pb
<1>5. \A j : (Behind(j, p, b2) <=> Behind(j, p, b)) /\ (Ahead(j, p, b2) <=> Ahead(j, p, b))
  BY DEF Behind, Ahead
<1>6. ASSUME NEW i \in 1 .. Len(js), ~Complete(js[i]) PROVE Placed(js[i], rg2, p, b2)
  <2>1. Placed(js[i], rg, p, b) /\ IsJob(js[i]) /\ JobFits(js[i], c)
    BY <1>6 DEF Layout, AreJobs
  <2>2. Begin(js[i]) \in Nat /\ End(js[i]) \in Nat
    BY ONLY <2>1, JobNumbers, c \in Nat
  <2>3. End(js[i]) <= p \/ p + targetSectionSize <= Begin(js[i])
    BY <2>1 DEF Placed, Behind, Ahead
  <2>4. f + load <= targetSectionSize
    BY DEF f
  <2>5. \A k \in 0 .. c - 1 : Begin(js[i]) <= k /\ k < End(js[i]) => ~(p + f <= k /\ k <= p + f + load - 1)
    BY ONLY <1>a, <1>b, <2>2, <2>3, <2>4, c \in Nat, p \in Int, load \in Nat
  <2>6. \A k \in 0 .. c - 1 : Begin(js[i]) <= k /\ k < End(js[i]) => rg2[k] = rg[k]
    BY <1>c, <2>5
  <2>7. JobIntact(js[i], rg)
    BY <2>1 DEF Placed
  <2>8. JobIntact(js[i], rg2)
    BY ONLY <1>6, <2>1, <2>6, <2>7, JobUntouched, c \in Nat
  <2>9. QED
    BY <1>5, <2>1, <2>8 DEF Placed
<1>7. ASSUME NEW i \in 1 .. Len(js), NEW k \in 1 .. Len(js), i < k, ~Complete(js[i]), ~Complete(js[k])
      PROVE  InOrder(js[i], js[k], p, b2)
  BY <1>5, <1>7 DEF InOrder, Layout
<1>8. QED
  BY <1>1, <1>4, <1>6, <1>7 DEF Layout

(* The section becomes a job, and its end the prefix of the next one.      *)
LEMMA LayoutPrepare ==
  ASSUME NEW js, AreJobs(js), NEW c \in Nat, NEW rg, NEW p \in Int, NEW b \in Sections, NEW n \in Int,
         Layout(js, rg, c, p, b, n),
         NEW j, IsJob(j), ~j.user, j.src = [start |-> p, size |-> b.filled], j.prefix = b.prefix,
         j.from = n - b.filled + 1, j.consumed = 0,
         NEW b2 \in Sections, ~b2.has, b2.filled = 0,
         b2.prefix \in {NullRange, [start |-> p + b.filled - PrefixSize(b.filled), size |-> PrefixSize(b.filled)]}
  PROVE  AreJobs(Append(js, j)) /\ Layout(Append(js, j), rg, c, p + b.filled, b2, n)
<1> DEFINE f == b.filled
           ps == b.prefix.size
           ns == b2.prefix.size
           nb == b2.prefix.start
           ks == Append(js, j)
           q == p + f
<1>a. targetSectionSize \in Nat /\ targetPrefixSize \in Nat /\ targetPrefixSize <= targetSectionSize
  BY SizesAssumption
<1>b. /\ f \in Nat /\ f <= targetSectionSize /\ 0 <= p /\ p <= c
      /\ f > 0 => b.start = p /\ p + targetSectionSize <= c
      /\ ps \in Nat /\ ps <= targetPrefixSize /\ (ps > 0 => b.prefix.start + ps = p) /\ b.prefix.start >= 0
      /\ b.prefix.start \in Int
  BY DEF Layout, SectionOK, RangeOK, Sections, Ranges
<1>c. /\ ns \in Nat /\ nb \in Int /\ 0 <= nb /\ ns <= f /\ ns <= targetPrefixSize /\ (ns > 0 => nb = p + f - ns)
  <2>1. CASE b2.prefix = NullRange
    BY <1>a, <1>b, <2>1 DEF NullRange
  <2>2. CASE b2.prefix = [start |-> p + f - PrefixSize(f), size |-> PrefixSize(f)]
    <3>1. PrefixSize(f) \in Nat /\ PrefixSize(f) <= f /\ PrefixSize(f) <= targetPrefixSize
      BY ONLY <1>a, <1>b DEF PrefixSize, Smaller
    <3>2. ns = PrefixSize(f) /\ nb = p + f - PrefixSize(f)
      BY <2>2
    <3>3. QED
      BY ONLY <1>b, <3>1, <3>2, p \in Int
  <2>3. QED
    BY <2>1, <2>2
<1>d. /\ IsSequence(js) /\ Len(js) \in Nat /\ IsSequence(ks) /\ Len(ks) = Len(js) + 1
      /\ \A i \in 1 .. Len(js) : ks[i] = js[i]
      /\ ks[Len(js) + 1] = j
  BY SequenceAppend DEF AreJobs, IsSequence
<1> HIDE DEF f, ps, ns, nb, ks, q
<1>0. AreJobs(ks)
  BY <1>d DEF AreJobs
<1>1. SectionOK(b2, q, c)
  BY <1>a, <1>b, <1>c DEF SectionOK, RangeOK, ns, nb, q
<1>2. SectionIntact(b2, rg, n)
  <2>1. HoldsIn(rg, b2.start, 0, n - 0 + 1)
    BY DEF HoldsIn
  <2>2. HoldsIn(rg, nb, ns, n - 0 - ns + 1)
    <3> SUFFICES ASSUME NEW i \in 1 .. ns PROVE rg[nb + i - 1] = n - 0 - ns + 1 + i - 1
      BY DEF HoldsIn
    <3>1. f - ns + i \in 1 .. f /\ f > 0
      BY <1>b, <1>c
    <3>2. HoldsIn(rg, p, f, n - f + 1)
      BY <1>b, <3>1 DEF Layout, SectionIntact, f
    <3>3. rg[p + (f - ns + i) - 1] = n - f + 1 + (f - ns + i) - 1
      BY <3>1, <3>2 DEF HoldsIn
    <3>4. p + (f - ns + i) - 1 = nb + i - 1
      <4>1. ns > 0 /\ i \in Int
        BY <1>c
      <4>2. nb = p + f - ns
        BY <1>c, <4>1
      <4>3. QED
        BY ONLY <1>b, <1>c, <4>1, <4>2, p \in Int
    <3>5. QED
      BY <1>b, <1>c, <3>3, <3>4
  <2>3. QED
    BY <2>1, <2>2 DEF SectionIntact, ns, nb
<1>3. JobFits(j, c) /\ Begin(j) = p - ps /\ End(j) = q
  BY <1>a, <1>b DEF JobFits, RangeOK, Begin, End, ps, f, q
<1>4. JobIntact(j, rg)
  <2>1. HoldsIn(rg, p, f, n - f + 1)
    <3>1. CASE f = 0
      BY <3>1 DEF HoldsIn
    <3>2. CASE f > 0
      BY <1>b, <3>2 DEF Layout, SectionIntact, f
    <3>3. QED
      BY <1>b, <3>1, <3>2
  <2>2. HoldsIn(rg, b.prefix.start, ps, n - f - ps + 1)
    BY DEF Layout, SectionIntact, f, ps
  <2>3. n - f + 1 - ps = n - f - ps + 1
    BY <1>b
  <2>4. j.src.start = p /\ j.src.size = f /\ j.from = n - f + 1 /\ j.prefix.start = b.prefix.start /\ j.prefix.size = ps
    BY DEF f, ps
  <2>5. HoldsIn(rg, j.src.start, j.src.size, j.from)
    BY ONLY <2>1, <2>4
  <2>6. HoldsIn(rg, j.prefix.start, j.prefix.size, j.from - j.prefix.size)
    <3>1. j.from - j.prefix.size = n - f - ps + 1
      BY ONLY <1>b, <2>4, n \in Int
    <3>2. QED
      BY ONLY <2>2, <2>4, <3>1
  <2>7. QED
    BY ONLY <2>5, <2>6 DEF JobIntact
<1>5. Behind(j, q, b2)
  <2>1. p - ps <= q - ns
    BY <1>b, <1>c DEF q
  <2>2. q <= q
    BY <1>b DEF q
  <2>3. QED
    BY <1>3, <2>1, <2>2 DEF Behind, ns
<1>6. ASSUME NEW i \in 1 .. Len(js), ~Complete(js[i])
      PROVE  /\ Placed(js[i], rg, q, b2)
             /\ Ahead(js[i], q, b2) <=> Ahead(js[i], p, b)
             /\ Behind(js[i], q, b2) <=> Behind(js[i], p, b)
             /\ Behind(js[i], q, b2) => Begin(js[i]) <= Begin(j)
             /\ Ahead(js[i], q, b2) => ~Behind(js[i], q, b2)
  <2>1. IsJob(js[i]) /\ JobFits(js[i], c) /\ Placed(js[i], rg, p, b)
    BY <1>6 DEF Layout, AreJobs
  <2>2. Begin(js[i]) \in Nat /\ End(js[i]) \in Nat /\ Begin(js[i]) < End(js[i])
    <3>1. /\ js[i].src.size \in Nat /\ js[i].src.start \in Nat /\ js[i].prefix.size \in Nat
          /\ Begin(js[i]) = js[i].src.start - js[i].prefix.size /\ End(js[i]) = js[i].src.start + js[i].src.size
          /\ js[i].src.size > 0 /\ Begin(js[i]) \in Nat /\ End(js[i]) \in Nat
      BY ONLY <1>6, <2>1, JobNumbers, c \in Nat
    <3>2. \A x, y, z \in Nat : x > 0 => y - z < y + x
      OBVIOUS
    <3>3. Begin(js[i]) < End(js[i])
      BY ONLY <3>1, <3>2
    <3>4. QED
      BY ONLY <3>1, <3>3
  <2>3. \/ End(js[i]) <= p /\ Begin(js[i]) <= p - ps
        \/ p + (IF b.has THEN targetSectionSize ELSE 0) <= Begin(js[i])
    BY <2>1 DEF Placed, Behind, Ahead, ps
  <2>4. ~b.has => f = 0
    BY DEF Layout, SectionOK, f
  <2>5. Ahead(js[i], p, b) <=> (p + (IF b.has THEN targetSectionSize ELSE 0) <= Begin(js[i]))
    BY DEF Ahead
  <2>6. Ahead(js[i], q, b2) <=> q <= Begin(js[i])
    BY DEF Ahead
  <2>7. Behind(js[i], p, b) <=> End(js[i]) <= p /\ Begin(js[i]) <= p - ps
    BY DEF Behind, ps
  <2>8. Behind(js[i], q, b2) <=> End(js[i]) <= q /\ Begin(js[i]) <= q - ns
    BY DEF Behind, ns
  <2>9. b.has \in BOOLEAN
    BY DEF Sections
  <2>b. CASE End(js[i]) <= p /\ Begin(js[i]) <= p - ps
    <3>1. End(js[i]) <= q /\ Begin(js[i]) <= q - ns /\ ~(q <= Begin(js[i]))
          /\ ~(p + (IF b.has THEN targetSectionSize ELSE 0) <= Begin(js[i]))
      <4> DEFINE lo == Begin(js[i])
                 hi == End(js[i])
                 t == IF b.has THEN targetSectionSize ELSE 0
      <4>1. lo \in Nat /\ hi \in Nat /\ lo < hi /\ hi <= p /\ lo <= p - ps
        BY ONLY <2>2, <2>b
      <4>2. t \in Nat
        BY ONLY <1>a
      <4> HIDE DEF lo, hi, t
      <4>3. hi <= q /\ lo <= q - ns /\ ~(q <= lo)
        BY ONLY <1>b, <1>c, <4>1, p \in Int DEF q
      <4>4. ~(p + t <= lo)
        BY ONLY <4>1, <4>2, p \in Int
      <4>5. QED
        BY ONLY <4>3, <4>4 DEF lo, hi, t
    <3>2. QED
      BY <1>3, <2>1, <2>b, <2>5, <2>6, <2>7, <2>8, <3>1 DEF Placed
  <2>c. CASE p + (IF b.has THEN targetSectionSize ELSE 0) <= Begin(js[i])
    <3>1. q <= Begin(js[i]) /\ ~(End(js[i]) <= q) /\ ~(End(js[i]) <= p)
      BY ONLY SMTT(30), <1>a, <1>b, <1>c, <2>2, <2>4, <2>9, <2>c, p \in Int DEF q
    <3>2. QED
      BY <2>1, <2>c, <2>5, <2>6, <2>7, <2>8, <3>1 DEF Placed
  <2>d. QED
    BY <2>3, <2>b, <2>c
<1>7. \A i \in 1 .. Len(ks) : JobFits(ks[i], c)
  <2>1. \A i \in 1 .. Len(js) : JobFits(js[i], c)
    BY DEF Layout
  <2>2. QED
    BY <1>d, <1>3, <2>1
<1>8. \A i \in 1 .. Len(ks) : ~Complete(ks[i]) => Placed(ks[i], rg, q, b2)
  <2>1. Placed(j, rg, q, b2)
    BY <1>4, <1>5 DEF Placed
  <2>2. QED
    BY <1>d, <1>6, <2>1
<1>9. ASSUME NEW i \in 1 .. Len(ks), NEW k \in 1 .. Len(ks), i < k, ~Complete(ks[i]), ~Complete(ks[k])
      PROVE  InOrder(ks[i], ks[k], q, b2)
  <2>0. i \in 1 .. Len(js) /\ ks[i] = js[i]
    BY <1>d, <1>9
  <2>1. CASE k \in 1 .. Len(js)
    <3>1. InOrder(js[i], js[k], p, b) /\ ks[k] = js[k]
      BY <1>d, <1>9, <2>0, <2>1 DEF Layout
    <3>2. QED
      BY <1>6, <1>9, <2>0, <2>1, <3>1 DEF InOrder
  <2>2. CASE k = Len(js) + 1
    <3>1. ks[k] = j
      BY <1>d, <2>2
    <3>3. ~Ahead(j, q, b2) => InOrder(js[i], j, q, b2)
      BY <1>5, <1>6, <1>9, <2>0 DEF InOrder
    <3>4. ~Ahead(j, q, b2)
      <4>1. f > 0
        BY <1>b, <1>9, <3>1 DEF Complete, f
      <4>2. ~(q <= p - ps)
        BY <1>b, <4>1 DEF q
      <4>3. QED
        BY <1>3, <4>2 DEF Ahead
    <3>5. QED
      BY <2>0, <3>1, <3>3, <3>4
  <2>3. QED
    BY <1>d, <2>1, <2>2
<1>10. 2 * targetSectionSize <= c
  BY DEF Layout
<1>11. Layout(ks, rg, c, q, b2, n)
  BY <1>1, <1>2, <1>7, <1>8, <1>9, <1>10 DEF Layout
<1>12. QED
  BY <1>0, <1>11 DEF ks, q, f
LEMMA LeastOf ==
  ASSUME NEW S, S \subseteq Nat, S # {}
  PROVE  \E x \in S : \A y \in S : x <= y
<1>1. PICK x \in S : \A y \in S : <<y, x>> \notin OpToRel(<, Nat)
  BY NatLessThanWellFounded, WFMin
<1>2. \A y \in S : ~(y < x)
  BY <1>1 DEF OpToRel
<1>3. QED
  BY <1>2

(* What the caller looks at: where the first job that is not complete has  *)
(* its data begin.                                                         *)
LEMMA InUseIs ==
  ASSUME AreJobs(jobs), Posted = jobs, NEW c \in Nat, \A i \in 1 .. Len(jobs) : JobFits(jobs[i], c),
         NEW k \in 1 .. Len(jobs), ~Complete(jobs[k])
  PROVE  \E i \in 1 .. Len(jobs) : /\ ~Complete(jobs[i])
                                   /\ \A x \in 1 .. Len(jobs) : ~Complete(jobs[x]) => i <= x
                                   /\ Begin(jobs[i]) \in Positions(InUse)
<1>1. Len(jobs) \in Nat /\ DOMAIN jobs = 1 .. Len(jobs)
  BY DEF AreJobs, IsSequence
<1>2. Open = {i \in 1 .. Len(jobs) : ~Complete(jobs[i])}
  BY <1>1 DEF Open
<1>3. k \in Open /\ Open \subseteq Nat
  BY <1>1, <1>2
<1>4. Earliest(Open) \in Open /\ \A y \in Open : Earliest(Open) <= y
  BY <1>3, LeastOf DEF Earliest
<1> DEFINE i == Earliest(Open)
           j == jobs[i]
<1>5. i \in 1 .. Len(jobs) /\ ~Complete(j) /\ \A x \in 1 .. Len(jobs) : ~Complete(jobs[x]) => i <= x
  BY <1>2, <1>4
<1>6. InUse = IF j.prefix.size = 0 THEN j.src ELSE j.prefix
  BY <1>3 DEF InUse
<1> HIDE DEF i
<1>7. Begin(j) \in Positions(InUse)
  <2>1. IsJob(j) /\ JobFits(j, c)
    BY <1>5 DEF AreJobs
  <2>2. /\ j.src.size \in Nat /\ j.src.start \in Nat /\ j.prefix.size \in Nat /\ Begin(j) \in Nat
        /\ Begin(j) = j.src.start - j.prefix.size
        /\ j.src.size > 0 /\ (j.prefix.size > 0 => j.prefix.start = Begin(j))
    BY ONLY <1>5, <2>1, JobNumbers, c \in Nat
  <2>3. CASE j.prefix.size = 0
    <3>1. InUse = j.src /\ Begin(j) = j.src.start
      BY <1>6, <2>2, <2>3
    <3>2. j.src.start \in j.src.start .. j.src.start + j.src.size - 1
      BY SMTT(30), <2>2
    <3>3. QED
      BY <3>1, <3>2 DEF Positions
  <2>4. CASE j.prefix.size # 0
    <3>1. InUse = j.prefix /\ Begin(j) = j.prefix.start
      BY <1>6, <2>2, <2>4
    <3>2. j.prefix.start \in j.prefix.start .. j.prefix.start + j.prefix.size - 1
      BY SMTT(30), <2>2, <2>4
    <3>3. QED
      BY <3>1, <3>2 DEF Positions
  <2>5. QED
    BY <2>3, <2>4
<1>8. QED
  BY <1>5, <1>7

LEMMA NotOverlapped ==
  ASSUME NEW start \in Int, NEW size \in Int, NEW r, ~isOverlapped([start |-> start, size |-> size], r),
         NEW x \in Positions(r), x \in Int
  PROVE  x < start \/ start + size <= x
BY DEF isOverlapped, Positions

(* A section that does not overlap what the first such job has is free of  *)
(* all of them.                                                            *)
LEMMA SectionIsFree ==
  ASSUME AreJobs(jobs), Posted = jobs, NEW c \in Nat, NEW rg, NEW p \in Int, NEW b \in Sections, ~b.has, NEW n,
         Layout(jobs, rg, c, p, b, n),
         ~isOverlapped([start |-> p, size |-> targetSectionSize], InUse),
         NEW k \in 1 .. Len(jobs), ~Complete(jobs[k])
  PROVE  Behind(jobs[k], p, b) \/ p + targetSectionSize <= Begin(jobs[k])
<1>0. targetSectionSize \in Nat
  BY SizesAssumption
<1>1. \A i \in 1 .. Len(jobs) : JobFits(jobs[i], c) /\ IsJob(jobs[i])
  BY DEF Layout, AreJobs
<1>2. PICK i \in 1 .. Len(jobs) : /\ ~Complete(jobs[i])
                                  /\ \A x \in 1 .. Len(jobs) : ~Complete(jobs[x]) => i <= x
                                  /\ Begin(jobs[i]) \in Positions(InUse)
  BY <1>1, InUseIs
<1>3. Begin(jobs[i]) \in Nat /\ Begin(jobs[k]) \in Nat
  BY <1>1, JobNumbers
<1>4. Begin(jobs[i]) < p \/ p + targetSectionSize <= Begin(jobs[i])
  BY <1>0, <1>2, <1>3, NotOverlapped
<1>5. i = k \/ (i < k /\ InOrder(jobs[i], jobs[k], p, b))
  <2>1. i <= k /\ i \in Int /\ k \in Int
    BY <1>2
  <2>2. i < k => InOrder(jobs[i], jobs[k], p, b)
    BY <1>2 DEF Layout
  <2>3. QED
    BY <2>1, <2>2
<1>6. /\ Behind(jobs[i], p, b) \/ Ahead(jobs[i], p, b)
      /\ Behind(jobs[k], p, b) \/ Ahead(jobs[k], p, b)
  BY <1>2 DEF Layout, Placed
<1>7. CASE Behind(jobs[i], p, b)
  BY <1>5, <1>7 DEF InOrder
<1>8. CASE Ahead(jobs[i], p, b)
  <2>1. p <= Begin(jobs[i])
    BY <1>8 DEF Ahead
  <2>2. p + targetSectionSize <= Begin(jobs[i])
    BY <1>3, <1>4, <2>1
  <2>3. Ahead(jobs[k], p, b) => Begin(jobs[i]) <= Begin(jobs[k])
    BY <1>3, <1>5 DEF InOrder
  <2>4. QED
    BY <1>0, <1>3, <1>6, <2>2, <2>3
<1>9. QED
  BY <1>6, <1>7, <1>8

(* With too little room before the end of the buffer all of them are       *)
(* behind, and where the first one begins the others begin no earlier.     *)
LEMMA CopyIsFree ==
  ASSUME AreJobs(jobs), Posted = jobs, NEW c \in Nat, NEW rg, NEW p \in Int, NEW b \in Sections, ~b.has, NEW n,
         Layout(jobs, rg, c, p, b, n), c - p < targetSectionSize,
         ~isOverlapped([start |-> 0, size |-> b.prefix.size], InUse),
         NEW k \in 1 .. Len(jobs), ~Complete(jobs[k])
  PROVE  b.prefix.size <= Begin(jobs[k])
<1>0. targetSectionSize \in Nat /\ b.prefix.size \in Nat
  BY SizesAssumption DEF Layout, SectionOK, RangeOK, Sections, Ranges
<1>1. \A i \in 1 .. Len(jobs) : JobFits(jobs[i], c) /\ IsJob(jobs[i])
  BY DEF Layout, AreJobs
<1>2. PICK i \in 1 .. Len(jobs) : /\ ~Complete(jobs[i])
                                  /\ \A x \in 1 .. Len(jobs) : ~Complete(jobs[x]) => i <= x
                                  /\ Begin(jobs[i]) \in Positions(InUse)
  BY <1>1, InUseIs
<1>3. Begin(jobs[i]) \in Nat /\ Begin(jobs[k]) \in Nat
  BY <1>1, JobNumbers
<1>4. b.prefix.size <= Begin(jobs[i])
  <2>1. Begin(jobs[i]) < 0 \/ 0 + b.prefix.size <= Begin(jobs[i])
    BY <1>0, <1>2, <1>3, NotOverlapped
  <2>2. QED
    BY <1>0, <1>3, <2>1
<1>5. i = k \/ (i < k /\ InOrder(jobs[i], jobs[k], p, b))
  <2>1. i <= k /\ i \in Int /\ k \in Int
    BY <1>2
  <2>2. i < k => InOrder(jobs[i], jobs[k], p, b)
    BY <1>2 DEF Layout
  <2>3. QED
    BY <2>1, <2>2
<1>6. Behind(jobs[i], p, b)
  <2>1. Behind(jobs[i], p, b) \/ p <= Begin(jobs[i])
    BY <1>2 DEF Layout, Placed, Ahead
  <2>2. IsJob(jobs[i]) /\ JobFits(jobs[i], c) /\ ~Complete(jobs[i])
    BY <1>1, <1>2
  <2>3. /\ jobs[i].src.start \in Nat /\ jobs[i].prefix.size \in Nat
        /\ Begin(jobs[i]) = jobs[i].src.start - jobs[i].prefix.size
        /\ jobs[i].src.start + targetSectionSize <= c
    BY ONLY <2>2, JobNumbers, c \in Nat
  <2>4. ~(p <= Begin(jobs[i]))
    BY ONLY <1>0, <2>3, c \in Nat, p \in Int, c - p < targetSectionSize
  <2>5. QED
    BY <2>1, <2>4
<1>7. QED
  BY <1>0, <1>3, <1>4, <1>5, <1>6 DEF InOrder
-----------------------------------------------------------------------------
(* What a call does to the buffers *)

LEMMA Unchanged ==
  ASSUME Shapes, NEW ok
  PROVE  LET r == Unwrapped(ok)
         IN r.ok = ok /\ r.ring = ring /\ r.pos = pos /\ r.prefix = inBuff.prefix /\ [inBuff EXCEPT !.prefix = r.prefix] = inBuff
BY DEF Unwrapped, Shapes, Sections

(* With a wrapped buffer or without, before a section is taken. *)
LEMMA WrappedLayout ==
  ASSUME Shapes, AreJobs(jobs), Layout(jobs, ring, C, pos, inBuff, fed), Posted = jobs, ~inBuff.has
  PROVE  LET r == Wrapped
             b == [inBuff EXCEPT !.prefix = r.prefix]
         IN /\ r.ok \in BOOLEAN /\ r.pos \in Int /\ IsRing(r.ring, C) /\ r.prefix \in Ranges
            /\ r.prefix.size = inBuff.prefix.size
            /\ b \in Sections /\ ~b.has /\ b.filled = inBuff.filled /\ b.prefix = r.prefix
            /\ Layout(jobs, r.ring, C, r.pos, b, fed)
            /\ r.ok => r.pos + targetSectionSize <= C
<1> DEFINE size == inBuff.prefix.size
           copy == [start |-> 0, size |-> size]
<1>a. /\ C \in Nat /\ IsRing(ring, C) /\ pos \in Nat /\ fed \in Nat /\ inBuff \in Sections
      /\ targetSectionSize \in Nat /\ targetPrefixSize \in Nat /\ targetPrefixSize <= targetSectionSize
  BY SizesAssumption DEF Shapes, IsRing
<1>b. size \in Nat /\ size <= targetPrefixSize /\ inBuff.filled = 0 /\ 2 * targetSectionSize <= C
  BY <1>a DEF Layout, SectionOK, RangeOK, Sections, Ranges
<1>1. CASE C - pos >= targetSectionSize
  <2>1. Wrapped = Unwrapped(TRUE)
    BY <1>1 DEF Wrapped, C
  <2>2. inBuff.prefix \in Ranges /\ pos + targetSectionSize <= C
    BY <1>a, <1>1 DEF Sections
  <2> DEFINE r == Wrapped
             b == [inBuff EXCEPT !.prefix = r.prefix]
  <2>3. r.ok = TRUE /\ r.ring = ring /\ r.pos = pos /\ r.prefix = inBuff.prefix /\ b = inBuff
    BY <2>1, Unchanged
  <2> HIDE DEF r, b
  <2>4. r.pos \in Int /\ IsRing(r.ring, C)
    BY <1>a, <2>3
  <2>5. Layout(jobs, r.ring, C, r.pos, b, fed)
    BY <2>3
  <2>6. r.prefix \in Ranges /\ r.prefix.size = inBuff.prefix.size /\ b \in Sections /\ ~b.has /\ b.filled = inBuff.filled
        /\ b.prefix = r.prefix
    BY <1>a, <2>2, <2>3
  <2>7. r.ok \in BOOLEAN /\ (r.ok => r.pos + targetSectionSize <= C)
    BY <2>2, <2>3
  <2>8. QED
    BY <2>4, <2>5, <2>6, <2>7 DEF r, b
<1>2. CASE ~(C - pos >= targetSectionSize) /\ isOverlapped(copy, InUse)
  <2>1. Wrapped = Unwrapped(FALSE)
    BY <1>2 DEF Wrapped, C
  <2>2. inBuff.prefix \in Ranges
    BY <1>a DEF Sections
  <2> DEFINE r == Wrapped
             b == [inBuff EXCEPT !.prefix = r.prefix]
  <2>3. r.ok = FALSE /\ r.ring = ring /\ r.pos = pos /\ r.prefix = inBuff.prefix /\ b = inBuff
    BY <2>1, Unchanged
  <2> HIDE DEF r, b
  <2>4. r.pos \in Int /\ IsRing(r.ring, C)
    BY <1>a, <2>3
  <2>5. Layout(jobs, r.ring, C, r.pos, b, fed)
    BY <2>3
  <2>6. r.prefix \in Ranges /\ r.prefix.size = inBuff.prefix.size /\ b \in Sections /\ ~b.has /\ b.filled = inBuff.filled
        /\ b.prefix = r.prefix
    BY <1>a, <2>2, <2>3
  <2>7. r.ok \in BOOLEAN /\ (r.ok => r.pos + targetSectionSize <= C)
    BY <2>2, <2>3
  <2>8. QED
    BY <2>4, <2>5, <2>6, <2>7 DEF r, b
<1>3. CASE ~(C - pos >= targetSectionSize) /\ ~isOverlapped(copy, InUse)
  <2> DEFINE r == Wrapped
             b == [inBuff EXCEPT !.prefix = copy]
             rg == [i \in DOMAIN ring |-> IF i < inBuff.prefix.size THEN ring[inBuff.prefix.start + i] ELSE ring[i]]
  <2>1. r = [ok |-> TRUE, pos |-> size, prefix |-> copy, ring |-> rg]
    BY <1>3 DEF Wrapped, C
  <2>2. IsRing(rg, C)
    BY <1>a DEF IsRing
  <2>3. copy \in Ranges
    BY <1>b DEF Ranges
  <2>4. b \in Sections /\ ~b.has /\ b.filled = inBuff.filled /\ b.prefix = copy
    BY <1>a, <2>3 DEF Sections
  <2>5. C - pos < targetSectionSize /\ pos \in Int /\ fed \in Int
    BY <1>a, <1>3
  <2>6. \A k \in 1 .. Len(jobs) : ~Complete(jobs[k]) => inBuff.prefix.size <= Begin(jobs[k])
    BY <1>a, <1>3, <2>5, CopyIsFree
  <2> HIDE DEF rg, b
  <2>7. rg = [i \in DOMAIN ring |-> IF i < inBuff.prefix.size THEN ring[inBuff.prefix.start + i] ELSE ring[i]]
    BY DEF rg
  <2>8. Layout(jobs, rg, C, inBuff.prefix.size, b, fed)
    BY <1>a, <1>b, <2>4, <2>5, <2>6, <2>7, LayoutWrap
  <2>9. size + targetSectionSize <= C
    BY <1>a, <1>b
  <2>b. r.ok = TRUE /\ r.pos = size /\ r.prefix = copy /\ r.ring = rg
    BY <2>1
  <2> HIDE DEF r
  <2>10. [inBuff EXCEPT !.prefix = r.prefix] = b
    BY <2>b DEF b
  <2>11. r.ok \in BOOLEAN /\ r.pos \in Int /\ IsRing(r.ring, C) /\ r.prefix \in Ranges
    <3>0. size \in Int
      BY <1>b
    <3>1. r.ok \in BOOLEAN /\ r.pos \in Int
      BY ONLY <2>b, <3>0
    <3>2. IsRing(r.ring, C)
      BY <2>2, <2>b
    <3>3. r.prefix \in Ranges
      BY <2>3, <2>b
    <3>4. QED
      BY <3>1, <3>2, <3>3
  <2>12. r.prefix.size = inBuff.prefix.size
    BY <2>b
  <2>13. Layout(jobs, r.ring, C, r.pos, b, fed)
    BY <2>8, <2>b
  <2>14. r.pos + targetSectionSize <= C
    BY <2>9, <2>b
  <2>15. b \in Sections /\ ~b.has /\ b.filled = inBuff.filled /\ b.prefix = r.prefix
    BY <2>4, <2>b
  <2>16. QED
    BY <2>10, <2>11, <2>12, <2>13, <2>14, <2>15 DEF r
<1>4. QED
  BY <1>1, <1>2, <1>3

LEMMA SectionLayout ==
  ASSUME Shapes, AreJobs(jobs), Layout(jobs, ring, C, pos, inBuff, fed), NEW fills \in BOOLEAN, fills => Posted = jobs,
         NEW r, r = IF fills /\ ~inBuff.has THEN Wrapped ELSE Unwrapped(FALSE)
  PROVE  LET b == Section(r)
         IN /\ r.pos \in Int /\ IsRing(r.ring, C)
            /\ b \in Sections /\ b.prefix.size = inBuff.prefix.size /\ b.filled = inBuff.filled
            /\ Layout(jobs, r.ring, C, r.pos, b, fed)
            /\ ~fills => r.pos = pos /\ r.ring = ring /\ b = inBuff
<1>a. /\ C \in Nat /\ IsRing(ring, C) /\ pos \in Nat /\ fed \in Nat /\ inBuff \in Sections
  BY SizesAssumption DEF Shapes, IsRing
<1>1. CASE ~(fills /\ ~inBuff.has)
  <2>1. r = Unwrapped(FALSE)
    BY <1>1
  <2>2. r.ok = FALSE /\ r.ring = ring /\ r.pos = pos /\ [inBuff EXCEPT !.prefix = r.prefix] = inBuff
    BY <2>1, Unchanged
  <2>3. Section(r) = inBuff
    BY <2>2 DEF Section, GotRange
  <2>4. Layout(jobs, r.ring, C, r.pos, Section(r), fed)
    BY <2>2, <2>3
  <2>5. IsRing(r.ring, C)
    BY <1>a, <2>2
  <2>a. r.pos \in Int
    <3>1. r.pos = pos
      BY <2>2
    <3>2. pos \in Int
      BY <1>a
    <3>3. QED
      BY ONLY <3>1, <3>2
  <2>6. Section(r) \in Sections /\ Section(r).prefix.size = inBuff.prefix.size /\ Section(r).filled = inBuff.filled
    BY <1>a, <2>3
  <2>7. QED
    BY <2>2, <2>3, <2>4, <2>5, <2>6, <2>a
<1>2. CASE fills /\ ~inBuff.has
  <2> DEFINE b == [inBuff EXCEPT !.prefix = r.prefix]
  <2>1. /\ r.ok \in BOOLEAN /\ r.pos \in Int /\ IsRing(r.ring, C) /\ r.prefix \in Ranges
        /\ r.prefix.size = inBuff.prefix.size
        /\ b \in Sections /\ ~b.has /\ b.filled = inBuff.filled /\ b.prefix = r.prefix
        /\ Layout(jobs, r.ring, C, r.pos, b, fed)
        /\ r.ok => r.pos + targetSectionSize <= C
    BY <1>2, WrappedLayout
  <2> HIDE DEF b
  <2>2. CASE ~GotRange(r)
    <3>1. Section(r) = b
      BY <2>2 DEF Section, b
    <3>2. QED
      BY <1>2, <2>1, <3>1
  <2>3. CASE GotRange(r)
    <3> DEFINE b2 == [has |-> TRUE, start |-> r.pos, filled |-> 0, prefix |-> r.prefix]
    <3>1. Section(r) = b2
      BY <2>3 DEF Section
    <3>2. r.ok /\ ~isOverlapped([start |-> r.pos, size |-> targetSectionSize], InUse)
      BY <2>3 DEF GotRange
    <3>3. \A k \in 1 .. Len(jobs) : ~Complete(jobs[k]) =>
            Behind(jobs[k], r.pos, b) \/ r.pos + targetSectionSize <= Begin(jobs[k])
      BY <1>2, <1>a, <2>1, <3>2, SectionIsFree
    <3>4. b2 \in Sections /\ b2.prefix.size = inBuff.prefix.size
      <4>1. r.prefix \in Ranges /\ r.pos \in Int
        BY <2>1
      <4>2. b2 \in Sections
        BY ONLY <4>1 DEF Sections
      <4>3. QED
        BY <2>1, <4>2
    <3>5. b2 = [has |-> TRUE, start |-> r.pos, filled |-> 0, prefix |-> b.prefix]
      BY <2>1
    <3> HIDE DEF b2
    <3>6. Layout(jobs, r.ring, C, r.pos, b2, fed)
      <4>1. r.pos + targetSectionSize <= C /\ ~b.has /\ b \in Sections /\ r.pos \in Int /\ fed \in Int /\ C \in Nat
        <5>1. r.pos + targetSectionSize <= C /\ ~b.has /\ b \in Sections
          BY <2>1, <3>2
        <5>2. r.pos \in Int
          BY <2>1
        <5>3. fed \in Int /\ C \in Nat
          BY <1>a
        <5>4. QED
          BY ONLY <5>1, <5>2, <5>3
      <4>2. Layout(jobs, r.ring, C, r.pos, b, fed)
        BY <2>1
      <4>3. QED
        BY ONLY <3>3, <3>5, <4>1, <4>2, AreJobs(jobs), LayoutSection
    <3>8. Section(r).filled = inBuff.filled
      <4>1. inBuff.filled = 0
        BY <1>2 DEF Layout, SectionOK
      <4>2. Section(r).filled = 0
        <5>1. b2.filled = 0
          BY ONLY <3>5
        <5>2. QED
          BY ONLY <3>1, <5>1
      <4>3. QED
        BY ONLY <4>1, <4>2
    <3>7. QED
      BY <1>2, <2>1, <3>1, <3>4, <3>6, <3>8
  <2>4. QED
    BY <2>2, <2>3
<1>3. QED
  BY <1>1, <1>2
LEMMA LoadLayout ==
  ASSUME NEW js, AreJobs(js), NEW c \in Nat, NEW rg, IsRing(rg, c), NEW p \in Int, NEW b \in Sections, NEW n \in Int,
         Layout(js, rg, c, p, b, n), NEW load \in Nat, b.filled + load <= targetSectionSize, load > 0 => b.has,
         NEW rg2, IsRing(rg2, c),
         \A i \in 0 .. c - 1 : rg2[i] = IF i \in b.start + b.filled .. b.start + b.filled + load - 1
                                        THEN n + 1 + i - (b.start + b.filled) ELSE rg[i]
  PROVE  LET b2 == [b EXCEPT !.filled = @ + load]
         IN /\ b2 \in Sections /\ b2.prefix = b.prefix /\ b2.has = b.has
            /\ Layout(js, rg2, c, p, b2, n + load)
            /\ load = 0 => b2 = b /\ rg2 = rg
<1> DEFINE b2 == [b EXCEPT !.filled = @ + load]
<1>1. DOMAIN rg = 0 .. c - 1 /\ rg = [i \in 0 .. c - 1 |-> rg[i]] /\ rg2 = [i \in 0 .. c - 1 |-> rg2[i]]
  BY DEF IsRing
<1>2. b.filled \in Int /\ b.start \in Int
  BY DEF Sections
<1>3. b2 \in Sections /\ b2.prefix = b.prefix /\ b2.has = b.has /\ b2.start = b.start /\ b2.filled = b.filled + load
  BY <1>2 DEF Sections
<1>4. load = 0 => b2 = b
  <2>1. ASSUME load = 0 PROVE b2 = b
    <3>1. b.filled + load = b.filled
      BY ONLY <1>2, <2>1
    <3>2. QED
      BY ONLY <3>1, b \in Sections DEF Sections
  <2>2. QED
    BY <2>1
<1> HIDE DEF b2
<1>5. load = 0 => rg2 = rg
  <2>1. ASSUME load = 0 PROVE \A i \in 0 .. c - 1 : rg2[i] = rg[i]
    <3>1. \A i \in Int : ~(i \in b.start + b.filled .. b.start + b.filled + load - 1)
      BY <1>2, <2>1
    <3>2. QED
      BY <3>1
  <2>2. QED
    BY <1>1, <2>1
<1>6. Layout(js, rg2, c, p, b2, n + load)
  <2>1. CASE load = 0
    <3>1. n + load = n
      BY ONLY <2>1, n \in Int
    <3>2. QED
      BY ONLY <1>4, <1>5, <2>1, <3>1, Layout(js, rg, c, p, b, n)
  <2>2. CASE load > 0
    <3>1. rg2 = [i \in DOMAIN rg |-> IF i \in b.start + b.filled .. b.start + b.filled + load - 1
                                     THEN n + 1 + i - (b.start + b.filled) ELSE rg[i]]
      BY <1>1, <1>2
    <3>2. b.has /\ b2.has
      BY <1>3, <2>2
    <3>3. QED
      BY <1>3, <3>1, <3>2, LayoutFill
  <2>3. QED
    BY <2>1, <2>2
<1>7. QED
  BY <1>1, <1>3, <1>4, <1>5, <1>6 DEF b2

LEMMA LoadIs ==
  ASSUME NEW b \in Sections, b.filled >= 0, b.filled <= targetSectionSize, NEW n \in Nat, NEW fills \in BOOLEAN,
         NEW load, load = IF fills /\ b.has THEN Smaller(n, targetSectionSize - b.filled) ELSE 0
  PROVE  /\ load \in Nat /\ load <= n /\ b.filled + load <= targetSectionSize
         /\ load > 0 => b.has
         /\ ~fills => load = 0
<1>1. b.filled \in Nat /\ targetSectionSize \in Nat
  BY SizesAssumption DEF Sections
<1>2. Smaller(n, targetSectionSize - b.filled) \in Nat /\ Smaller(n, targetSectionSize - b.filled) <= n
      /\ b.filled + Smaller(n, targetSectionSize - b.filled) <= targetSectionSize
  BY ONLY <1>1, b.filled <= targetSectionSize, n \in Nat DEF Smaller
<1>3. CASE fills /\ b.has
  BY <1>2, <1>3
<1>4. CASE ~(fills /\ b.has)
  <2>1. load = 0
    BY <1>4
  <2>2. b.filled + 0 <= targetSectionSize
    BY <1>1
  <2>3. QED
    BY <2>1, <2>2
<1>5. QED
  BY <1>3, <1>4

FilledRing(rg, b, load) ==
  [i \in DOMAIN ring |-> IF i \in b.start + b.filled .. b.start + b.filled + load - 1
                         THEN fed + 1 + i - (b.start + b.filled) ELSE rg[i]]

LEMMA MakeSection ==
  ASSUME NEW r \in Ranges, NEW b, b = [has |-> FALSE, start |-> 0, filled |-> 0, prefix |-> r]
  PROVE  b \in Sections /\ ~b.has /\ b.filled = 0
BY DEF Sections

LEMMA NewJobIs ==
  ASSUME NEW b \in Sections, NEW p \in Int, NEW op, fed' \in Int
  PROVE  LET j == NewJob(b, p, op)
         IN /\ IsJob(j) /\ ~j.user /\ j.src = [start |-> p, size |-> b.filled] /\ j.prefix = b.prefix
            /\ j.from = fed' - b.filled + 1 /\ j.consumed = 0
<1> DEFINE j == NewJob(b, p, op)
<1>1. Has(j, JobFields)
  BY DEF NewJob, Has, JobFields
<1>2. j.user = FALSE /\ j.src = [start |-> p, size |-> b.filled] /\ j.prefix = b.prefix
      /\ j.from = fed' - b.filled + 1 /\ j.consumed = 0
  BY DEF NewJob
<1>3. b.filled \in Int /\ b.prefix \in Ranges
  BY DEF Sections
<1> HIDE DEF j
<1>4. j.src \in Ranges /\ j.prefix \in Ranges
  BY <1>2, <1>3 DEF Ranges
<1>5. j.from \in Int /\ j.consumed \in Int /\ j.user \in BOOLEAN
  <2>1. fed' - b.filled + 1 \in Int
    BY ONLY <1>3, fed' \in Int
  <2>2. j.from = fed' - b.filled + 1 /\ j.consumed = 0 /\ j.user = FALSE
    BY <1>2
  <2>3. j.from \in Int
    BY ONLY <2>1, <2>2
  <2>4. j.consumed \in Int
    BY ONLY <2>2
  <2>5. j.user \in BOOLEAN
    BY ONLY <2>2
  <2>6. QED
    BY ONLY <2>3, <2>4, <2>5
<1>6. IsJob(j)
  BY <1>1, <1>4, <1>5 DEF IsJob
<1>7. QED
  BY <1>2, <1>6 DEF j

Numbered(m, js) ==
  /\ m.doneJobID <= m.nextJobID
  /\ Len(js) = m.nextJobID - m.doneJobID + (IF m.jobReady THEN 1 ELSE 0)

(* ZSTDMT_createCompressionJob, whichever way it goes.                     *)
LEMMA Created ==
  ASSUME Shapes, AreJobs(jobs), Numbered(mt, jobs), NEW b \in Sections, NEW p \in Int, NEW op \in Orders,
         CreateIfNeeded(b, p, op), fed' \in Int, Layout(jobs, ring', C, p, b, fed'),
         mt.jobReady => ~b.has, mt.nextJobID = 0 /\ ~mt.jobReady => b.prefix.size = 0
  PROVE  /\ AreJobs(jobs') /\ Layout(jobs', ring', C, pos', inBuff', fed')
         /\ pos' \in Nat /\ inBuff' \in Sections /\ IsMt(mt') /\ Numbered(mt', jobs')
         /\ mt'.jobReady => ~inBuff'.has
         /\ mt'.nextJobID = 0 /\ ~mt'.jobReady => inBuff'.prefix.size = 0
         /\ mt'.allJobsCompleted = mt.allJobsCompleted
         /\ mt'.frameEnded => mt.frameEnded \/ (op = "end" /\ ~mt.jobReady)
<1>a. IsMt(mt) /\ Len(jobs) \in Nat /\ IsSequence(jobs)
  BY DEF Shapes, AreJobs, IsSequence
<1>b. p \in Nat /\ b.filled \in Nat
  BY DEF Layout, SectionOK, Sections
<1>c. ASSUME mt.jobReady PROVE Numbered(Advance(mt), jobs)
  <2>1. Advance(mt).doneJobID = mt.doneJobID /\ Advance(mt).nextJobID = mt.nextJobID + 1 /\ Advance(mt).jobReady = FALSE
    BY <1>a, MtAdvance
  <2>2. mt.doneJobID \in Nat /\ mt.nextJobID \in Nat
    BY <1>a DEF IsMt
  <2>3. mt.doneJobID <= mt.nextJobID /\ Len(jobs) = mt.nextJobID - mt.doneJobID + 1
    BY <1>c DEF Numbered
  <2>4. QED
    BY <1>a, <2>1, <2>2, <2>3 DEF Numbered
<1>1. CASE UNCHANGED <<mt, jobs, queue>> /\ pos' = p /\ inBuff' = b
  BY <1>a, <1>b, <1>1
<1>2. CASE mt.jobReady /\ PostReady /\ pos' = p /\ inBuff' = b /\ UNCHANGED jobs
  <2>1. CASE PoolFull
    BY <1>a, <1>b, <1>2, <2>1 DEF PostReady
  <2>2. CASE ~PoolFull
    <3>1. mt' = Advance(mt)
      BY <1>2, <2>2 DEF PostReady
    <3>2. IsMt(mt') /\ mt'.nextJobID = mt.nextJobID + 1 /\ mt'.jobReady = FALSE /\ mt'.frameEnded = mt.frameEnded
          /\ mt'.allJobsCompleted = mt.allJobsCompleted
      BY <1>a, <3>1, MtAdvance
    <3>3. Numbered(mt', jobs')
      BY <1>2, <1>c, <3>1
    <3>4. mt'.nextJobID # 0
      BY <1>a, <3>2 DEF IsMt
    <3>5. AreJobs(jobs') /\ Layout(jobs', ring', C, pos', inBuff', fed')
      BY <1>2
    <3>6. pos' \in Nat /\ inBuff' \in Sections
      BY <1>b, <1>2
    <3>7. QED
      BY <3>2, <3>3, <3>4, <3>5, <3>6
  <2>3. QED
    BY <2>1, <2>2
<1>3. CASE ~mt.jobReady /\ Prepare(b, p, op)
  <2> DEFINE j == NewJob(b, p, op)
             m == [mt EXCEPT !.frameEnded = @ \/ op = "end"]
  <2>1. /\ jobs' = Append(jobs, j)
        /\ pos' = p + b.filled
        /\ inBuff' = [NoSection EXCEPT !.prefix =
                  IF op = "end" THEN NullRange
                  ELSE [start |-> p + b.filled - PrefixSize(b.filled), size |-> PrefixSize(b.filled)]]
    BY <1>3 DEF Prepare
  <2>2. mt' = Advance(m) \/ mt' = [m EXCEPT !.jobReady = TRUE]
    BY <1>3 DEF Prepare
  <2>3. IsJob(j) /\ ~j.user /\ j.src = [start |-> p, size |-> b.filled] /\ j.prefix = b.prefix
        /\ j.from = fed' - b.filled + 1 /\ j.consumed = 0
    BY NewJobIs
  <2>4. inBuff' \in Sections /\ ~inBuff'.has /\ inBuff'.filled = 0
        /\ inBuff'.prefix \in {NullRange, [start |-> p + b.filled - PrefixSize(b.filled), size |-> PrefixSize(b.filled)]}
    <3>1. PrefixSize(b.filled) \in Int
      BY <1>b, SizesAssumption DEF PrefixSize, Smaller
    <3>2. NullRange \in Ranges /\ [start |-> p + b.filled - PrefixSize(b.filled), size |-> PrefixSize(b.filled)] \in Ranges
      BY <1>b, <3>1 DEF NullRange, Ranges
    <3>3. inBuff' = [NoSection EXCEPT !.prefix = inBuff'.prefix] /\ (inBuff'.prefix = NullRange
             \/ inBuff'.prefix = [start |-> p + b.filled - PrefixSize(b.filled), size |-> PrefixSize(b.filled)])
      BY <2>1 DEF NoSection
    <3>4. inBuff'.prefix \in Ranges
      BY ONLY <3>2, <3>3
    <3>5. inBuff' = [has |-> FALSE, start |-> 0, filled |-> 0, prefix |-> inBuff'.prefix]
      BY ONLY <3>3 DEF NoSection
    <3>6. inBuff' \in Sections /\ ~inBuff'.has /\ inBuff'.filled = 0
      BY ONLY <3>4, <3>5, MakeSection
    <3>7. QED
      BY ONLY <3>3, <3>6
  <2> HIDE DEF j
  <2>5. AreJobs(jobs') /\ Layout(jobs', ring', C, pos', inBuff', fed')
    <3>1. C \in Nat
      BY DEF Shapes, IsRing
    <3>2. AreJobs(Append(jobs, j)) /\ Layout(Append(jobs, j), ring', C, p + b.filled, inBuff', fed')
      BY <2>3, <2>4, <3>1, LayoutPrepare
    <3>3. QED
      BY <2>1, <3>2
  <2>6. Len(jobs') = Len(jobs) + 1
    BY <1>a, <2>1, SequenceAppend
  <2>7. IsMt(m) /\ m.doneJobID = mt.doneJobID /\ m.nextJobID = mt.nextJobID /\ m.jobReady = mt.jobReady
        /\ m.frameEnded = (mt.frameEnded \/ op = "end") /\ m.allJobsCompleted = mt.allJobsCompleted
    BY <1>a DEF IsMt, Has, MtFields
  <2> HIDE DEF m
  <2>8. CASE mt' = Advance(m)
    <3>1. IsMt(mt') /\ mt'.doneJobID = m.doneJobID /\ mt'.nextJobID = m.nextJobID + 1 /\ mt'.jobReady = FALSE
          /\ mt'.frameEnded = m.frameEnded /\ mt'.allJobsCompleted = m.allJobsCompleted
      BY <2>7, <2>8, MtAdvance
    <3>2. Numbered(mt', jobs') /\ mt'.nextJobID # 0
      BY SMTT(30), <1>3, <1>a, <2>6, <2>7, <3>1 DEF Numbered, IsMt
    <3>3. pos' \in Nat
      BY <1>b, <2>1
    <3>4. QED
      BY <1>3, <2>4, <2>5, <2>7, <3>1, <3>2, <3>3
  <2>9. CASE mt' = [m EXCEPT !.jobReady = TRUE]
    <3>1. IsMt(mt') /\ mt'.doneJobID = m.doneJobID /\ mt'.nextJobID = m.nextJobID /\ mt'.jobReady = TRUE
          /\ mt'.frameEnded = m.frameEnded /\ mt'.allJobsCompleted = m.allJobsCompleted
      BY <2>7, <2>9 DEF IsMt, Has, MtFields
    <3>2. Numbered(mt', jobs')
      BY <1>3, <1>a, <2>6, <2>7, <3>1 DEF Numbered, IsMt
    <3>3. pos' \in Nat
      BY <1>b, <2>1
    <3>4. QED
      BY <1>3, <2>4, <2>5, <2>7, <3>1, <3>2, <3>3
  <2>10. QED
    BY <2>2, <2>8, <2>9
<1>4. QED
  BY <1>1, <1>2, <1>3 DEF CreateIfNeeded, Create
-----------------------------------------------------------------------------
(* Steps *)

(* What InputInv has to say of the property's jobs and section. *)
LEMMA IntactFromParts == InputInv => InputIsIntact
<1> SUFFICES ASSUME InputInv, InFrame, main.at \notin {"restart", "reset"}
             PROVE  /\ \A i \in DOMAIN jobs :
                         ~Complete(jobs[i]) /\ ~jobs[i].user =>
                           Holds(jobs[i].src, jobs[i].from)
                           /\ Holds(jobs[i].prefix, jobs[i].from - jobs[i].prefix.size)
                    /\ Holds([start |-> inBuff.start, size |-> inBuff.filled], fed - inBuff.filled + 1)
                    /\ Holds(inBuff.prefix, fed - inBuff.filled - inBuff.prefix.size + 1)
  BY DEF InputIsIntact
<1>1. DOMAIN jobs = 1 .. Len(jobs)
  BY DEF InputInv, Kept, AreJobs, IsSequence
<1>2. main.at \in {"out", "flush", "drain", "post", "collect"}
  BY DEF InputInv, Shapes, IsMain, Places
<1>3. CASE main.at \in {"out", "flush", "drain"}
  <2>1. /\ \A i \in 1 .. Len(jobs) : ~Complete(jobs[i]) => JobIntact(jobs[i], ring)
        /\ SectionIntact(inBuff, ring, fed)
    BY <1>3 DEF InputInv, StreamInv, DrainInv, Streaming, Layout, Placed
  <2>2. Holds([start |-> inBuff.start, size |-> inBuff.filled], fed - inBuff.filled + 1)
    BY <2>1 DEF SectionIntact, HoldsIn, Holds
  <2>3. Holds(inBuff.prefix, fed - inBuff.filled - inBuff.prefix.size + 1)
    BY <2>1 DEF SectionIntact, HoldsIn, Holds
  <2>4. QED
    BY <1>1, <2>1, <2>2, <2>3 DEF JobIntact, HoldsIn, Holds
<1>4. CASE main.at \in {"post", "collect"}
  <2>1. inBuff.filled = 0 /\ inBuff.prefix.size = 0 /\ \A i \in 1 .. Len(jobs) : jobs[i].user
    BY <1>4 DEF InputInv, PostInv, Posting
  <2>2. QED
    BY <1>1, <2>1 DEF Holds
<1>5. QED
  BY <1>2, <1>3, <1>4

(* A worker touches a job only to say how far it has come. *)
LEMMA SetJobKeeps ==
  ASSUME AreJobs(jobs), NEW p, NEW k, jobs' = [jobs EXCEPT ![p] = k], p \in 1 .. Len(jobs) => Keeps(jobs[p], k)
  PROVE  AreJobs(jobs') /\ Len(jobs') = Len(jobs) /\ \A i \in 1 .. Len(jobs) : Keeps(jobs[i], jobs'[i])
<1>1. /\ IsSequence(jobs') /\ Len(jobs') = Len(jobs)
      /\ \A i \in 1 .. Len(jobs) : jobs'[i] = IF i = p THEN k ELSE jobs[i]
  <2>1. IsSequence(jobs) /\ jobs' = [jobs EXCEPT ![p] = k]
    BY DEF AreJobs
  <2>2. /\ jobs' = [i \in DOMAIN jobs |-> jobs'[i]]
        /\ \A i \in DOMAIN jobs : jobs'[i] = IF i = p THEN k ELSE jobs[i]
    BY ONLY <2>1
  <2>3. IsSequence(jobs') /\ Len(jobs') = Len(jobs) /\ DOMAIN jobs = 1 .. Len(jobs)
    BY ONLY <2>1, <2>2, SequenceSet
  <2>4. QED
    BY ONLY <2>2, <2>3
<1>2. \A i \in 1 .. Len(jobs) : Keeps(jobs[i], jobs[i])
  BY DEF Keeps, AreJobs
<1>3. \A i \in 1 .. Len(jobs) : Keeps(jobs[i], jobs'[i])
  BY <1>1, <1>2
<1>4. \A i \in 1 .. Len(jobs) : IsJob(jobs'[i])
  BY <1>3 DEF Keeps
<1>5. QED
  BY <1>1, <1>3, <1>4 DEF AreJobs

LEMMA SameJobsKeep ==
  ASSUME AreJobs(jobs), jobs' = jobs
  PROVE  AreJobs(jobs') /\ Len(jobs') = Len(jobs) /\ \A i \in 1 .. Len(jobs) : Keeps(jobs[i], jobs'[i])
BY DEF Keeps, AreJobs

LEMMA JobSaysMore ==
  ASSUME NEW j, IsJob(j), NEW x, NEW k, \/ k = [j EXCEPT !.error = x]
                                        \/ k = [j EXCEPT !.out = x]
                                        \/ \E y : k = [j EXCEPT !.out = x, !.consumed = y] /\ y = j.consumed + 1
                                        \/ k = [j EXCEPT !.consumed = x] /\ x = j.src.size
                                        \/ \E y, z : k = [j EXCEPT !.out = x, !.dstFlushed = y, !.frameChecksumNeeded = z]
  PROVE  Keeps(j, k)
<1>1. /\ Has(k, JobFields) /\ k.user = j.user /\ k.src = j.src /\ k.prefix = j.prefix /\ k.from = j.from
      /\ k.consumed = j.consumed \/ k.consumed = j.consumed + 1 \/ k.consumed = j.src.size
  BY DEF IsJob, Has, JobFields
<1>2. j.consumed \in Int /\ j.src.size \in Int /\ j.user \in BOOLEAN /\ j.src \in Ranges /\ j.prefix \in Ranges /\ j.from \in Int
  BY DEF IsJob, Ranges
<1>3. \A a, b, c \in Int : c = a \/ c = a + 1 \/ c = b => (a >= b => c >= b) /\ (0 <= a /\ 0 <= b => 0 <= c)
  BY ONLY <1>2
<1>4. k.consumed \in Int
  <2>1. j.consumed + 1 \in Int
    BY ONLY <1>2
  <2>2. QED
    BY ONLY <1>1, <1>2, <2>1
<1>5. (j.consumed >= j.src.size => k.consumed >= j.src.size) /\ (0 <= j.consumed /\ 0 <= j.src.size => 0 <= k.consumed)
  BY ONLY <1>1, <1>2, <1>3, <1>4
<1>6. IsJob(k)
  BY ONLY <1>1, <1>2, <1>4 DEF IsJob
<1>7. Complete(j) => Complete(k)
  BY ONLY <1>1, <1>5 DEF Complete
<1>8. QED
  BY ONLY <1>1, <1>5, <1>6, <1>7 DEF Keeps

LEMMA FlushedJob ==
  ASSUME NEW j, IsJob(j), NEW x, NEW y, NEW z
  PROVE  Keeps(j, [j EXCEPT !.out = x, !.dstFlushed = y, !.frameChecksumNeeded = z])
<1> DEFINE k == [j EXCEPT !.out = x, !.dstFlushed = y, !.frameChecksumNeeded = z]
<1>1. Has(k, JobFields) /\ k.user = j.user /\ k.src = j.src /\ k.prefix = j.prefix /\ k.from = j.from /\ k.consumed = j.consumed
  BY DEF IsJob, Has, JobFields
<1> HIDE DEF k
<1>2. IsJob(k)
  BY <1>1 DEF IsJob
<1>3. QED
  BY <1>1, <1>2 DEF Keeps, Complete, IsJob, k

(* Every step of a worker is of that kind.                                 *)
LEMMA WorkersKeepJobs ==
  ASSUME AreJobs(jobs), NEW w \in Workers, Step(w) \/ Fails(w)
  PROVE  AreJobs(jobs') /\ Len(jobs') = Len(jobs) /\ \A i \in 1 .. Len(jobs) : Keeps(jobs[i], jobs'[i])
<1>1. \A i \in 1 .. Len(jobs) : IsJob(jobs[i])
  BY DEF AreJobs
<1>2. CASE Take(w) \/ SerialUpdate(w) \/ GiveUpTurn(w) \/ Leave(w)
  <2>1. jobs' = jobs
    BY <1>2 DEF Take, SerialUpdate, GiveUpTurn, Leave
  <2>2. QED
    BY <2>1, SameJobsKeep
<1>3. CASE CompressChunk(w)
  BY Zenon, <1>1, <1>3, SetJobKeeps, JobSaysMore DEF CompressChunk, SetJob, Job
<1>4. CASE CompressLast(w)
  BY Zenon, <1>1, <1>4, SetJobKeeps, JobSaysMore DEF CompressLast, SetJob, Job
<1>5. CASE Report(w)
  BY Zenon, <1>1, <1>5, SetJobKeeps, JobSaysMore DEF Report, SetJob, Job
<1>6. CASE Fails(w)
  BY Zenon, <1>1, <1>6, SetJobKeeps, JobSaysMore DEF Fails, SetJob, Job
<1>7. QED
  BY <1>2, <1>3, <1>4, <1>5, <1>6 DEF Step

LEMMA JobIntactKept ==
  ASSUME NEW j, NEW k, Keeps(j, k), NEW rg, ~Complete(k), ~Complete(j) => JobIntact(j, rg)
  PROVE  JobIntact(k, rg)
BY DEF Keeps, JobIntact

(* Whatever only touches jobs that way leaves all of it as it is. *)
LEMMA InvKeptByWorkers ==
  ASSUME InputInv, UNCHANGED <<mt, ring, pos, inBuff, main, fed>>,
         AreJobs(jobs) => AreJobs(jobs') /\ Len(jobs') = Len(jobs) /\ \A i \in 1 .. Len(jobs) : Keeps(jobs[i], jobs'[i]),
         jobs = <<>> => jobs' = <<>>
  PROVE  InputInv'
<1>1. Shapes' /\ (InFrame <=> InFrame') /\ (Live <=> Live') /\ C' = C
  BY DEF InputInv, Shapes, InFrame, Live, C
<1>2. Kept'
  BY <1>1 DEF InputInv, Kept
<1>3. CASE main.at = "restart"
  BY <1>1, <1>2, <1>3 DEF InputInv, StreamInv, PostInv, DrainInv, Streaming, Posting
<1>4. CASE main.at # "restart"
  <2>1. AreJobs(jobs)
    BY <1>4 DEF InputInv, Kept
  <2>2. AreJobs(jobs') /\ Len(jobs') = Len(jobs) /\ \A i \in 1 .. Len(jobs) : Keeps(jobs[i], jobs'[i])
    BY <2>1
  <2>3. StreamInv'
    <3> SUFFICES ASSUME Streaming PROVE Count' /\ Layout(jobs', ring, C, pos, inBuff, fed)
      BY <1>1 DEF StreamInv, Streaming
    <3>1. Count /\ Layout(jobs, ring, C, pos, inBuff, fed)
      BY DEF InputInv, StreamInv
    <3>2. Layout(jobs', ring, C, pos, inBuff, fed)
      BY <2>1, <2>2, <3>1, LayoutKeeps
    <3>3. Count'
      BY <2>2, <3>1 DEF Count
    <3>4. QED
      BY <3>2, <3>3
  <2>4. PostInv'
    BY <1>1, <2>2 DEF InputInv, PostInv, Posting, Keeps
  <2>5. DrainInv'
    <3> SUFFICES ASSUME main.at = "drain" PROVE DrainInv'
      BY DEF DrainInv
    <3>1. \A i \in 1 .. Len(jobs) : ~Complete(jobs[i]) => JobIntact(jobs[i], ring)
      BY DEF InputInv, DrainInv
    <3>2. \A i \in 1 .. Len(jobs) : ~Complete(jobs'[i]) => JobIntact(jobs'[i], ring)
      BY <2>2, <3>1, JobIntactKept
    <3>3. QED
      BY <2>2, <3>2 DEF InputInv, DrainInv
  <2>6. QED
    BY <1>1, <1>2, <2>3, <2>4, <2>5 DEF InputInv
<1>5. QED
  BY <1>3, <1>4
(* The caller does not begin a frame over a prepared job that the pool has *)
(* not taken: jobReady would survive, and the job be posted later with     *)
(* what has become of its description.                                     *)
NoReadyRestart == \A i \in Instances : "restartReady" \notin i.habits

LEMMA InvHoldsAtFirst == Init => InputInv
<1> SUFFICES ASSUME Init PROVE InputInv
  OBVIOUS
<1>1. PICK b \in Instances, n \in 1 .. Cardinality(Workers) :
        /\ main = Out(b)
        /\ mt = [doneJobID |-> 0, nextJobID |-> 0, jobReady |-> FALSE, frameEnded |-> FALSE,
                 allJobsCompleted |-> TRUE, nbWorkers |-> n, nbJobs |-> TableSize(n)]
  BY DEF Init
<1>2. jobs = <<>> /\ ring = <<>> /\ pos = 0 /\ inBuff = NoSection /\ fed = 0
  BY DEF Init
<1>3. IsMt(mt)
  <2>1. Has(mt, MtFields)
    BY <1>1 DEF Has, MtFields
  <2>2. mt.nbWorkers \in Nat \ {0}
    BY <1>1
  <2>3. QED
    BY <1>1, <2>1, <2>2 DEF IsMt
<1>4. IsMain(main)
  BY <1>1 DEF IsMain, Has, MainFields, Out, Places, Orders
<1>5. C = 0 /\ IsRing(ring, C)
  <2>1. DOMAIN ring = {}
    BY <1>2
  <2>2. C = 0
    BY <2>1, FS_EmptySet DEF C
  <2>3. QED
    BY <1>2, <2>1, <2>2 DEF IsRing
<1>6. inBuff \in Sections
  <2>1. NullRange \in Ranges
    BY DEF NullRange, Ranges
  <2>2. QED
    BY <1>2, <2>1, MakeSection DEF NoSection
<1>7. main.at = "out" /\ main.said = "done"
  BY <1>1 DEF Out
<1>8. AreJobs(jobs)
  BY <1>2, EmptySequence DEF AreJobs
<1>9. QED
  BY <1>1, <1>2, <1>3, <1>4, <1>5, <1>6, <1>7, <1>8
     DEF InputInv, Shapes, Kept, StreamInv, PostInv, DrainInv, Streaming, Posting, InFrame, Live

LEMMA InitCStreamKeeps ==
  ASSUME InputInv, NoReadyRestart, NEW n \in bound.workers, InitCStream(n)
  PROVE  InputInv'
<1>1. n \in Nat \ {0} /\ ~mt.jobReady
  <2>1. bound \in Instances
    BY DEF InputInv, Shapes, IsMain, bound
  <2>2. bound.workers \subseteq 1 .. Cardinality(Workers)
    BY <2>1, InstancesAssumption
  <2>3. ~mt.jobReady
    BY <2>1 DEF InitCStream, NoReadyRestart
  <2>4. QED
    BY <2>2, <2>3
<1>2. /\ IsMt(mt') /\ mt'.jobReady = mt.jobReady /\ mt'.allJobsCompleted = mt.allJobsCompleted
  <2> DEFINE e == expandJobsTable(mt, n)
  <2>1. IsMt(mt)
    BY DEF InputInv, Shapes
  <2>2. IsMt(e) /\ e.jobReady = mt.jobReady /\ e.allJobsCompleted = mt.allJobsCompleted
    BY <2>1 DEF expandJobsTable, IsMt, Has, MtFields
  <2>3. mt' = mt \/ mt' = [e EXCEPT !.nbWorkers = n]
    BY DEF InitCStream
  <2> HIDE DEF e
  <2>4. QED
    BY <1>1, <2>1, <2>2, <2>3 DEF IsMt, Has, MtFields
<1>3. /\ IsMain(main') /\ main'.said = main.said
      /\ main'.at = IF mt.allJobsCompleted THEN "reset" ELSE "restart"
  BY DEF InitCStream, InputInv, Shapes, IsMain, Has, MainFields, Places
<1>4. UNCHANGED <<ring, pos, inBuff, fed>> /\ C' = C
  BY DEF InitCStream, buffers, C
<1>5. mt.allJobsCompleted \in BOOLEAN
  BY DEF InputInv, Shapes, IsMt
<1>6. mt.allJobsCompleted => jobs' = <<>>
  BY DEF InitCStream, InputInv, Kept
<1>7. Shapes'
  BY <1>2, <1>3, <1>4 DEF InputInv, Shapes
<1>8. ~Live' /\ ~Streaming' /\ ~Posting' /\ main'.at \notin {"out", "drain", "flush", "post", "collect"}
  BY <1>3 DEF Live, Streaming, Posting
<1>9. Kept'
  <2>1. AreJobs(<<>>)
    BY EmptySequence DEF AreJobs
  <2>2. QED
    BY <1>1, <1>2, <1>3, <1>5, <1>6, <1>8, <2>1 DEF Kept
<1>10. QED
  BY <1>7, <1>8, <1>9 DEF InputInv, StreamInv, PostInv, DrainInv

LEMMA ResetKeeps ==
  ASSUME InputInv, Reset
  PROVE  InputInv'
<1> DEFINE n == Capacity(mt.nbWorkers)
<1>1. IsMt(mt) /\ IsMain(main) /\ IsRing(ring, C) /\ main.at = "reset" /\ jobs = <<>> /\ mt.jobReady = FALSE
  BY DEF Reset, InputInv, Shapes, Kept, IsMt
<1>2. IsMt(mt') /\ mt'.doneJobID = 0 /\ mt'.nextJobID = 0 /\ mt'.jobReady = FALSE /\ mt'.frameEnded = FALSE
      /\ mt'.allJobsCompleted = FALSE
  BY <1>1 DEF Reset, IsMt, Has, MtFields
<1>3. IsMain(main') /\ main'.at = "out" /\ main'.said = "flushed"
  BY <1>1 DEF Reset, IsMain, Has, MainFields, Out, Places, Orders, bound
<1>4. pos' = 0 /\ fed' = 0 /\ inBuff' = NoSection /\ jobs' = <<>>
  BY <1>1 DEF Reset
<1>5. n \in Nat /\ 2 * targetSectionSize <= n /\ targetSectionSize \in Nat /\ targetPrefixSize \in Nat
  <2>1. targetSectionSize \in Nat /\ targetPrefixSize \in Nat /\ mt.nbWorkers \in Nat /\ mt.nbWorkers >= 1
    BY <1>1, SizesAssumption DEF IsMt
  <2>2. \A t \in Nat, w \in Nat : t * (w + 3) \in Nat /\ t * (w + 3) = t * w + 3 * t /\ t * w \in Nat
    BY SMT
  <2>3. QED
    BY <2>1, <2>2 DEF Capacity
<1> HIDE DEF n
<1>6. IsRing(ring', C') /\ 2 * targetSectionSize <= C'
  <2>1. CASE C < n
    <3>1. ring' = [i \in 0 .. n - 1 |-> 0]
      BY <2>1 DEF Reset, C, n
    <3>2. Cardinality(0 .. n - 1) = n
      <4>1. Cardinality(0 .. n - 1) = IF 0 > n - 1 THEN 0 ELSE n - 1 - 0 + 1
        BY <1>5, FS_Interval
      <4>2. QED
        BY <1>5, <4>1
    <3>3. C' = n
      BY <3>1, <3>2 DEF C
    <3>4. QED
      BY <1>5, <3>1, <3>3 DEF IsRing
  <2>2. CASE ~(C < n)
    <3>1. ring' = ring /\ C' = C
      BY <2>2 DEF Reset, C, n
    <3>2. C \in Nat
      BY <1>1 DEF IsRing
    <3>3. 2 * targetSectionSize <= C
      BY <1>5, <2>2, <3>2
    <3>4. QED
      BY <1>1, <3>1, <3>3
  <2>3. QED
    BY <2>1, <2>2
<1>7. inBuff' \in Sections /\ inBuff'.filled = 0 /\ ~inBuff'.has /\ inBuff'.prefix = NullRange
      /\ inBuff'.prefix.size = 0 /\ inBuff'.prefix.start = 0 /\ inBuff'.start = 0
  BY <1>4 DEF NoSection, Sections, NullRange, Ranges
<1>8. Shapes'
  BY <1>2, <1>3, <1>4, <1>6, <1>7 DEF Shapes
<1>9. AreJobs(jobs') /\ Len(jobs') = 0
  BY <1>4, EmptySequence DEF AreJobs
<1>10. Layout(jobs', ring', C', pos', inBuff', fed')
  <2>1. C' \in Nat
    BY <1>6 DEF IsRing
  <2>2. SectionOK(inBuff', pos', C')
    BY <1>4, <1>5, <1>7, <2>1 DEF SectionOK, RangeOK
  <2>3. SectionIntact(inBuff', ring', fed')
    BY <1>7 DEF SectionIntact, HoldsIn
  <2>4. QED
    BY <1>6, <1>9, <2>2, <2>3 DEF Layout
<1>11. Count'
  BY <1>2, <1>7, <1>9 DEF Count
<1>12. Kept'
  BY <1>2, <1>3, <1>4, <1>9 DEF Kept
<1>13. QED
  BY <1>3, <1>8, <1>10, <1>11, <1>12 DEF InputInv, StreamInv, PostInv, DrainInv, Posting
LEMMA PostedIs ==
  ASSUME AreJobs(jobs), IsMt(mt), Count, ~mt.jobReady
  PROVE  Posted = jobs
<1>0. IsSequence(jobs) /\ Len(jobs) \in Nat
  BY DEF AreJobs, IsSequence
<1>1. mt.nextJobID - mt.doneJobID = Len(jobs)
  <2>1. mt.nextJobID \in Nat /\ mt.doneJobID \in Nat
    BY DEF IsMt
  <2>2. Len(jobs) = mt.nextJobID - mt.doneJobID + 0
    BY DEF Count
  <2>3. QED
    BY <1>0, <2>1, <2>2
<1>2. QED
  BY <1>0, <1>1, SequencePrefix DEF Posted

LEMMA StreamingHas ==
  ASSUME InputInv, Streaming
  PROVE  /\ Shapes /\ AreJobs(jobs) /\ Count /\ Layout(jobs, ring, C, pos, inBuff, fed) /\ Numbered(mt, jobs)
         /\ IsMt(mt) /\ IsMain(main) /\ ~mt.allJobsCompleted
<1>1. Shapes /\ AreJobs(jobs) /\ ~mt.allJobsCompleted /\ IsMt(mt) /\ IsMain(main)
  BY DEF InputInv, Kept, Streaming, Live, Shapes
<1>2. Count /\ Layout(jobs, ring, C, pos, inBuff, fed)
  BY DEF InputInv, StreamInv
<1>3. QED
  BY <1>1, <1>2 DEF Count, Numbered

(* A call in the middle of a frame: what it did to the buffers, the job it *)
(* made, and the orders it leaves for flushing.                            *)
CallOf(op, room, b, p, goes, left, progress) ==
  /\ CreateIfNeeded(b, p, goes) /\ ToFlush(op, goes, room, progress, left)
  /\ fed' \in Nat /\ fed <= fed' /\ fed' - b.filled = fed - inBuff.filled
  /\ IsRing(ring', C) /\ DOMAIN ring' = DOMAIN ring /\ Layout(jobs, ring', C, p, b, fed')
  /\ mt.jobReady => ~b.has
  /\ b.prefix.size = inBuff.prefix.size
  /\ mt.frameEnded => op = "end" /\ left = 0 /\ goes = "end" /\ fed' = fed
  /\ goes = "end" /\ ~mt.jobReady => op = "end" /\ left = 0 /\ (fed' > 0 \/ "emptyFrame" \in bound.habits)

LEMMA CallKeeps ==
  ASSUME InputInv, Streaming, NEW b \in Sections, NEW p \in Int, NEW op \in Orders, NEW goes \in Orders, NEW left \in Nat,
         NEW room, NEW progress, CallOf(op, room, b, p, goes, left, progress)
  PROVE  InputInv'
<1>0. /\ CreateIfNeeded(b, p, goes) /\ ToFlush(op, goes, room, progress, left)
      /\ fed' \in Nat /\ IsRing(ring', C) /\ DOMAIN ring' = DOMAIN ring /\ Layout(jobs, ring', C, p, b, fed')
      /\ mt.jobReady => ~b.has
      /\ b.prefix.size = inBuff.prefix.size
      /\ mt.frameEnded => op = "end" /\ left = 0 /\ goes = "end"
      /\ goes = "end" /\ ~mt.jobReady => op = "end" /\ left = 0
  BY DEF CallOf
<1>1. /\ Shapes /\ AreJobs(jobs) /\ Count /\ Layout(jobs, ring, C, pos, inBuff, fed) /\ Numbered(mt, jobs)
      /\ IsMt(mt) /\ IsMain(main) /\ ~mt.allJobsCompleted
  BY StreamingHas
<1>2. mt.nextJobID = 0 /\ ~mt.jobReady => b.prefix.size = 0
  BY <1>0, <1>1 DEF Count
<1>3. /\ AreJobs(jobs') /\ Layout(jobs', ring', C, pos', inBuff', fed')
      /\ pos' \in Nat /\ inBuff' \in Sections /\ IsMt(mt') /\ Numbered(mt', jobs')
      /\ mt'.jobReady => ~inBuff'.has
      /\ mt'.nextJobID = 0 /\ ~mt'.jobReady => inBuff'.prefix.size = 0
      /\ mt'.allJobsCompleted = mt.allJobsCompleted
      /\ mt'.frameEnded => mt.frameEnded \/ (goes = "end" /\ ~mt.jobReady)
  BY <1>0, <1>1, <1>2, Created
<1>4. /\ IsMain(main') /\ main'.at = "flush" /\ main'.order = op /\ main'.op = goes /\ main'.left = left
      /\ main'.said = main.said
  BY <1>0, <1>1 DEF ToFlush, IsMain, Has, MainFields, Places
<1>5. C' = C
  BY <1>0 DEF C
<1>6. Shapes'
  BY <1>0, <1>3, <1>4, <1>5 DEF Shapes
<1>7. Count'
  <2>1. mt'.frameEnded => main'.order = "end" /\ main'.left = 0 /\ main'.op = "end"
    BY <1>0, <1>3, <1>4
  <2>2. QED
    BY <1>3, <2>1 DEF Count, Numbered
<1>8. Kept'
  BY <1>1, <1>3, <1>4 DEF Kept, Streaming, InFrame
<1>9. QED
  BY <1>3, <1>4, <1>5, <1>6, <1>7, <1>8 DEF InputInv, StreamInv, PostInv, DrainInv, Posting

LEMMA CompressStreamIs ==
  ASSUME InputInv, NEW op \in bound.orders, NEW n \in bound.offers \cup {main.left}, NEW room, CompressStream(op, n, room)
  PROVE  /\ Streaming /\ op \in Orders
         /\ \E b \in Sections, p \in Int, goes \in Orders, left \in Nat, progress \in BOOLEAN :
              CallOf(op, room, b, p, goes, left, progress)
<1>1. Streaming /\ MayOrder(op, n)
  BY DEF CompressStream, Streaming
<1>2. /\ Shapes /\ AreJobs(jobs) /\ Count /\ Layout(jobs, ring, C, pos, inBuff, fed) /\ Numbered(mt, jobs)
      /\ IsMt(mt) /\ IsMain(main) /\ ~mt.allJobsCompleted
  BY <1>1, StreamingHas
<1>3. n \in Nat /\ op \in Orders
  <2>1. bound \in Instances /\ main.left \in Nat
    BY <1>2 DEF IsMain, bound
  <2>2. bound.offers \subseteq Nat /\ bound.orders \subseteq Orders
    BY <2>1, InstancesAssumption
  <2>3. QED
    BY <2>1, <2>2
<1> DEFINE Goes(fills, load) == IF fills /\ load < n /\ op = "end" THEN "flush" ELSE op
<1>a. PICK fills \in {~mt.jobReady /\ n > 0} :
        \E r \in {IF fills /\ ~inBuff.has THEN Wrapped ELSE Unwrapped(FALSE)} :
        \E b \in {Section(r)} :
        \E load \in {IF fills /\ b.has THEN Smaller(n, targetSectionSize - b.filled) ELSE 0} :
          /\ ring' = [i \in DOMAIN ring |-> IF i \in b.start + b.filled .. b.start + b.filled + load - 1
                                            THEN fed + 1 + i - (b.start + b.filled) ELSE r.ring[i]]
          /\ fed' = fed + load
          /\ CreateIfNeeded([b EXCEPT !.filled = @ + load], r.pos, Goes(fills, load))
          /\ ToFlush(op, Goes(fills, load), room, load > 0, n - load)
  BY DEF CompressStream
<1>b. PICK r \in {IF fills /\ ~inBuff.has THEN Wrapped ELSE Unwrapped(FALSE)} :
        \E b \in {Section(r)} :
        \E load \in {IF fills /\ b.has THEN Smaller(n, targetSectionSize - b.filled) ELSE 0} :
          /\ ring' = [i \in DOMAIN ring |-> IF i \in b.start + b.filled .. b.start + b.filled + load - 1
                                            THEN fed + 1 + i - (b.start + b.filled) ELSE r.ring[i]]
          /\ fed' = fed + load
          /\ CreateIfNeeded([b EXCEPT !.filled = @ + load], r.pos, Goes(fills, load))
          /\ ToFlush(op, Goes(fills, load), room, load > 0, n - load)
  BY ONLY <1>a
<1>c. PICK b \in {Section(r)} :
        \E load \in {IF fills /\ b.has THEN Smaller(n, targetSectionSize - b.filled) ELSE 0} :
          /\ ring' = [i \in DOMAIN ring |-> IF i \in b.start + b.filled .. b.start + b.filled + load - 1
                                            THEN fed + 1 + i - (b.start + b.filled) ELSE r.ring[i]]
          /\ fed' = fed + load
          /\ CreateIfNeeded([b EXCEPT !.filled = @ + load], r.pos, Goes(fills, load))
          /\ ToFlush(op, Goes(fills, load), room, load > 0, n - load)
  BY ONLY <1>b
<1>4. PICK load \in {IF fills /\ b.has THEN Smaller(n, targetSectionSize - b.filled) ELSE 0} :
          /\ ring' = [i \in DOMAIN ring |-> IF i \in b.start + b.filled .. b.start + b.filled + load - 1
                                            THEN fed + 1 + i - (b.start + b.filled) ELSE r.ring[i]]
          /\ fed' = fed + load
          /\ CreateIfNeeded([b EXCEPT !.filled = @ + load], r.pos, Goes(fills, load))
          /\ ToFlush(op, Goes(fills, load), room, load > 0, n - load)
  BY ONLY <1>c
<1> DEFINE goes == Goes(fills, load)
           b2 == [b EXCEPT !.filled = @ + load]
<1>12. fills <=> ~mt.jobReady /\ n > 0
  BY ONLY fills \in {~mt.jobReady /\ n > 0}
<1>5. fills \in BOOLEAN /\ (fills => Posted = jobs)
  <2>1. fills \in BOOLEAN
    BY ONLY fills \in {~mt.jobReady /\ n > 0}
  <2>2. QED
    BY ONLY <1>2, <1>12, <2>1, PostedIs
<1>6. r = IF fills /\ ~inBuff.has THEN Wrapped ELSE Unwrapped(FALSE)
  BY ONLY r \in {IF fills /\ ~inBuff.has THEN Wrapped ELSE Unwrapped(FALSE)}
<1>7. b = Section(r)
  BY ONLY b \in {Section(r)}
<1>8. load = IF fills /\ b.has THEN Smaller(n, targetSectionSize - b.filled) ELSE 0
  BY ONLY load \in {IF fills /\ b.has THEN Smaller(n, targetSectionSize - b.filled) ELSE 0}
<1>9. /\ load \in Nat /\ load <= n /\ r.pos \in Int /\ b2.filled = inBuff.filled + load
      /\ IsRing(ring', C) /\ DOMAIN ring' = DOMAIN ring
      /\ b2 \in Sections /\ b2.prefix.size = inBuff.prefix.size
      /\ Layout(jobs, ring', C, r.pos, b2, fed + load)
      /\ ~fills => load = 0 /\ r.pos = pos /\ b2 = inBuff
  <2>0. ring' = FilledRing(r.ring, b, load)
    BY ONLY <1>4 DEF FilledRing
  <2>1. /\ r.pos \in Int /\ IsRing(r.ring, C)
        /\ b \in Sections /\ b.prefix.size = inBuff.prefix.size
        /\ Layout(jobs, r.ring, C, r.pos, b, fed)
        /\ ~fills => r.pos = pos /\ r.ring = ring /\ b = inBuff
        /\ b.filled = inBuff.filled
    BY ONLY <1>2, <1>5, <1>6, <1>7, SectionLayout
  <2>2. C \in Nat /\ fed \in Int /\ DOMAIN ring = 0 .. C - 1
    BY <1>2 DEF Shapes, IsRing
  <2>3. b.filled >= 0 /\ b.filled <= targetSectionSize
    BY ONLY <2>1 DEF Layout, SectionOK
  <2>4. /\ load \in Nat /\ load <= n /\ b.filled + load <= targetSectionSize
        /\ load > 0 => b.has
        /\ ~fills => load = 0
    <3>1. load = IF fills /\ b.has THEN Smaller(n, targetSectionSize - b.filled) ELSE 0
      BY ONLY <1>8
    <3>2. QED
      BY ONLY <2>1, <2>3, <3>1, LoadIs, <1>3, <1>5
  <2>5. ring' = [i \in 0 .. C - 1 |-> IF i \in b.start + b.filled .. b.start + b.filled + load - 1
                                      THEN fed + 1 + i - (b.start + b.filled) ELSE r.ring[i]]
    BY ONLY <2>2, <2>0 DEF FilledRing
  <2>a. IsRing(ring', C)
    BY ONLY <2>2, <2>5 DEF IsRing
  <2>b. \A i \in 0 .. C - 1 : ring'[i] = IF i \in b.start + b.filled .. b.start + b.filled + load - 1
                                         THEN fed + 1 + i - (b.start + b.filled) ELSE r.ring[i]
    BY ONLY <2>5
  <2>6. /\ b2 \in Sections /\ b2.prefix = b.prefix
        /\ Layout(jobs, ring', C, r.pos, b2, fed + load)
        /\ load = 0 => b2 = b
    BY ONLY <2>1, <2>2, <2>4, <2>a, <2>b, LoadLayout, <1>2
  <2>7. DOMAIN ring' = DOMAIN ring
    BY ONLY <2>2, <2>5
  <2>10. b2.filled = b.filled + load
    BY ONLY <2>1 DEF Sections
  <2> HIDE DEF b2
  <2>8. b2.prefix.size = inBuff.prefix.size /\ (~fills => load = 0 /\ r.pos = pos /\ b2 = inBuff)
    BY ONLY <2>1, <2>4, <2>6
  <2>9. QED
    BY ONLY <2>1, <2>4, <2>6, <2>7, <2>8, <2>10, <2>a DEF b2
<1> HIDE DEF b2
<1>10. goes \in Orders /\ n - load \in Nat /\ fed' \in Nat
  <2>1. fed \in Nat
    BY <1>2 DEF Shapes
  <2>2. n - load \in Nat /\ fed + load \in Nat
    BY ONLY <1>3, <1>9, <2>1
  <2>3. goes \in Orders
    BY <1>3 DEF Orders
  <2>4. QED
    BY <1>4, <2>2, <2>3
<1>11. mt.jobReady => ~b2.has
  <2>1. mt.jobReady => ~fills /\ ~inBuff.has
    BY <1>2, <1>12 DEF Count
  <2>2. QED
    BY <1>9, <2>1
<1>13. mt.frameEnded => op = "end" /\ n - load = 0 /\ goes = "end" /\ load = 0
  <2> SUFFICES ASSUME mt.frameEnded PROVE op = "end" /\ n - load = 0 /\ goes = "end" /\ load = 0
    OBVIOUS
  <2>1. op = "end" /\ n = 0
    BY <1>1, <1>2 DEF Count, MayOrder
  <2>2. ~fills /\ load = 0
    BY <1>9, <1>12, <2>1
  <2>3. QED
    BY <2>1, <2>2
<1>14. goes = "end" /\ ~mt.jobReady => op = "end" /\ n - load = 0 /\ load = n
  <2> SUFFICES ASSUME goes = "end", ~mt.jobReady PROVE op = "end" /\ n - load = 0 /\ load = n
    OBVIOUS
  <2>1. op = "end" /\ ~(fills /\ load < n)
    OBVIOUS
  <2>2. CASE n > 0
    <3>1. ~(load < n)
      BY <1>12, <2>1, <2>2
    <3>2. QED
      BY <1>3, <1>9, <2>1, <3>1
  <2>3. CASE ~(n > 0)
    BY <1>3, <1>9, <2>1, <2>3
  <2>4. QED
    BY <2>2, <2>3
<1> HIDE DEF goes
<1>15. Layout(jobs, ring', C, r.pos, b2, fed')
  BY <1>4, <1>9
<1>16. CreateIfNeeded(b2, r.pos, goes) /\ ToFlush(op, goes, room, load > 0, n - load)
  BY ONLY <1>4 DEF b2, goes
<1>17. fed \in Nat /\ inBuff.filled \in Int
  BY <1>2 DEF Shapes, Sections
<1>18. fed <= fed' /\ fed' - b2.filled = fed - inBuff.filled /\ (mt.frameEnded => fed' = fed)
  <2>1. fed' = fed + load
    BY ONLY <1>4
  <2>2. QED
    BY ONLY <2>1, <1>9, <1>13, <1>17
<1>19. goes = "end" /\ ~mt.jobReady => fed' > 0 \/ "emptyFrame" \in bound.habits
  <2> SUFFICES ASSUME goes = "end", ~mt.jobReady, "emptyFrame" \notin bound.habits PROVE fed' > 0
    OBVIOUS
  <2>1. op = "end" /\ load = n
    BY <1>14
  <2>2. fed + n # 0
    BY <2>1 DEF CompressStream
  <2>3. fed' = fed + load
    BY ONLY <1>4
  <2>4. QED
    BY ONLY <1>3, <1>17, <2>1, <2>2, <2>3
<1>20. CallOf(op, room, b2, r.pos, goes, n - load, load > 0)
  BY ONLY <1>9, <1>10, <1>11, <1>13, <1>14, <1>15, <1>16, <1>18, <1>19 DEF CallOf
<1>21. (load > 0) \in BOOLEAN
  OBVIOUS
<1>22. QED
  BY ONLY <1>1, <1>3, <1>9, <1>10, <1>20, <1>21

LEMMA CompressStreamKeeps ==
  ASSUME InputInv, NEW op \in bound.orders, NEW n \in bound.offers \cup {main.left}, NEW room, CompressStream(op, n, room)
  PROVE  InputInv'
BY CompressStreamIs, CallKeeps

LEMMA FlushStreamIs ==
  ASSUME InputInv, NEW op \in bound.orders, NEW room, FlushStream(op, room)
  PROVE  /\ Streaming /\ op \in Orders
         /\ \E b \in Sections, p \in Int, goes \in Orders, left \in Nat, progress \in BOOLEAN :
              CallOf(op, room, b, p, goes, left, progress)
<1>1. Streaming /\ MayOrder(op, 0)
  BY DEF FlushStream, Streaming
<1>2. /\ Shapes /\ AreJobs(jobs) /\ Count /\ Layout(jobs, ring, C, pos, inBuff, fed) /\ Numbered(mt, jobs)
      /\ IsMt(mt) /\ IsMain(main) /\ ~mt.allJobsCompleted
  BY <1>1, StreamingHas
<1>3. op \in Orders
  <2>1. bound \in Instances
    BY <1>2 DEF IsMain, bound
  <2>2. QED
    BY <2>1, InstancesAssumption
<1>4. fed' = fed /\ CreateIfNeeded(inBuff, pos, op) /\ ToFlush(op, op, room, FALSE, 0) /\ ring' = ring
  BY DEF FlushStream
<1>5. inBuff \in Sections /\ pos \in Int /\ fed \in Nat /\ IsRing(ring, C) /\ inBuff.filled \in Int
  BY <1>2 DEF Shapes, Sections
<1>6. mt.jobReady => ~inBuff.has
  BY <1>2 DEF Count
<1>7. mt.frameEnded => op = "end"
  BY <1>1, <1>2 DEF Count, MayOrder
<1>8. fed' \in Nat /\ IsRing(ring', C) /\ DOMAIN ring' = DOMAIN ring /\ Layout(jobs, ring', C, pos, inBuff, fed')
  BY <1>2, <1>4, <1>5
<1>9. 0 \in Nat /\ FALSE \in BOOLEAN
  OBVIOUS
<1>10. op = "end" => fed' > 0 \/ "emptyFrame" \in bound.habits
  BY <1>4, <1>5 DEF FlushStream
<1>11. fed <= fed' /\ fed' - inBuff.filled = fed - inBuff.filled
  BY <1>4, <1>5
<1>12. CallOf(op, room, inBuff, pos, op, 0, FALSE)
  BY ONLY <1>4, <1>6, <1>7, <1>8, <1>10, <1>11 DEF CallOf
<1>13. QED
  BY ONLY <1>1, <1>3, <1>5, <1>9, <1>12

LEMMA FlushStreamKeeps ==
  ASSUME InputInv, NEW op \in bound.orders, NEW room, FlushStream(op, room)
  PROVE  InputInv'
BY FlushStreamIs, CallKeeps

LEMMA WaitForJobKeeps ==
  ASSUME InputInv, WaitForJob
  PROVE  InputInv'
<1>1. /\ main.at \in {"drain", "restart"} /\ mt.doneJobID < mt.nextJobID
      /\ UNCHANGED <<ring, pos, inBuff, main, fed>>
  BY DEF WaitForJob, Draining, FirstPosted, buffers
<1>2. CASE mt' = mt /\ jobs' = jobs
  BY <1>1, <1>2, InvKeptByWorkers, SameJobsKeep
<1>3. CASE mt' = [mt EXCEPT !.doneJobID = @ + 1] /\ jobs' = Tail(jobs)
  <2>1. IsMt(mt)
    BY DEF InputInv, Shapes
  <2>2. /\ IsMt(mt') /\ mt'.doneJobID = mt.doneJobID + 1 /\ mt'.nextJobID = mt.nextJobID
        /\ mt'.jobReady = mt.jobReady /\ mt'.allJobsCompleted = mt.allJobsCompleted
    BY <1>3, <2>1 DEF IsMt, Has, MtFields
  <2>3. Shapes'
    BY <1>1, <2>2 DEF InputInv, Shapes, C
  <2>4. ~mt.allJobsCompleted
    BY <1>1 DEF InputInv, Kept, Live
  <2>5. CASE main.at = "restart"
    BY <1>1, <2>2, <2>3, <2>4, <2>5
       DEF InputInv, Kept, StreamInv, PostInv, DrainInv, Streaming, Posting, Live
  <2>6. CASE main.at = "drain"
    <3>1. AreJobs(jobs) /\ IsSequence(jobs) /\ Len(jobs) \in Nat
      BY <2>6 DEF InputInv, Kept, AreJobs, IsSequence
    <3>2. mt.doneJobID \in Nat /\ mt.nextJobID \in Nat /\ mt.nextJobID - mt.doneJobID <= Len(jobs)
      BY <2>1, <2>6 DEF IsMt, InputInv, DrainInv
    <3>3. Len(jobs) > 0
      BY <1>1, <3>1, <3>2
    <3>4. /\ IsSequence(jobs') /\ Len(jobs') = Len(jobs) - 1
          /\ \A i \in 1 .. Len(jobs) - 1 : jobs'[i] = jobs[i + 1]
      BY <1>3, <3>1, <3>3, SequenceTail
    <3>5. \A i \in 1 .. Len(jobs) - 1 : i + 1 \in 1 .. Len(jobs)
      BY <3>1
    <3>6. AreJobs(jobs')
      BY <3>1, <3>4, <3>5 DEF AreJobs
    <3>7. \A i \in 1 .. Len(jobs') : ~Complete(jobs'[i]) => JobIntact(jobs'[i], ring)
      BY <2>6, <3>4, <3>5 DEF InputInv, DrainInv
    <3>8. mt'.nextJobID - mt'.doneJobID <= Len(jobs')
      BY <2>2, <3>1, <3>2, <3>4
    <3>9. DrainInv'
      BY <1>1, <2>6, <3>7, <3>8 DEF InputInv, DrainInv
    <3>10. Kept'
      BY <1>1, <2>2, <2>4, <2>6, <3>6 DEF InputInv, Kept, Live, InFrame
    <3>11. QED
      BY <1>1, <2>3, <2>6, <3>9, <3>10 DEF InputInv, StreamInv, PostInv, Streaming, Posting
  <2>7. QED
    BY <1>1, <2>5, <2>6
<1>4. QED
  BY <1>2, <1>3 DEF WaitForJob

LEMMA ReleaseAllKeeps ==
  ASSUME InputInv, ReleaseAll
  PROVE  InputInv'
<1>1. /\ main.at \in {"drain", "restart"} /\ jobs' = <<>> /\ UNCHANGED <<ring, pos, fed>>
      /\ mt' = [mt EXCEPT !.allJobsCompleted = TRUE]
      /\ inBuff' = [NoSection EXCEPT !.prefix = inBuff.prefix]
  BY DEF ReleaseAll, Draining
<1>2. IsMt(mt) /\ IsMain(main) /\ inBuff \in Sections /\ inBuff.prefix \in Ranges
  BY DEF InputInv, Shapes, Sections
<1>3. IsMt(mt') /\ mt'.jobReady = mt.jobReady /\ mt'.allJobsCompleted = TRUE
  BY <1>1, <1>2 DEF IsMt, Has, MtFields
<1>4. inBuff' \in Sections
  <2>1. inBuff' = [has |-> FALSE, start |-> 0, filled |-> 0, prefix |-> inBuff.prefix]
    BY <1>1 DEF NoSection
  <2>2. QED
    BY ONLY <1>2, <2>1, MakeSection
<1>5. IsMain(main') /\ (main'.at = "reset" \/ (main'.at = "out" /\ main'.said = "error"))
      /\ (main'.at = "reset" => main.at = "restart")
  BY <1>2 DEF ReleaseAll, IsMain, Has, MainFields, Places
<1>6. Shapes'
  BY <1>1, <1>2, <1>3, <1>4, <1>5 DEF InputInv, Shapes, C
<1>7. ~Live' /\ ~Streaming' /\ ~Posting'
  BY <1>5 DEF Live, Streaming, Posting, InFrame
<1>8. AreJobs(jobs')
  BY <1>1, EmptySequence DEF AreJobs
<1>9. main'.at \in {"restart", "reset"} => ~mt'.jobReady
  BY <1>3, <1>5 DEF InputInv, Kept
<1>10. Kept'
  BY <1>1, <1>5, <1>7, <1>8, <1>9 DEF Kept
<1>11. QED
  BY <1>5, <1>6, <1>7, <1>10 DEF InputInv, StreamInv, PostInv, DrainInv

LEMMA FlushFailsKeeps ==
  ASSUME InputInv, FlushFails
  PROVE  InputInv'
<1>1. /\ main.at = "flush" /\ main' = [main EXCEPT !.at = "drain"]
      /\ UNCHANGED <<mt, jobs, ring, pos, inBuff, fed>>
  BY DEF FlushFails, Flushing, shared, buffers
<1>2. InFrame /\ Streaming
  BY <1>1 DEF InputInv, Kept, Streaming
<1>3. /\ Shapes /\ AreJobs(jobs) /\ Count /\ Layout(jobs, ring, C, pos, inBuff, fed) /\ Numbered(mt, jobs)
      /\ IsMt(mt) /\ IsMain(main) /\ ~mt.allJobsCompleted
  BY <1>2, StreamingHas
<1>4. IsMain(main') /\ main'.at = "drain" /\ main'.said = main.said
  BY <1>1, <1>3 DEF IsMain, Has, MainFields, Places
<1>5. Shapes'
  BY <1>1, <1>3, <1>4 DEF Shapes, C
<1>6. Kept'
  BY <1>1, <1>2, <1>3, <1>4 DEF Kept, InFrame
<1>7. mt.nextJobID - mt.doneJobID <= Len(jobs)
  BY <1>3 DEF Numbered, IsMt
<1>8. DrainInv'
  BY <1>1, <1>3, <1>7 DEF DrainInv, Layout, Placed
<1>9. QED
  BY <1>4, <1>5, <1>6, <1>8 DEF InputInv, StreamInv, PostInv, Streaming, Posting

(* A call that returns says the truth about what there is left to do.      *)
LEMMA SayKeeps ==
  ASSUME InputInv, main.at = "flush", NEW m, NEW js, Say(m, js), UNCHANGED <<buffers, fed>>,
         IsMt(m), AreJobs(js), Numbered(m, js), Layout(js, ring, C, pos, inBuff, fed),
         m.jobReady = mt.jobReady, m.nextJobID = mt.nextJobID, m.frameEnded = mt.frameEnded,
         m.allJobsCompleted = mt.allJobsCompleted
  PROVE  InputInv'
<1>1. Streaming
  BY DEF InputInv, Kept, Streaming
<1>2. /\ Shapes /\ Count /\ IsMt(mt) /\ IsMain(main) /\ ~mt.allJobsCompleted
  BY <1>1, StreamingHas
<1> DEFINE empty == js = <<>> /\ inBuff.filled = 0
           done == IF main.op = "end" THEN m.frameEnded ELSE TRUE
<1>3. /\ mt' = IF empty THEN [m EXCEPT !.allJobsCompleted = m.frameEnded] ELSE m
      /\ jobs' = js
      /\ main' = [main EXCEPT !.at = "out", !.block = FALSE, !.room = 0,
                    !.said = IF ~empty \/ ~done \/ main.left > 0 THEN "more"
                             ELSE IF main.op = "end" THEN "done" ELSE "flushed"]
  BY DEF Say
<1>4. UNCHANGED <<ring, pos, inBuff, fed>> /\ C' = C
  BY DEF buffers, C
<1>5. /\ IsMt(mt') /\ mt'.doneJobID = m.doneJobID /\ mt'.nextJobID = m.nextJobID /\ mt'.jobReady = m.jobReady
      /\ mt'.frameEnded = m.frameEnded
      /\ empty => mt'.allJobsCompleted = m.frameEnded
      /\ ~empty => mt'.allJobsCompleted = m.allJobsCompleted
  <2>1. CASE empty
    BY <1>3, <2>1 DEF IsMt, Has, MtFields
  <2>2. CASE ~empty
    BY <1>3, <2>2
  <2>3. QED
    BY <2>1, <2>2
<1>6. /\ IsMain(main') /\ main'.at = "out" /\ main'.order = main.order /\ main'.left = main.left
      /\ main'.said = IF ~empty \/ ~done \/ main.left > 0 THEN "more" ELSE IF main.op = "end" THEN "done" ELSE "flushed"
  BY <1>2, <1>3 DEF IsMain, Has, MainFields, Places
<1>7. Shapes'
  BY <1>2, <1>4, <1>5, <1>6 DEF Shapes
<1>8. m.frameEnded => main.order = "end" /\ main.left = 0 /\ main.op = "end"
  BY <1>2 DEF Count
<1>9. m.frameEnded /\ empty => main'.said = "done"
  <2>1. ASSUME m.frameEnded, empty PROVE main'.said = "done"
    <3>1. done /\ ~(main.left > 0) /\ main.op = "end"
      BY <1>8, <2>1
    <3>2. QED
      BY <1>6, <2>1, <3>1
  <2>2. QED
    BY <2>1
<1>10. Count'
  BY <1>2, <1>3, <1>4, <1>5, <1>6, <1>8 DEF Count, Numbered
<1>11. Layout(jobs', ring', C', pos', inBuff', fed')
  BY <1>3, <1>4
<1>12. Kept'
  <2>1. mt'.allJobsCompleted => jobs' = <<>> /\ main'.said = "done"
    BY <1>2, <1>3, <1>5, <1>9
  <2>2. QED
    BY <1>3, <1>6, <2>1 DEF Kept, Live, InFrame
<1>13. QED
  BY <1>6, <1>7, <1>10, <1>11, <1>12 DEF InputInv, StreamInv, PostInv, DrainInv, Posting

LEMMA FlushKeeps ==
  ASSUME InputInv, Flush \/ FlushNothing
  PROVE  InputInv'
<1>1. main.at = "flush" /\ UNCHANGED <<buffers, fed>>
  BY DEF Flush, FlushNothing, Flushing
<1>2. Streaming
  BY <1>1 DEF InputInv, Kept, Streaming
<1>3. /\ Shapes /\ AreJobs(jobs) /\ Count /\ Layout(jobs, ring, C, pos, inBuff, fed) /\ Numbered(mt, jobs)
      /\ IsMt(mt) /\ IsMain(main) /\ ~mt.allJobsCompleted
  BY <1>2, StreamingHas
<1>4. CASE FlushNothing
  <2>1. Say(mt, jobs)
    BY <1>4 DEF FlushNothing
  <2>2. QED
    BY <1>1, <1>3, <2>1, SayKeeps
<1>5. CASE Flush
  <2>1. PICK out, n, j : /\ j = [First EXCEPT !.out = out, !.dstFlushed = First.dstFlushed + n,
                                              !.frameChecksumNeeded = First.frameChecksumNeeded /\ ~Complete(First)]
                         /\ \/ Say([mt EXCEPT !.doneJobID = @ + 1], Tail(jobs))
                            \/ Say(mt, [jobs EXCEPT ![1] = j])
    BY Zenon, <1>5 DEF Flush
  <2>2. FirstPosted
    BY Zenon, <1>5 DEF Flush
  <2>3. Len(jobs) \in Nat /\ Len(jobs) > 0 /\ IsSequence(jobs)
    BY <1>3, <2>2 DEF FirstPosted, IsMt, Numbered, AreJobs, IsSequence
  <2>4. CASE Say([mt EXCEPT !.doneJobID = @ + 1], Tail(jobs))
    <3> DEFINE m == [mt EXCEPT !.doneJobID = @ + 1]
    <3>1. /\ IsMt(m) /\ m.doneJobID = mt.doneJobID + 1 /\ m.nextJobID = mt.nextJobID /\ m.jobReady = mt.jobReady
          /\ m.frameEnded = mt.frameEnded /\ m.allJobsCompleted = mt.allJobsCompleted
      BY <1>3 DEF IsMt, Has, MtFields
    <3>2. AreJobs(Tail(jobs)) /\ Layout(Tail(jobs), ring, C, pos, inBuff, fed)
      BY <1>3, <2>3, LayoutTail
    <3>3. Len(Tail(jobs)) = Len(jobs) - 1
      BY <2>3, SequenceTail
    <3>4. Say(m, Tail(jobs))
      BY <2>4
    <3> HIDE DEF m
    <3>5. Numbered(m, Tail(jobs))
      BY <1>3, <2>2, <2>3, <3>1, <3>3 DEF Numbered, IsMt, FirstPosted
    <3>6. QED
      BY <1>1, <3>1, <3>2, <3>4, <3>5, SayKeeps
  <2>5. CASE Say(mt, [jobs EXCEPT ![1] = j])
    <3> DEFINE js == [jobs EXCEPT ![1] = j]
    <3>1. IsJob(jobs[1])
      BY <1>3, <2>3 DEF AreJobs
    <3>2. Keeps(jobs[1], j)
      <4>1. PICK y, z : j = [jobs[1] EXCEPT !.out = out, !.dstFlushed = y, !.frameChecksumNeeded = z]
        BY ONLY <2>1 DEF First
      <4>2. QED
        BY ONLY <3>1, <4>1, FlushedJob
    <3>3. js = [i \in DOMAIN jobs |-> js[i]] /\ \A i \in DOMAIN jobs : js[i] = IF i = 1 THEN j ELSE jobs[i]
      OBVIOUS
    <3>4. Say(mt, js)
      BY <2>5
    <3> HIDE DEF js
    <3>5. IsSequence(js) /\ Len(js) = Len(jobs) /\ DOMAIN jobs = 1 .. Len(jobs)
      BY <2>3, <3>3, SequenceSet
    <3>6. \A i \in 1 .. Len(jobs) : Keeps(jobs[i], jobs[i])
      BY <1>3 DEF Keeps, AreJobs
    <3>7. \A i \in 1 .. Len(jobs) : Keeps(jobs[i], js[i])
      BY <3>2, <3>3, <3>5, <3>6
    <3>8. AreJobs(js)
      BY <3>5, <3>7 DEF AreJobs, Keeps
    <3>9. Layout(js, ring, C, pos, inBuff, fed)
      BY <1>3, <3>5, <3>7, <3>8, LayoutKeeps
    <3>10. Numbered(mt, js)
      BY <1>3, <3>5 DEF Numbered
    <3>11. QED
      BY <1>1, <1>3, <3>4, <3>8, <3>9, <3>10, SayKeeps
  <2>6. QED
    BY <2>1, <2>4, <2>5
<1>6. QED
  BY <1>4, <1>5

LEMMA NbJobsIs ==
  ASSUME IsMt(mt), NEW n \in Nat
  PROVE  NbJobs(n) \in Nat /\ NbJobs(n) > 0
<1> DEFINE w == mt.nbWorkers
           pass == 4 * targetSectionSize * w
<1>1. w \in Nat /\ w > 0 /\ targetSectionSize \in Nat /\ targetSectionSize > 0
  BY SizesAssumption DEF IsMt
<1>2. \A a \in Nat, b \in Nat : a > 0 /\ b > 0 => a * b \in Nat /\ a * b > 0
  BY SMT
<1>3. \A a \in Nat, b \in Nat : b > 0 => a \div b \in Nat
  BY SMT
<1>4. 4 * targetSectionSize \in Nat /\ 4 * targetSectionSize > 0
  BY <1>1
<1>5. pass \in Nat /\ pass > 0
  BY <1>1, <1>2, <1>4
<1> HIDE DEF pass
<1>6. n \div pass \in Nat /\ n \div targetSectionSize \in Nat
  BY <1>1, <1>3, <1>5
<1>7. (n \div pass + 1) * w \in Nat /\ (n \div pass + 1) * w > 0
  BY <1>1, <1>2, <1>6
<1>8. QED
  BY <1>1, <1>6, <1>7 DEF NbJobs, Smaller, pass

LEMMA CompressAdvancedKeeps ==
  ASSUME InputInv, NEW n \in bound.offers \cup {main.left}, NEW room, CompressAdvanced(n, room)
  PROVE  InputInv'
<1>1. /\ Streaming /\ main.at = "out" /\ mt.nextJobID = 0 /\ inBuff.filled = 0 /\ ~mt.jobReady
      /\ fed' = fed + n /\ UNCHANGED <<jobs, ring, pos, inBuff>>
  BY DEF CompressAdvanced, Shortcut, Streaming, buffers
<1>2. /\ Shapes /\ AreJobs(jobs) /\ Count /\ IsMt(mt) /\ IsMain(main) /\ ~mt.allJobsCompleted
  BY <1>1, StreamingHas
<1>3. n \in Nat
  <2>1. bound \in Instances /\ main.left \in Nat
    BY <1>2 DEF IsMain, bound
  <2>2. QED
    BY <2>1, InstancesAssumption
<1>4. jobs = <<>> /\ Len(jobs) = 0 /\ inBuff.prefix.size = 0
  <2>1. mt.doneJobID \in Nat /\ Len(jobs) = 0 - mt.doneJobID + 0 /\ Len(jobs) \in Nat
    BY <1>1, <1>2 DEF Count, IsMt, AreJobs, IsSequence
  <2>2. Len(jobs) = 0
    BY ONLY <2>1
  <2>3. QED
    BY <1>1, <1>2, <2>2, EmptySequence DEF Count, AreJobs
<1>5. fed' \in Nat /\ C' = C
  BY <1>1, <1>2, <1>3 DEF Shapes, C
<1>6. CASE NbJobs(n) = 1 \/ mt.nbWorkers = 1
  <2>1. /\ mt' = [mt EXCEPT !.frameEnded = TRUE, !.allJobsCompleted = TRUE]
        /\ main' = [main EXCEPT !.said = "done"]
    BY <1>6 DEF CompressAdvanced
  <2>2. IsMt(mt')
    BY <1>2, <2>1 DEF IsMt, Has, MtFields
  <2>3. IsMain(main') /\ main'.at = "out" /\ main'.said = "done"
    BY <1>1, <1>2, <2>1 DEF IsMain, Has, MainFields, Places
  <2>4. Shapes'
    BY <1>1, <1>2, <1>5, <2>2, <2>3 DEF Shapes
  <2>5. Kept'
    BY <1>1, <1>2, <1>4, <2>3 DEF Kept, Live, InFrame
  <2>6. QED
    BY <2>3, <2>4, <2>5 DEF InputInv, StreamInv, PostInv, DrainInv, Streaming, Posting, InFrame
<1>7. CASE ~(NbJobs(n) = 1 \/ mt.nbWorkers = 1)
  <2>1. /\ mt' = expandJobsTable(mt, NbJobs(n))
        /\ main' = [main EXCEPT !.at = "post", !.order = "end", !.nbJobs = NbJobs(n)]
    BY <1>7 DEF CompressAdvanced
  <2>2. IsMt(mt') /\ mt'.allJobsCompleted = mt.allJobsCompleted
    BY <1>2, <2>1 DEF expandJobsTable, IsMt, Has, MtFields
  <2>3. NbJobs(n) \in Nat /\ NbJobs(n) > 0
    BY <1>2, <1>3, NbJobsIs
  <2>4. /\ IsMain(main') /\ main'.at = "post" /\ main'.said = main.said /\ main'.nbJobs > 0
    BY <1>2, <2>1, <2>3 DEF IsMain, Has, MainFields, Places, Orders
  <2>5. Shapes'
    BY <1>1, <1>2, <1>5, <2>2, <2>4 DEF Shapes
  <2>6. Kept'
    BY <1>1, <1>2, <1>4, <2>2, <2>4 DEF Kept, InFrame, Streaming
  <2>7. PostInv'
    BY <1>1, <1>4, <2>4 DEF PostInv
  <2>8. QED
    BY <2>4, <2>5, <2>6, <2>7 DEF InputInv, StreamInv, DrainInv, Streaming
<1>8. QED
  BY <1>6, <1>7

LEMMA PostNextKeeps ==
  ASSUME InputInv, PostNext
  PROVE  InputInv'
<1>1. main.at = "post" /\ UNCHANGED <<mt, ring, pos, inBuff, fed>>
  BY DEF PostNext, buffers
<1>2. /\ IsMt(mt) /\ IsMain(main) /\ Shapes /\ Kept /\ AreJobs(jobs) /\ Posting /\ InFrame
      /\ main.nbJobs > 0 /\ inBuff.filled = 0 /\ inBuff.prefix.size = 0
      /\ \A i \in 1 .. Len(jobs) : jobs[i].user
  BY <1>1 DEF InputInv, Shapes, Kept, PostInv, Posting
<1> DEFINE u == main.job
           size == Before(u + 1) - Before(u)
           last == u = main.nbJobs - 1
           j == [frame |-> frames, jobID |-> u, user |-> TRUE, src |-> [start |-> 0, size |-> size],
                 prefix |-> NullRange, from |-> Before(u) + 1, consumed |-> 0, error |-> FALSE, dstFlushed |-> 0,
                 out |-> <<>>, lastJob |-> last, frameChecksumNeeded |-> FALSE]
<1>3. /\ jobs' = Append(jobs, j)
      /\ main' = [main EXCEPT !.job = IF last THEN 0 ELSE u + 1, !.at = IF last THEN "collect" ELSE "post"]
  BY DEF PostNext
<1>4. IsMain(main') /\ main'.at \in {"post", "collect"} /\ main'.said = main.said /\ main'.nbJobs = main.nbJobs
  <2>1. (IF last THEN 0 ELSE u + 1) \in Nat
    BY <1>2 DEF IsMain
  <2>2. PICK v \in Nat : main' = [main EXCEPT !.job = v, !.at = IF last THEN "collect" ELSE "post"]
    BY <1>3, <2>1
  <2>3. (IF last THEN "collect" ELSE "post") \in {"post", "collect"}
    OBVIOUS
  <2>4. QED
    BY ONLY <1>2, <2>2, <2>3 DEF IsMain, Has, MainFields, Places
<1>5. u \in Nat /\ size \in Int /\ Before(u) + 1 \in Int
  <2>1. u \in Nat /\ u + 1 \in Nat /\ main.nbJobs \in Nat /\ main.nbJobs > 0 /\ fed \in Nat
    BY <1>2 DEF IsMain, Shapes
  <2>2. \A a \in Nat, b \in Nat : b > 0 => a \div b \in Nat
    BY SMT
  <2>3. \A a \in Nat, b \in Nat : a * b \in Nat
    BY SMT
  <2>4. Before(u) \in Nat /\ Before(u + 1) \in Nat
    BY <2>1, <2>2, <2>3 DEF Before
  <2>5. QED
    BY <2>1, <2>4
<1>6. IsJob(j) /\ j.user
  BY <1>5 DEF IsJob, Has, JobFields, Ranges, NullRange
<1> HIDE DEF j
<1>7. AreJobs(jobs') /\ \A i \in 1 .. Len(jobs') : jobs'[i].user
  <2>1. IsSequence(jobs) /\ \A i \in 1 .. Len(jobs) : IsJob(jobs[i])
    BY <1>2 DEF AreJobs
  <2>2. Len(jobs) \in Nat
    BY <2>1 DEF IsSequence
  <2>3. /\ IsSequence(jobs') /\ Len(jobs') = Len(jobs) + 1
        /\ \A i \in 1 .. Len(jobs) : jobs'[i] = jobs[i]
        /\ jobs'[Len(jobs) + 1] = j
    BY <1>3, <2>1, SequenceAppend
  <2>4. \A i \in 1 .. Len(jobs) + 1 : i \in 1 .. Len(jobs) \/ i = Len(jobs) + 1
    BY <2>2
  <2>5. QED
    BY <1>2, <1>6, <2>1, <2>3, <2>4 DEF AreJobs
<1>8. Shapes'
  BY <1>1, <1>2, <1>4 DEF Shapes, C
<1>9. Kept'
  BY <1>1, <1>2, <1>4, <1>7 DEF Kept, Live, InFrame
<1>10. PostInv'
  BY <1>1, <1>2, <1>4, <1>7 DEF PostInv
<1>11. QED
  BY <1>4, <1>8, <1>9, <1>10 DEF InputInv, StreamInv, DrainInv, Streaming

LEMMA CollectKeeps ==
  ASSUME InputInv, Collect
  PROVE  InputInv'
<1>1. main.at = "collect" /\ UNCHANGED <<ring, pos, inBuff, fed>> /\ C' = C
  BY DEF Collect, buffers, C
<1>2. IsMt(mt) /\ IsMain(main) /\ Shapes /\ Kept /\ Posting /\ PostInv
  BY <1>1 DEF InputInv, Shapes, Kept, Posting
<1>3. CASE main.job # main.nbJobs - 1
  <2>1. PICK f : main' = [main EXCEPT !.job = @ + 1, !.failed = f] /\ UNCHANGED <<mt, jobs>>
    BY <1>3 DEF Collect
  <2>2. IsMain(main') /\ main'.at = "collect" /\ main'.said = main.said /\ main'.nbJobs = main.nbJobs
    <3>0. main.job + 1 \in Nat
      BY <1>2 DEF IsMain
    <3>1. PICK v \in Nat : main' = [main EXCEPT !.job = v, !.failed = f]
      BY <2>1, <3>0
    <3>2. QED
      BY ONLY <1>1, <1>2, <3>1 DEF IsMain, Has, MainFields, Places
  <2>3. Shapes'
    BY <1>1, <1>2, <2>1, <2>2 DEF Shapes
  <2>4. Kept'
    BY <1>1, <1>2, <2>1, <2>2 DEF Kept, Live, InFrame
  <2>5. PostInv'
    BY <1>1, <1>2, <2>1, <2>2 DEF PostInv, Posting, InFrame
  <2>6. QED
    BY <2>2, <2>3, <2>4, <2>5 DEF InputInv, StreamInv, DrainInv, Streaming
<1>4. CASE main.job = main.nbJobs - 1
  <2>1. PICK said \in {"error", "done"} :
          /\ main' = [main EXCEPT !.at = "out", !.job = 0, !.nbJobs = 0, !.failed = FALSE, !.said = said]
          /\ jobs' = <<>>
          /\ mt' = mt \/ mt' = [mt EXCEPT !.frameEnded = TRUE, !.allJobsCompleted = TRUE]
    BY <1>4 DEF Collect
  <2>2. IsMain(main') /\ main'.at = "out" /\ main'.said \in {"error", "done"}
    BY <1>2, <2>1 DEF IsMain, Has, MainFields, Places
  <2>3. IsMt(mt')
    BY <1>2, <2>1 DEF IsMt, Has, MtFields
  <2>4. Shapes'
    BY <1>1, <1>2, <2>2, <2>3 DEF Shapes
  <2>5. AreJobs(jobs')
    BY <2>1, EmptySequence DEF AreJobs
  <2>6. Kept'
    BY <2>1, <2>2, <2>5 DEF Kept, Live, InFrame
  <2>7. QED
    BY <2>2, <2>4, <2>6 DEF InputInv, StreamInv, PostInv, DrainInv, Streaming, Posting, InFrame
<1>5. QED
  BY <1>3, <1>4

(* Init, every step of the caller and of the workers, and stuttering. *)
LEMMA StepKeeps ==
  ASSUME InputInv, NoReadyRestart, [Next]_vars
  PROVE  InputInv'
<1>1. ASSUME NEW w \in Workers, Step(w) \/ Fails(w) PROVE InputInv'
  <2>1. UNCHANGED <<mt, ring, pos, inBuff, main, fed>>
    BY <1>1 DEF Step, Take, SerialUpdate, CompressChunk, CompressLast, GiveUpTurn, Report, Leave, Fails, MainRests, buffers
  <2>2. AreJobs(jobs) => AreJobs(jobs') /\ Len(jobs') = Len(jobs) /\ \A i \in 1 .. Len(jobs) : Keeps(jobs[i], jobs'[i])
    BY <1>1, WorkersKeepJobs
  <2>3. jobs = <<>> => jobs' = <<>>
    BY <1>1 DEF Step, Take, SerialUpdate, CompressChunk, CompressLast, GiveUpTurn, Report, Leave, Fails, SetJob
  <2>4. QED
    BY <2>1, <2>2, <2>3, InvKeptByWorkers
<1>2. ASSUME UNCHANGED <<mt, ring, pos, inBuff, main, fed, jobs>> PROVE InputInv'
  BY <1>2, SameJobsKeep, InvKeptByWorkers
<1>3. CASE Inside
  <2>1. CASE FlushWait \/ CollectWait
    BY <1>2, <2>1 DEF FlushWait, CollectWait, shared, buffers
  <2>2. QED
    BY <1>3, <2>1, ResetKeeps, WaitForJobKeeps, ReleaseAllKeeps, FlushFailsKeeps, FlushKeeps, PostNextKeeps, CollectKeeps
       DEF Inside
<1>4. CASE Call
  BY <1>4, InitCStreamKeeps, CompressAdvancedKeeps, CompressStreamKeeps, FlushStreamKeeps DEF Call
<1>5. CASE SpuriousWakeup \/ UNCHANGED vars
  BY <1>2, <1>5 DEF SpuriousWakeup, shared, buffers, vars
<1>6. QED
  BY <1>1, <1>3, <1>4, <1>5 DEF Next

(* What a worker still has to read of its job's input and prefix, and what *)
(* the caller has put into the next section and its prefix, is not written *)
(* over, although ZSTDMT_tryGetInputRange looks at one job only and the    *)
(* buffer is filled round while jobs finish in any order.                  *)
THEOREM InputStaysIntact == NoReadyRestart => (Spec => []InputIsIntact)
<1> SUFFICES ASSUME NoReadyRestart PROVE Spec => []InputIsIntact
  OBVIOUS
<1>1. InputInv /\ [Next]_vars => InputInv'
  BY StepKeeps
<1>2. QED
  BY <1>1, InvHoldsAtFirst, IntactFromParts, PTL DEF Spec

-----------------------------------------------------------------------------
(* The callers of which the frame is right: they may give a frame up and   *)
(* begin another, and have none of the other habits.                       *)
Orderly == \A i \in Instances : i.habits \subseteq {"restart"}

-----------------------------------------------------------------------------
(* The frame, word by word *)

(* The word at place p of the frame of n chunks, and a sequence s that     *)
(* reads like that frame from behind place from on.                        *)
Word(p, n) ==
  IF p = 1 THEN Header ELSE IF p <= n + 1 THEN Block(p - 1) ELSE IF p = n + 2 THEN LastBlock ELSE Sum([i \in 1 .. n |-> i])
Reads(s, from, n) == IsSequence(s) /\ \A k \in 1 .. Len(s) : s[k] = Word(from + k, n)

-----------------------------------------------------------------------------
(* Jobs and those who have them *)

(* ZSTDMT_compress_advanced is under way; where in the table the job with  *)
(* a number is; the workers that have a job they have not reported; and    *)
(* the jobs that may be in their hands or in the pool, which are not       *)
(* complete and, in a stream, have been posted.                            *)
AtOnce == main.at \in {"post", "collect"}
At(id) == id - mt.doneJobID + 1
Active == {w \in Workers : worker[w].at \notin {"idle", "leave"}}
InHand(id) == id \in Nat /\ At(id) \in 1 .. Len(jobs) /\ (~AtOnce => id < mt.nextJobID) /\ ~Complete(jobs[At(id)])

(* Workers and their number. *)
WorkerFields == {"at", "frame", "jobID"}
WorkerShapes ==
  /\ worker = [w \in Workers |-> worker[w]]
  /\ \A w \in Workers : Has(worker[w], WorkerFields) /\ worker[w].jobID \in Nat
       /\ worker[w].at \in {"idle", "serial", "chunks", "failed", "report", "leave"}
  /\ mt.nbWorkers \in 1 .. Cardinality(Workers)

(* The table has the jobs of this frame from doneJobID on, in the order of *)
(* their numbers; each worker, and the queue of the pool, has one that is  *)
(* not complete, and no two have the same.                                 *)
Owners ==
  /\ AreJobs(jobs)
  /\ \A i \in 1 .. Len(jobs) : jobs[i].jobID = mt.doneJobID + i - 1 /\ jobs[i].frame = frames
  /\ \A w \in Active : InHand(worker[w].jobID) /\ worker[w].frame = frames
  /\ queue # None => InHand(queue.jobID) /\ queue.frame = frames
  /\ \A v, w \in Active : v # w => worker[v].jobID # worker[w].jobID
  /\ queue # None => \A w \in Active : worker[w].jobID # queue.jobID

(* ZSTDMT_compress_advanced posts jobs 0 .. nbJobs - 1, each with some of  *)
(* the input, and collects them in their order.                            *)
AllPosted ==
  /\ ~AtOnce => main.job = 0 /\ main.failed = FALSE
  /\ AtOnce =>
       /\ mt.doneJobID = 0 /\ mt.nextJobID = 0 /\ ~mt.jobReady
       /\ 1 < main.nbJobs /\ main.nbJobs <= fed /\ main.job < main.nbJobs
       /\ main.at = "post" => Len(jobs) = main.job
       /\ main.at = "collect" => Len(jobs) = main.nbJobs /\ \A i \in 1 .. main.job : Complete(jobs[i])

(* Before the first job of a stream all of its input is in the section; a  *)
(* job that is ready has something to read.                                *)
Begun ==
  Streaming =>
    /\ mt.nextJobID = 0 /\ ~mt.jobReady => fed = inBuff.filled
    /\ mt.jobReady => ~Complete(jobs[Len(jobs)])

(* The table has every job that is posted and not done, also when a frame  *)
(* is given up.                                                            *)
Backed == ~mt.allJobsCompleted => mt.nextJobID - mt.doneJobID <= Len(jobs)

OwnersInv == WorkerShapes /\ Owners /\ AllPosted /\ Begun /\ Backed

-----------------------------------------------------------------------------
(* Words and sequences of them *)

LEMMA SequenceConcat ==
  ASSUME NEW s, IsSequence(s), NEW t, IsSequence(t)
  PROVE  /\ IsSequence(s \o t) /\ Len(s \o t) = Len(s) + Len(t)
         /\ \A i \in 1 .. Len(s) + Len(t) : (s \o t)[i] = IF i <= Len(s) THEN s[i] ELSE t[i - Len(s)]
<1>1. PICK S : s \in Seq(S)
  BY SequenceHas
<1>2. PICK T : t \in Seq(T)
  BY SequenceHas
<1>3. s \in Seq(S \cup T) /\ t \in Seq(S \cup T)
  BY <1>1, <1>2
<1>4. QED
  BY ONLY <1>3, ConcatProperties, SequencesOf

LEMMA SequencePart ==
  ASSUME NEW s, IsSequence(s), NEW a \in Nat, NEW b \in Nat, a <= b, b <= Len(s)
  PROVE  /\ IsSequence(SubSeq(s, a + 1, b)) /\ Len(SubSeq(s, a + 1, b)) = b - a
         /\ \A i \in 1 .. b - a : SubSeq(s, a + 1, b)[i] = s[a + i]
<1>1. PICK S : s \in Seq(S)
  BY SequenceHas
<1>2. \A i \in a + 1 .. b : s[i] \in S
  BY <1>1, LenProperties
<1>3. /\ SubSeq(s, a + 1, b) \in Seq(S) /\ Len(SubSeq(s, a + 1, b)) = IF a + 1 <= b THEN b - (a + 1) + 1 ELSE 0
      /\ \A i \in 1 .. b - (a + 1) + 1 : SubSeq(s, a + 1, b)[i] = s[a + 1 + i - 1]
  BY ONLY <1>2, SubSeqProperties, a \in Nat, b \in Nat
<1>4. IsSequence(SubSeq(s, a + 1, b))
  BY ONLY <1>3, SequencesOf
<1>5. Len(SubSeq(s, a + 1, b)) = b - a
  BY ONLY <1>3, a <= b, a \in Nat, b \in Nat
<1>6. ASSUME NEW i \in 1 .. b - a PROVE SubSeq(s, a + 1, b)[i] = s[a + i]
  <2>1. i \in 1 .. b - (a + 1) + 1 /\ a + 1 + i - 1 = a + i
    OBVIOUS
  <2>2. QED
    BY ONLY <1>3, <2>1
<1>7. QED
  BY <1>4, <1>5, <1>6

LEMMA SequenceOne == \A x : IsSequence(<<x>>) /\ Len(<<x>>) = 1 /\ <<x>>[1] = x
BY DEF IsSequence

LEMMA SequenceUpTo ==
  ASSUME NEW n \in Nat, NEW s, s = [i \in 1 .. n |-> s[i]]
  PROVE  IsSequence(s) /\ Len(s) = n
<1>1. s \in Seq({s[i] : i \in 1 .. n})
  OBVIOUS
<1>2. IsSequence(s)
  BY <1>1, SequencesOf
<1>3. Len(s) = n
  BY <1>1
<1>4. QED
  BY <1>2, <1>3

LEMMA SequencesAgree ==
  ASSUME NEW s, IsSequence(s), NEW t, IsSequence(t), Len(s) = Len(t), \A i \in 1 .. Len(s) : s[i] = t[i]
  PROVE  s = t
BY DEF IsSequence

LEMMA ReadsEmpty == \A from, n : Reads(<<>>, from, n) /\ Len(<<>>) = 0
BY EmptySequence DEF Reads

LEMMA ReadsOne ==
  ASSUME NEW from, NEW n, NEW x, x = Word(from + 1, n)
  PROVE  Reads(<<x>>, from, n) /\ Len(<<x>>) = 1
BY SequenceOne DEF Reads

LEMMA ReadsOn ==
  ASSUME NEW from \in Int, NEW n, NEW s, Reads(s, from, n), NEW to, to = from + Len(s), NEW t, Reads(t, to, n)
  PROVE  Reads(s \o t, from, n)
<1> DEFINE u == s \o t
<1>1. /\ IsSequence(s) /\ IsSequence(t) /\ Len(s) \in Nat /\ Len(t) \in Nat
      /\ \A k \in 1 .. Len(s) : s[k] = Word(from + k, n)
      /\ \A k \in 1 .. Len(t) : t[k] = Word(from + Len(s) + k, n)
  BY DEF Reads, IsSequence
<1>2. /\ IsSequence(u) /\ Len(u) = Len(s) + Len(t)
      /\ \A i \in 1 .. Len(s) + Len(t) : u[i] = IF i <= Len(s) THEN s[i] ELSE t[i - Len(s)]
  BY <1>1, SequenceConcat
<1> HIDE DEF u
<1>3. ASSUME NEW k \in 1 .. Len(s) + Len(t) PROVE u[k] = Word(from + k, n)
  <2>1. CASE k <= Len(s)
    BY <1>1, <1>2, <2>1
  <2>2. CASE ~(k <= Len(s))
    <3>1. k - Len(s) \in 1 .. Len(t) /\ from + Len(s) + (k - Len(s)) = from + k
      BY ONLY <1>1, <2>2, k \in 1 .. Len(s) + Len(t), from \in Int
    <3>2. u[k] = t[k - Len(s)]
      BY <1>2, <2>2
    <3>3. t[k - Len(s)] = Word(from + Len(s) + (k - Len(s)), n)
      BY ONLY <1>1, <3>1
    <3>4. QED
      BY ONLY <3>1, <3>2, <3>3
  <2>3. QED
    BY <2>1, <2>2
<1>4. QED
  BY <1>2, <1>3 DEF Reads, u

LEMMA ReadsLength ==
  ASSUME NEW s, NEW t, NEW a, NEW b, NEW n, Reads(s, a, n), Reads(t, b, n)
  PROVE  Len(s \o t) = Len(s) + Len(t)
BY SequenceConcat DEF Reads

LEMMA ReadsPart ==
  ASSUME NEW from \in Int, NEW n, NEW s, Reads(s, from, n), NEW a \in Nat, NEW b \in Nat, a <= b, b <= Len(s),
         NEW lo, lo = a + 1, NEW to, to = from + a
  PROVE  Reads(SubSeq(s, lo, b), to, n) /\ Len(SubSeq(s, lo, b)) = b - a
<1>1. IsSequence(s) /\ Len(s) \in Nat /\ \A k \in 1 .. Len(s) : s[k] = Word(from + k, n)
  BY DEF Reads, IsSequence
<1>2. /\ IsSequence(SubSeq(s, a + 1, b)) /\ Len(SubSeq(s, a + 1, b)) = b - a
      /\ \A i \in 1 .. b - a : SubSeq(s, a + 1, b)[i] = s[a + i]
  BY <1>1, SequencePart
<1>3. ASSUME NEW i \in 1 .. b - a PROVE SubSeq(s, a + 1, b)[i] = Word(from + a + i, n)
  <2>1. a + i \in 1 .. Len(s) /\ from + (a + i) = from + a + i
    BY ONLY <1>1, i \in 1 .. b - a, a \in Nat, b \in Nat, b <= Len(s), from \in Int
  <2>2. s[a + i] = Word(from + (a + i), n)
    BY <1>1, <2>1
  <2>3. QED
    BY <1>2, <2>1, <2>2
<1>4. Reads(SubSeq(s, a + 1, b), from + a, n)
  BY <1>2, <1>3 DEF Reads
<1>5. QED
  BY ONLY <1>2, <1>4, lo = a + 1, to = from + a

(* What was written of a frame is not changed by more input. *)
LEMMA ReadsGrow ==
  ASSUME NEW from \in Int, NEW n \in Nat, NEW m \in Nat, n <= m, NEW s, Reads(s, from, n), from + Len(s) <= n + 1
  PROVE  Reads(s, from, m)
<1>1. IsSequence(s) /\ Len(s) \in Nat /\ \A k \in 1 .. Len(s) : s[k] = Word(from + k, n)
  BY DEF Reads, IsSequence
<1>2. ASSUME NEW k \in 1 .. Len(s) PROVE Word(from + k, n) = Word(from + k, m)
  <2>1. from + k <= n + 1 /\ from + k <= m + 1
    BY <1>1
  <2>2. QED
    BY ONLY <2>1 DEF Word
<1>3. QED
  BY <1>1, <1>2 DEF Reads

LEMMA Numbers ==
  ASSUME NEW n \in Nat
  PROVE  LET s == [i \in 1 .. n |-> i] IN IsSequence(s) /\ Len(s) = n /\ \A i \in 1 .. n : s[i] = i
<1> DEFINE s == [i \in 1 .. n |-> i]
<1>1. s = [i \in 1 .. n |-> s[i]]
  OBVIOUS
<1> HIDE DEF s
<1>2. IsSequence(s) /\ Len(s) = n
  BY <1>1, SequenceUpTo
<1>3. QED
  BY <1>2 DEF s

LEMMA FrameReads ==
  ASSUME NEW n \in Nat
  PROVE  Reads(Frame(n), 0, n) /\ Len(Frame(n)) = n + 3
<1> DEFINE head == <<Header>>
           blocks == [i \in 1 .. n |-> Block(i)]
           end == <<LastBlock, Sum([i \in 1 .. n |-> i])>>
<1>1. Reads(head, 0, n) /\ Len(head) = 1
  <2>1. Header = Word(0 + 1, n)
    BY DEF Word
  <2>2. QED
    BY ONLY <2>1, ReadsOne
<1>2. Reads(blocks, 1, n) /\ Len(blocks) = n
  <2>1. blocks = [i \in 1 .. n |-> blocks[i]]
    OBVIOUS
  <2>2. \A k \in 1 .. n : blocks[k] = Word(1 + k, n)
    <3> TAKE k \in 1 .. n
    <3>1. 1 + k # 1 /\ 1 + k <= n + 1 /\ 1 + k - 1 = k
      OBVIOUS
    <3>2. QED
      BY <3>1 DEF Word
  <2> HIDE DEF blocks
  <2>3. IsSequence(blocks) /\ Len(blocks) = n
    BY ONLY <2>1, SequenceUpTo, n \in Nat
  <2>4. QED
    BY <2>2, <2>3 DEF Reads
<1>3. Reads(end, 1 + n, n) /\ Len(end) = 2
  <2>1. LastBlock = Word(1 + n + 1, n)
    BY DEF Word
  <2>2. Sum([i \in 1 .. n |-> i]) = Word(1 + n + 2, n)
    BY DEF Word
  <2>3. \A x, y : IsSequence(<<x, y>>) /\ Len(<<x, y>>) = 2 /\ <<x, y>>[1] = x /\ <<x, y>>[2] = y
    BY DEF IsSequence
  <2>4. IsSequence(end) /\ Len(end) = 2 /\ end[1] = LastBlock /\ end[2] = Sum([i \in 1 .. n |-> i])
    BY <2>3
  <2>5. \A k \in 1 .. 2 : k = 1 \/ k = 2
    OBVIOUS
  <2> HIDE DEF end
  <2>6. \A k \in 1 .. Len(end) : end[k] = Word(1 + n + k, n)
    BY <2>1, <2>2, <2>4, <2>5
  <2>7. QED
    BY <2>4, <2>6 DEF Reads
<1> HIDE DEF head, blocks, end
<1>4. Reads(head \o blocks, 0, n) /\ Len(head \o blocks) = 1 + n
  <2>1. 1 = 0 + Len(head) /\ 0 \in Int
    BY ONLY <1>1
  <2>2. Reads(head \o blocks, 0, n)
    BY ONLY <1>1, <1>2, <2>1, ReadsOn
  <2>3. Len(head \o blocks) = Len(head) + Len(blocks)
    BY ONLY <1>1, <1>2, ReadsLength
  <2>4. QED
    BY ONLY <1>1, <1>2, <2>2, <2>3
<1>5. Reads((head \o blocks) \o end, 0, n) /\ Len((head \o blocks) \o end) = n + 3
  <2> DEFINE s == head \o blocks
  <2>1. Reads(s, 0, n) /\ Len(s) = 1 + n
    BY <1>4
  <2> HIDE DEF s
  <2>2. 1 + n = 0 + Len(s) /\ 0 \in Int
    BY ONLY <2>1, n \in Nat
  <2>3. Reads(s \o end, 0, n)
    BY ONLY <1>3, <2>1, <2>2, ReadsOn
  <2>4. Len(s \o end) = Len(s) + Len(end)
    BY ONLY <1>3, <2>1, ReadsLength
  <2>5. Len(s \o end) = n + 3
    BY ONLY <1>3, <2>1, <2>4, n \in Nat
  <2>6. QED
    BY <2>3, <2>5 DEF s
<1>6. Frame(n) = (head \o blocks) \o end
  BY DEF Frame, head, blocks, end
<1>7. QED
  BY ONLY <1>5, <1>6

LEMMA ReadsSame ==
  ASSUME NEW from, NEW n, NEW s, NEW t, Reads(s, from, n), Reads(t, from, n), Len(s) = Len(t)
  PROVE  s = t
BY SequencesAgree DEF Reads

(* A sequence that reads like the frame is its beginning, or all of it. *)
LEMMA ReadsFrame ==
  ASSUME NEW n \in Nat, NEW s, Reads(s, 0, n), Len(s) <= n + 3
  PROVE  IsPrefix(s, Frame(n)) /\ (Len(s) = n + 3 => s = Frame(n))
<1>1. Reads(Frame(n), 0, n) /\ Len(Frame(n)) = n + 3
  BY FrameReads
<1>2. Len(s) \in Nat
  BY DEF Reads, IsSequence
<1> DEFINE k == Len(s)
<1>0. 0 \in Nat /\ 0 \in Int /\ 0 <= k /\ k <= Len(s) /\ k <= Len(Frame(n)) /\ k \in Nat /\ 1 = 0 + 1 /\ 0 = 0 + 0
  BY <1>1, <1>2
<1>a. Reads(s, 0, n)
  OBVIOUS
<1> HIDE DEF k
<1>3. Reads(SubSeq(s, 1, k), 0, n) /\ Len(SubSeq(s, 1, k)) = k - 0
  BY ONLY <1>0, <1>a, ReadsPart
<1>4. Reads(SubSeq(Frame(n), 1, k), 0, n) /\ Len(SubSeq(Frame(n), 1, k)) = k - 0
  BY ONLY <1>0, <1>1, ReadsPart
<1>5. SubSeq(s, 1, k) = SubSeq(Frame(n), 1, k)
  BY ONLY <1>3, <1>4, ReadsSame
<1>6. SubSeq(s, 1, Len(s)) = SubSeq(Frame(n), 1, Len(s))
  BY <1>5 DEF k
<1>7. IsPrefix(s, Frame(n))
  BY <1>1, <1>6 DEF IsPrefix
<1>8. Len(s) = n + 3 => s = Frame(n)
  BY ONLY <1>1, ReadsSame, Reads(s, 0, n)
<1>9. QED
  BY <1>7, <1>8
-----------------------------------------------------------------------------
(* Input compressed at once *)

LEMMA Products ==
  /\ \A a \in Nat, b \in Nat : a * b \in Nat /\ a * b = b * a
  /\ \A a \in Nat, b \in Nat, c \in Nat : a <= b => a * c <= b * c
  /\ \A a \in Nat, c \in Nat : (a + 1) * c = a * c + c
<1>1. \A a \in Nat, b \in Nat : a * b \in Nat /\ a * b = b * a
  BY SMT
<1>2. \A a \in Nat, c \in Nat : (a + 1) * c = a * c + c
  BY SMT
<1>3. ASSUME NEW a \in Nat, NEW b \in Nat, NEW c \in Nat, a <= b PROVE a * c <= b * c
  <2>1. b - a \in Nat /\ a + (b - a) = b
    BY <1>3
  <2>2. (a + (b - a)) * c = a * c + (b - a) * c
    BY <2>1, SMT
  <2>3. a * c \in Nat /\ (b - a) * c \in Nat
    BY <1>1, <2>1
  <2>4. b * c = a * c + (b - a) * c
    BY ONLY <2>1, <2>2
  <2>5. QED
    BY <2>3, <2>4
<1>4. QED
  BY <1>1, <1>2, <1>3

LEMMA Quotients ==
  ASSUME NEW b \in Nat, b > 0
  PROVE  /\ \A a \in Nat : a \div b \in Nat /\ (a \div b) * b <= a /\ a < (a \div b) * b + b
         /\ \A a \in Nat, q \in Nat : q * b <= a => q <= a \div b
         /\ \A a \in Nat, q \in Nat : a < q * b + b => a \div b <= q
<1>1. \A a \in Nat : a \div b \in Nat /\ (a \div b) * b <= a /\ a < (a \div b) * b + b
  BY SMT
<1>2. ASSUME NEW a \in Nat, NEW q \in Nat, q * b <= a PROVE q <= a \div b
  <2> DEFINE d == a \div b
  <2>1. d \in Nat /\ a < d * b + b
    BY <1>1
  <2> HIDE DEF d
  <2>2. ASSUME d + 1 <= q PROVE FALSE
    <3>1. (d + 1) * b <= q * b /\ (d + 1) * b = d * b + b /\ d * b \in Nat /\ q * b \in Nat
      BY <2>1, <2>2, Products
    <3>2. QED
      BY <1>2, <2>1, <3>1
  <2>3. q <= d
    BY <2>1, <2>2
  <2>4. QED
    BY <2>3 DEF d
<1>3. ASSUME NEW a \in Nat, NEW q \in Nat, a < q * b + b PROVE a \div b <= q
  <2> DEFINE d == a \div b
  <2>1. d \in Nat /\ d * b <= a
    BY <1>1
  <2> HIDE DEF d
  <2>2. ASSUME q + 1 <= d PROVE FALSE
    <3>1. (q + 1) * b <= d * b /\ (q + 1) * b = q * b + b /\ d * b \in Nat /\ q * b \in Nat
      BY <2>1, <2>2, Products
    <3>2. QED
      BY <1>3, <2>1, <3>1
  <2>3. d <= q
    BY <2>1, <2>2
  <2>4. QED
    BY <2>3 DEF d
<1>4. QED
  BY <1>1, <1>2, <1>3

(* Input cut evenly: every part has some of it, and together they have all. *)
LEMMA EvenShares ==
  ASSUME NEW f \in Nat, NEW b \in Nat, b > 0, b <= f
  PROVE  /\ (0 * f) \div b = 0 /\ (b * f) \div b = f
         /\ \A u \in Nat : /\ (u * f) \div b \in Nat
                           /\ (u * f) \div b + 1 <= ((u + 1) * f) \div b
                           /\ u <= b => (u * f) \div b <= f
<1>1. 0 * f = 0 /\ 0 * b = 0 /\ b * f = f * b /\ f * b \in Nat
  BY Products
<1>2. (0 * f) \div b = 0
  <2>1. 0 \div b <= 0
    BY <1>1, Quotients
  <2>2. 0 \div b \in Nat
    BY Quotients
  <2>3. QED
    BY <1>1, <2>1, <2>2
<1>3. (b * f) \div b = f
  <2> DEFINE d == (f * b) \div b
  <2>1. f * b <= f * b /\ f * b < f * b + b
    BY <1>1
  <2>2. d \in Nat /\ f <= d /\ d <= f
    BY <1>1, <2>1, Quotients
  <2>3. d = f
    BY ONLY <2>2, f \in Nat
  <2>4. QED
    BY <1>1, <2>3
<1>4. ASSUME NEW u \in Nat
      PROVE  /\ (u * f) \div b \in Nat
             /\ (u * f) \div b + 1 <= ((u + 1) * f) \div b
             /\ u <= b => (u * f) \div b <= f
  <2> DEFINE x == u * f
             d == x \div b
             y == (u + 1) * f
  <2>1. x \in Nat /\ y = x + f /\ y \in Nat /\ u + 1 \in Nat
    BY Products
  <2>2. d \in Nat /\ d * b <= x
    BY <2>1, Quotients
  <2>3. (d + 1) * b <= y
    <3>1. (d + 1) * b = d * b + b /\ d * b \in Nat
      BY <2>2, Products
    <3>2. QED
      BY ONLY <2>1, <2>2, <3>1, b <= f, f \in Nat, b \in Nat
  <2>4. d + 1 <= y \div b
    <3>1. d + 1 \in Nat
      BY <2>2
    <3>2. QED
      BY <2>1, <2>3, <3>1, Quotients
  <2>5. ASSUME u <= b PROVE d <= f
    <3>1. x <= f * b
      BY <1>1, <2>5, Products
    <3>2. x < f * b + b
      BY <1>1, <2>1, <3>1
    <3>3. QED
      BY <2>1, <3>2, Quotients
  <2>6. QED
    BY <2>2, <2>4, <2>5
<1>5. QED
  BY <1>2, <1>3, <1>4

LEMMA NbJobsFits ==
  ASSUME IsMt(mt), NEW n \in Nat, NbJobs(n) # 1
  PROVE  NbJobs(n) \in Nat /\ 1 < NbJobs(n) /\ NbJobs(n) <= n
<1> DEFINE w == mt.nbWorkers
           t == targetSectionSize
           pass == 4 * t * w
           k == n \div pass
           q == n \div t
<1>1. w \in Nat /\ w > 0 /\ t \in Nat /\ t >= 2
  BY SizesAssumption DEF IsMt
<1>2. pass \in Nat /\ pass > 0
  <2>1. 4 * t \in Nat /\ 1 <= 4 * t
    BY <1>1
  <2>2. 1 * w <= (4 * t) * w /\ (4 * t) * w \in Nat /\ 1 * w = w
    BY <1>1, <2>1, Products
  <2>3. QED
    BY <1>1, <2>2
<1>3. NbJobs(n) \in Nat /\ NbJobs(n) > 0
  BY NbJobsIs
<1>4. NbJobs(n) = IF k + 1 > 1 THEN (k + 1) * w ELSE Smaller(q + 1, w)
  BY DEF NbJobs
<1>5. k \in Nat /\ k * pass <= n /\ q \in Nat /\ q * t <= n
  <2>1. k \in Nat /\ k * pass <= n
    BY <1>2, Quotients
  <2>2. t \in Nat /\ t > 0
    BY <1>1
  <2>3. q \in Nat /\ q * t <= n
    BY <2>2, Quotients
  <2>4. QED
    BY <2>1, <2>3
<1>6. CASE k > 0
  <2>1. k * pass = (k * (4 * t)) * w
    <3>1. \A a, b, c \in Int : a * (4 * b * c) = (a * (4 * b)) * c
      BY SMT
    <3>2. k \in Int /\ t \in Int /\ w \in Int
      BY <1>1, <1>5
    <3> HIDE DEF k, t, w
    <3>3. QED
      BY <3>1, <3>2
  <2> HIDE DEF k, t, w, pass, q
  <2>2. k + 1 <= k * (4 * t) /\ k * (4 * t) \in Nat
    <3>1. 2 <= 4 * t /\ 4 * t \in Nat /\ 2 \in Nat
      BY <1>1
    <3>2. 2 * k <= (4 * t) * k /\ (4 * t) * k \in Nat /\ (4 * t) * k = k * (4 * t)
      BY <1>5, <3>1, Products
    <3>3. QED
      BY ONLY <1>5, <1>6, <3>2
  <2>3. (k + 1) * w <= (k * (4 * t)) * w
    <3>1. k + 1 \in Nat
      BY <1>5
    <3>2. QED
      BY <1>1, <2>2, <3>1, Products
  <2>4. NbJobs(n) = (k + 1) * w
    BY <1>4, <1>5, <1>6
  <2>5. (k + 1) * w \in Nat /\ (k * (4 * t)) * w \in Nat
    <3>1. k + 1 \in Nat
      BY <1>5
    <3>2. QED
      BY <1>1, <2>2, <3>1, Products
  <2>6. (k + 1) * w <= n
    BY ONLY <1>5, <2>1, <2>3, <2>5, n \in Nat
  <2>7. QED
    BY <1>3, <2>4, <2>6
<1>7. CASE ~(k > 0)
  <2> HIDE DEF k, t, w, pass, q
  <2>1. NbJobs(n) = Smaller(q + 1, w)
    BY <1>4, <1>5, <1>7
  <2>2. NbJobs(n) <= q + 1 /\ NbJobs(n) > 1
    BY <1>1, <1>3, <1>5, <2>1 DEF Smaller
  <2>3. q > 0
    BY <1>3, <1>5, <2>2
  <2>4. 2 * q <= t * q /\ t * q = q * t /\ q * t \in Nat
    <3>1. 2 \in Nat /\ 2 <= t
      BY <1>1
    <3>2. QED
      BY <1>1, <1>5, <3>1, Products
  <2>5. q + 1 <= n
    BY ONLY <1>5, <2>3, <2>4, n \in Nat
  <2>6. QED
    BY <1>3, <1>5, <2>2, <2>5
<1>8. QED
  BY <1>6, <1>7
-----------------------------------------------------------------------------
(* Steps of the workers *)

(* What is said of a job when it is prepared does not change. *)
Same(j, k) ==
  /\ k.frame = j.frame /\ k.jobID = j.jobID /\ k.user = j.user /\ k.src = j.src /\ k.prefix = j.prefix
  /\ k.from = j.from /\ k.lastJob = j.lastJob

LEMMA JobFailed ==
  ASSUME NEW j, IsJob(j), NEW k, k = [j EXCEPT !.error = TRUE]
  PROVE  /\ Same(j, k) /\ k.error = TRUE /\ k.out = j.out /\ k.consumed = j.consumed
         /\ k.dstFlushed = j.dstFlushed /\ k.frameChecksumNeeded = j.frameChecksumNeeded
BY DEF IsJob, Has, JobFields, Same

LEMMA JobReported ==
  ASSUME NEW j, IsJob(j), NEW x, NEW k, k = [j EXCEPT !.consumed = x]
  PROVE  /\ Same(j, k) /\ k.error = j.error /\ k.out = j.out /\ k.consumed = x
         /\ k.dstFlushed = j.dstFlushed /\ k.frameChecksumNeeded = j.frameChecksumNeeded
BY DEF IsJob, Has, JobFields, Same

LEMMA JobEnded ==
  ASSUME NEW j, IsJob(j), NEW x, NEW k, k = [j EXCEPT !.out = x]
  PROVE  /\ Same(j, k) /\ k.error = j.error /\ k.out = x /\ k.consumed = j.consumed
         /\ k.dstFlushed = j.dstFlushed /\ k.frameChecksumNeeded = j.frameChecksumNeeded
BY DEF IsJob, Has, JobFields, Same

LEMMA JobCompressed ==
  ASSUME NEW j, IsJob(j), NEW x, NEW y, NEW k, k = [j EXCEPT !.out = x, !.consumed = y]
  PROVE  /\ Same(j, k) /\ k.error = j.error /\ k.out = x /\ k.consumed = y
         /\ k.dstFlushed = j.dstFlushed /\ k.frameChecksumNeeded = j.frameChecksumNeeded
BY DEF IsJob, Has, JobFields, Same

LEMMA JobFlushed ==
  ASSUME NEW j, IsJob(j), NEW x, NEW y, NEW z,
         NEW k, k = [j EXCEPT !.out = x, !.dstFlushed = y, !.frameChecksumNeeded = z]
  PROVE  Same(j, k) /\ k.error = j.error /\ k.out = x /\ k.consumed = j.consumed /\ k.dstFlushed = y /\ k.frameChecksumNeeded = z
BY DEF IsJob, Has, JobFields, Same

LEMMA SetJobIs ==
  ASSUME AreJobs(jobs), NEW p, NEW k, jobs' = [jobs EXCEPT ![p] = k]
  PROVE  IsSequence(jobs') /\ Len(jobs') = Len(jobs) /\ \A i \in 1 .. Len(jobs) : jobs'[i] = IF i = p THEN k ELSE jobs[i]
<1>1. IsSequence(jobs) /\ jobs' = [jobs EXCEPT ![p] = k]
  BY DEF AreJobs
<1>2. /\ jobs' = [i \in DOMAIN jobs |-> jobs'[i]]
      /\ \A i \in DOMAIN jobs : jobs'[i] = IF i = p THEN k ELSE jobs[i]
  BY ONLY <1>1
<1>3. IsSequence(jobs') /\ Len(jobs') = Len(jobs) /\ DOMAIN jobs = 1 .. Len(jobs)
  BY ONLY <1>1, <1>2, SequenceSet
<1>4. QED
  BY ONLY <1>2, <1>3

LEMMA GotoIs ==
  ASSUME WorkerShapes, NEW w \in Workers, NEW to, Goto(w, to)
  PROVE  /\ worker' = [v \in Workers |-> worker'[v]]
         /\ \A v \in Workers : v # w => worker'[v] = worker[v]
         /\ Has(worker'[w], WorkerFields)
         /\ worker'[w].at = to /\ worker'[w].jobID = worker[w].jobID /\ worker'[w].frame = worker[w].frame
<1>1. worker = [v \in Workers |-> worker[v]] /\ Has(worker[w], WorkerFields)
  BY DEF WorkerShapes
<1>2. worker' = [worker EXCEPT ![w].at = to]
  BY DEF Goto
<1>3. worker'[w] = [worker[w] EXCEPT !.at = to] /\ \A v \in Workers : v # w => worker'[v] = worker[v]
  BY <1>1, <1>2
<1>4. worker' = [v \in Workers |-> worker'[v]]
  BY <1>1, <1>2
<1>5. QED
  BY <1>1, <1>3, <1>4 DEF Has, WorkerFields

LEMMA OwnersByWorkers ==
  ASSUME Owners, AllPosted, Begun, IsMt(mt), IsMain(main), Streaming => Count,
         UNCHANGED <<mt, main, fed, inBuff, frames>>, AreJobs(jobs'), Len(jobs') = Len(jobs),
         \A i \in 1 .. Len(jobs) : /\ jobs'[i].jobID = jobs[i].jobID /\ jobs'[i].frame = jobs[i].frame
                                   /\ Complete(jobs[i]) => Complete(jobs'[i]),
         NEW w \in Workers,
         \A i \in 1 .. Len(jobs) :
           ~Complete(jobs[i]) => ~Complete(jobs'[i]) \/ (w \in Active /\ w \notin Active' /\ i = At(worker[w].jobID)),
         \/ /\ queue' = queue /\ Active' \subseteq Active
            /\ \A v \in Active' : worker'[v].jobID = worker[v].jobID /\ worker'[v].frame = worker[v].frame
         \/ /\ queue # None /\ queue' = None /\ Active' \subseteq Active \cup {w} /\ w \notin Active
            /\ \A v \in Active : worker'[v].jobID = worker[v].jobID /\ worker'[v].frame = worker[v].frame
            /\ worker'[w].jobID = queue.jobID /\ worker'[w].frame = queue.frame
            /\ jobs' = jobs
  PROVE  Owners' /\ AllPosted' /\ Begun'
<1>1. /\ mt' = mt /\ frames' = frames /\ (AtOnce' <=> AtOnce) /\ Len(jobs) \in Nat
      /\ \A v \in Active : InHand(worker[v].jobID) /\ worker[v].frame = frames
      /\ queue # None => InHand(queue.jobID) /\ queue.frame = frames
      /\ \A u, v \in Active : u # v => worker[u].jobID # worker[v].jobID
      /\ queue # None => \A v \in Active : worker[v].jobID # queue.jobID
  BY DEF Owners, AtOnce, AreJobs, IsSequence
<1>2. ASSUME NEW id, InHand(id), ~Complete(jobs'[At(id)])
      PROVE  id \in Nat /\ id - mt'.doneJobID + 1 \in 1 .. Len(jobs') /\ (~AtOnce' => id < mt'.nextJobID)
             /\ ~Complete(jobs'[id - mt'.doneJobID + 1])
  BY <1>1, <1>2 DEF InHand, At
<1>3. \A i \in 1 .. Len(jobs') : jobs'[i].jobID = mt'.doneJobID + i - 1 /\ jobs'[i].frame = frames'
  BY <1>1 DEF Owners
<1>4. AllPosted'
  <2>1. main.job \in Nat /\ main.nbJobs \in Nat
    BY DEF IsMain
  <2>2. ASSUME AtOnce, main.at = "collect" PROVE \A i \in 1 .. main.job : Complete(jobs'[i])
    <3>1. Len(jobs) = main.nbJobs /\ main.job < main.nbJobs /\ \A i \in 1 .. main.job : Complete(jobs[i])
      BY <2>2 DEF AllPosted
    <3>2. \A i \in 1 .. main.job : i \in 1 .. Len(jobs)
      BY <2>1, <3>1
    <3>3. QED
      BY <3>1, <3>2
  <2>3. main' = main /\ fed' = fed
    OBVIOUS
  <2>4. QED
    BY <1>1, <2>2, <2>3 DEF AllPosted
<1>5. Begun'
  <2>1. ASSUME Streaming, mt.jobReady PROVE ~Complete(jobs'[Len(jobs')])
    <3>1. ~AtOnce
      BY <2>1 DEF Streaming, AtOnce
    <3>2. Len(jobs) = mt.nextJobID - mt.doneJobID + 1 /\ mt.doneJobID <= mt.nextJobID
      BY <2>1 DEF Count
    <3>3. mt.nextJobID \in Nat /\ mt.doneJobID \in Nat
      BY DEF IsMt
    <3>4. Len(jobs) \in 1 .. Len(jobs) /\ ~Complete(jobs[Len(jobs)])
      BY <1>1, <2>1, <3>2, <3>3 DEF Begun
    <3>5. ASSUME w \in Active PROVE Len(jobs) # At(worker[w].jobID)
      <4>1. worker[w].jobID \in Nat /\ worker[w].jobID < mt.nextJobID
        BY <1>1, <3>1, <3>5 DEF InHand
      <4>2. QED
        <5>1. At(worker[w].jobID) = worker[w].jobID - mt.doneJobID + 1
          BY DEF At
        <5>2. QED
          BY ONLY <3>2, <3>3, <4>1, <5>1
    <3>6. QED
      BY <3>4, <3>5
  <2>2. Streaming' <=> Streaming
    BY DEF Streaming, InFrame
  <2>3. mt' = mt /\ fed' = fed /\ inBuff' = inBuff
    OBVIOUS
  <2>4. QED
    BY <2>1, <2>2, <2>3 DEF Begun
<1>6. CASE /\ queue' = queue /\ Active' \subseteq Active
           /\ \A v \in Active' : worker'[v].jobID = worker[v].jobID /\ worker'[v].frame = worker[v].frame
  <2>1. ASSUME NEW v \in Active'
        PROVE  /\ InHand(worker[v].jobID) /\ ~Complete(jobs'[At(worker[v].jobID)]) /\ worker'[v].frame = frames'
               /\ worker'[v].jobID = worker[v].jobID
    <3>1. InHand(worker[v].jobID) /\ v \in Active /\ worker[v].frame = frames
      BY <1>1, <1>6, <2>1
    <3>2. At(worker[v].jobID) \in 1 .. Len(jobs) /\ ~Complete(jobs[At(worker[v].jobID)])
      BY <3>1 DEF InHand
    <3>3. ASSUME w \in Active, w \notin Active' PROVE At(worker[v].jobID) # At(worker[w].jobID)
      <4>1. v # w /\ worker[v].jobID # worker[w].jobID /\ worker[v].jobID \in Nat /\ worker[w].jobID \in Nat
        BY <1>1, <2>1, <3>1, <3>3 DEF InHand
      <4>2. At(worker[v].jobID) \in Int /\ At(worker[w].jobID) \in Int
        BY <1>1, <3>1, <3>3 DEF InHand
      <4>3. QED
        <5>1. mt.doneJobID \in Nat
          BY DEF IsMt
        <5>2. QED
          BY <4>1, <5>1 DEF At
    <3>4. ~Complete(jobs'[At(worker[v].jobID)])
      BY <3>2, <3>3
    <3>5. QED
      BY <1>1, <1>6, <2>1, <3>1, <3>4
  <2>2. ASSUME queue # None
        PROVE  InHand(queue.jobID) /\ ~Complete(jobs'[At(queue.jobID)])
    <3>1. InHand(queue.jobID)
      BY <1>1, <2>2
    <3>2. At(queue.jobID) \in 1 .. Len(jobs) /\ ~Complete(jobs[At(queue.jobID)])
      BY <3>1 DEF InHand
    <3>3. ASSUME w \in Active PROVE At(queue.jobID) # At(worker[w].jobID)
      <4>1. queue.jobID # worker[w].jobID /\ queue.jobID \in Nat /\ worker[w].jobID \in Nat
        BY <1>1, <2>2, <3>1, <3>3 DEF InHand
      <4>2. At(queue.jobID) \in Int /\ At(worker[w].jobID) \in Int
        BY <1>1, <3>1, <3>3 DEF InHand
      <4>3. QED
        <5>1. mt.doneJobID \in Nat
          BY DEF IsMt
        <5>2. QED
          BY <4>1, <5>1 DEF At
    <3>4. QED
      BY <3>1, <3>2, <3>3
  <2>3. \A v \in Active' : InHand(worker[v].jobID)' /\ worker'[v].frame = frames'
    BY <1>2, <2>1 DEF InHand, At
  <2>4. queue' # None => InHand(queue.jobID)' /\ queue'.frame = frames'
    BY <1>1, <1>2, <1>6, <2>2 DEF InHand, At
  <2>5. QED
    BY <1>1, <1>3, <1>4, <1>5, <1>6, <2>3, <2>4 DEF Owners
<1>7. CASE /\ queue # None /\ queue' = None /\ Active' \subseteq Active \cup {w} /\ w \notin Active
           /\ \A v \in Active : worker'[v].jobID = worker[v].jobID /\ worker'[v].frame = worker[v].frame
           /\ worker'[w].jobID = queue.jobID /\ worker'[w].frame = queue.frame
           /\ jobs' = jobs
  <2>1. ASSUME NEW id, InHand(id)
        PROVE  id \in Nat /\ id - mt'.doneJobID + 1 \in 1 .. Len(jobs') /\ (~AtOnce' => id < mt'.nextJobID)
               /\ ~Complete(jobs'[id - mt'.doneJobID + 1])
    BY <1>2, <1>7, <2>1 DEF InHand
  <2>2. \A v \in Active' : InHand(worker[v].jobID)' /\ worker'[v].frame = frames'
    BY <1>1, <1>7, <2>1 DEF InHand, At
  <2>3. \A u, v \in Active' : u # v => worker'[u].jobID # worker'[v].jobID
    BY <1>1, <1>7
  <2>4. QED
    BY <1>3, <1>4, <1>5, <1>7, <2>2, <2>3 DEF Owners
<1>8. QED
  BY <1>6, <1>7

(* What a step does to the job table: one job at most, and never what the  *)
(* job is about.                                                           *)
LEMMA WorkersKeepNames ==
  ASSUME AreJobs(jobs), NEW w \in Workers, Step(w) \/ Fails(w)
  PROVE  \A i \in 1 .. Len(jobs) :
           /\ Same(jobs[i], jobs'[i])
           /\ i # At(worker[w].jobID) => jobs'[i] = jobs[i]
           /\ ~Report(w) /\ ~Complete(jobs[i]) => ~Complete(jobs'[i])
<1> DEFINE p == At(worker[w].jobID)
<1>1. \A i \in 1 .. Len(jobs) : IsJob(jobs[i]) /\ Same(jobs[i], jobs[i])
  BY DEF AreJobs, Same
<1>2. p = Place(w) /\ Job(w) = jobs[p]
  BY DEF At, Place, Job
<1> HIDE DEF p
<1>3. ASSUME NEW k, SetJob(w, k), p \in 1 .. Len(jobs) => Same(jobs[p], k) /\ (~Report(w) /\ ~Complete(jobs[p]) => ~Complete(k))
      PROVE  \A i \in 1 .. Len(jobs) :
               /\ Same(jobs[i], jobs'[i])
               /\ i # p => jobs'[i] = jobs[i]
               /\ ~Report(w) /\ ~Complete(jobs[i]) => ~Complete(jobs'[i])
  <2>1. jobs' = [jobs EXCEPT ![p] = k]
    BY <1>2, <1>3 DEF SetJob
  <2>2. \A i \in 1 .. Len(jobs) : jobs'[i] = IF i = p THEN k ELSE jobs[i]
    BY <2>1, SetJobIs
  <2>3. QED
    BY <1>1, <1>3, <2>2
<1>4. CASE Take(w) \/ SerialUpdate(w) \/ GiveUpTurn(w) \/ Leave(w)
  <2>1. jobs' = jobs
    BY <1>4 DEF Take, SerialUpdate, GiveUpTurn, Leave
  <2>2. QED
    BY <1>1, <2>1 DEF p
<1>5. CASE CompressChunk(w)
  <2>1. \E x : SetJob(w, [jobs[p] EXCEPT !.out = x, !.consumed = jobs[p].consumed + 1])
    BY <1>2, <1>5 DEF CompressChunk
  <2>2. PICK x : SetJob(w, [jobs[p] EXCEPT !.out = x, !.consumed = jobs[p].consumed + 1])
    BY <2>1
  <2>3. jobs[p].consumed + 1 < jobs[p].src.size
    BY <1>2, <1>5 DEF CompressChunk
  <2> DEFINE k == [jobs[p] EXCEPT !.out = x, !.consumed = jobs[p].consumed + 1]
  <2>4. ASSUME p \in 1 .. Len(jobs) PROVE Same(jobs[p], k) /\ ~Complete(k)
    <3>1. IsJob(jobs[p])
      BY <1>1, <2>4
    <3>2. Same(jobs[p], k) /\ k.consumed = jobs[p].consumed + 1
      BY <3>1 DEF IsJob, Has, JobFields, Same
    <3>3. jobs[p].consumed \in Int /\ jobs[p].src.size \in Int
      BY <3>1 DEF IsJob, Ranges
    <3> HIDE DEF k
    <3>4. QED
      BY <2>3, <3>2, <3>3 DEF Same, Complete
  <2>5. SetJob(w, k)
    BY <2>2
  <2> HIDE DEF k
  <2>6. QED
    BY <1>3, <2>4, <2>5 DEF p
<1>6. CASE CompressLast(w)
  <2>1. \E x : SetJob(w, [jobs[p] EXCEPT !.out = x])
    BY <1>2, <1>6 DEF CompressLast
  <2>2. PICK x : SetJob(w, [jobs[p] EXCEPT !.out = x])
    BY <2>1
  <2> DEFINE k == [jobs[p] EXCEPT !.out = x]
  <2>3. ASSUME p \in 1 .. Len(jobs) PROVE Same(jobs[p], k) /\ (~Complete(jobs[p]) => ~Complete(k))
    <3>1. IsJob(jobs[p])
      BY <1>1, <2>3
    <3>2. Same(jobs[p], k) /\ k.consumed = jobs[p].consumed
      BY ONLY <3>1, JobEnded
    <3> HIDE DEF k
    <3>3. QED
      BY <3>2 DEF Same, Complete
  <2>4. SetJob(w, k)
    BY <2>2
  <2> HIDE DEF k
  <2>5. QED
    BY <1>3, <2>3, <2>4 DEF p
<1>7. CASE Fails(w)
  <2> DEFINE k == [jobs[p] EXCEPT !.error = TRUE]
  <2>1. SetJob(w, k)
    BY <1>2, <1>7 DEF Fails
  <2>2. ASSUME p \in 1 .. Len(jobs) PROVE Same(jobs[p], k) /\ (~Complete(jobs[p]) => ~Complete(k))
    <3>1. IsJob(jobs[p])
      BY <1>1, <2>2
    <3>2. Same(jobs[p], k) /\ k.consumed = jobs[p].consumed
      BY ONLY <3>1, JobFailed
    <3> HIDE DEF k
    <3>3. QED
      BY <3>2 DEF Same, Complete
  <2> HIDE DEF k
  <2>3. QED
    BY <1>3, <2>1, <2>2 DEF p
<1>8. CASE Report(w)
  <2> DEFINE k == [jobs[p] EXCEPT !.consumed = jobs[p].src.size]
  <2>1. SetJob(w, k)
    BY <1>2, <1>8 DEF Report
  <2>2. ASSUME p \in 1 .. Len(jobs) PROVE Same(jobs[p], k)
    <3>1. IsJob(jobs[p])
      BY <1>1, <2>2
    <3>2. QED
      BY ONLY <3>1, JobReported
  <2> HIDE DEF k
  <2>3. QED
    BY <1>3, <1>8, <2>1, <2>2 DEF p
<1>9. QED
  BY <1>4, <1>5, <1>6, <1>7, <1>8 DEF Step

LEMMA WorkerAt ==
  ASSUME WorkerShapes, NEW w \in Workers, NEW to, Goto(w, to), to \in {"chunks", "failed", "report", "leave"},
         worker[w].at \notin {"idle", "leave"}, UNCHANGED mt
  PROVE  /\ WorkerShapes' /\ w \in Active
         /\ Active' \subseteq Active /\ (to # "leave" => w \in Active')
         /\ (to = "leave" => w \notin Active')
         /\ \A v \in Active' : worker'[v].jobID = worker[v].jobID /\ worker'[v].frame = worker[v].frame
<1>1. /\ worker' = [v \in Workers |-> worker'[v]]
      /\ \A v \in Workers : v # w => worker'[v] = worker[v]
      /\ Has(worker'[w], WorkerFields)
      /\ worker'[w].at = to /\ worker'[w].jobID = worker[w].jobID /\ worker'[w].frame = worker[w].frame
  BY GotoIs
<1>2. WorkerShapes'
  BY <1>1 DEF WorkerShapes
<1>3. \A v \in Workers : worker'[v].jobID = worker[v].jobID /\ worker'[v].frame = worker[v].frame
  BY <1>1
<1>4. QED
  BY <1>1, <1>2, <1>3 DEF Active

LEMMA SomeIsIdle ==
  ASSUME WorkerShapes, Cardinality(Busy) < mt.nbWorkers
  PROVE  \E v \in Workers : worker[v].at = "idle"
<1>1. SUFFICES ASSUME \A v \in Workers : worker[v].at # "idle" PROVE FALSE
  OBVIOUS
<1>2. Busy = Workers
  BY <1>1 DEF Busy
<1>3. Cardinality(Workers) \in Nat
  BY WorkersAssumption, FS_CardinalityType
<1>4. QED
  BY <1>2, <1>3 DEF WorkerShapes

LEMMA OwnersStep ==
  ASSUME OwnersInv, IsMt(mt), IsMain(main), Streaming => Count, NEW w \in Workers, Step(w) \/ Fails(w)
  PROVE  OwnersInv'
<1>1. AreJobs(jobs) /\ WorkerShapes /\ Owners /\ AllPosted /\ Begun
  BY DEF OwnersInv, Owners
<1>2. UNCHANGED <<mt, main, fed, inBuff, frames>>
  BY DEF Step, Take, SerialUpdate, CompressChunk, CompressLast, GiveUpTurn, Report, Leave, Fails, MainRests, buffers
<1>3. AreJobs(jobs') /\ Len(jobs') = Len(jobs) /\ \A i \in 1 .. Len(jobs) : Complete(jobs[i]) => Complete(jobs'[i])
  BY <1>1, WorkersKeepJobs DEF Keeps
<1>4. \A i \in 1 .. Len(jobs) :
        /\ jobs'[i].jobID = jobs[i].jobID /\ jobs'[i].frame = jobs[i].frame
        /\ i # At(worker[w].jobID) => jobs'[i] = jobs[i]
        /\ ~Report(w) /\ ~Complete(jobs[i]) => ~Complete(jobs'[i])
  BY <1>1, WorkersKeepNames DEF Same
<1>5. \A i \in 1 .. Len(jobs) : /\ jobs'[i].jobID = jobs[i].jobID /\ jobs'[i].frame = jobs[i].frame
                                /\ Complete(jobs[i]) => Complete(jobs'[i])
  BY <1>3, <1>4
<1>b. Backed'
  BY <1>2, <1>3 DEF OwnersInv, Backed
<1>6. ASSUME NEW to, Goto(w, to), to \in {"chunks", "failed", "report", "leave"}, worker[w].at \notin {"idle", "leave"},
             queue' = queue, Report(w) => to = "leave"
      PROVE  OwnersInv'
  <2>1. /\ WorkerShapes' /\ w \in Active
        /\ Active' \subseteq Active /\ (to # "leave" => w \in Active')
        /\ (to = "leave" => w \notin Active')
        /\ \A v \in Active' : worker'[v].jobID = worker[v].jobID /\ worker'[v].frame = worker[v].frame
    BY <1>1, <1>2, <1>6, WorkerAt
  <2>2. \A i \in 1 .. Len(jobs) :
           ~Complete(jobs[i]) => ~Complete(jobs'[i]) \/ (w \in Active /\ w \notin Active' /\ i = At(worker[w].jobID))
    BY <1>4, <1>6, <2>1
  <2>3. Owners' /\ AllPosted' /\ Begun'
    BY <1>1, <1>2, <1>3, <1>5, <1>6, <2>1, <2>2, OwnersByWorkers
  <2>4. QED
    BY <2>1, <1>b, <2>3 DEF OwnersInv
<1>7. CASE Take(w)
  <2>1. queue # None /\ queue' = None /\ jobs' = jobs /\ worker[w].at = "idle"
        /\ worker' = [worker EXCEPT ![w] = [at |-> "serial", frame |-> queue.frame, jobID |-> queue.jobID]]
    <3>1. \E v \in Workers : worker[v].at = "idle"
      BY <1>1, <1>7, SomeIsIdle DEF Take
    <3>2. worker[w].at = "idle"
      BY <1>7, <3>1 DEF Take
    <3>3. QED
      BY <1>7, <3>2 DEF Take
  <2>2. /\ worker' = [v \in Workers |-> worker'[v]]
        /\ \A v \in Workers : v # w => worker'[v] = worker[v]
        /\ worker'[w] = [at |-> "serial", frame |-> queue.frame, jobID |-> queue.jobID]
    BY <1>1, <2>1 DEF WorkerShapes
  <2>3. queue.jobID \in Nat
    BY <1>1, <2>1 DEF Owners, InHand
  <2>4. WorkerShapes'
    BY <1>1, <1>2, <2>2, <2>3 DEF WorkerShapes, Has, WorkerFields
  <2>5. /\ w \notin Active /\ Active' \subseteq Active \cup {w}
        /\ \A v \in Active : worker'[v].jobID = worker[v].jobID /\ worker'[v].frame = worker[v].frame
        /\ worker'[w].jobID = queue.jobID /\ worker'[w].frame = queue.frame
    BY <2>1, <2>2 DEF Active
  <2>6. \A i \in 1 .. Len(jobs) :
           ~Complete(jobs[i]) => ~Complete(jobs'[i]) \/ (w \in Active /\ w \notin Active' /\ i = At(worker[w].jobID))
    BY <2>1
  <2>a. /\ queue # None /\ queue' = None /\ Active' \subseteq Active \cup {w} /\ w \notin Active
        /\ \A v \in Active : worker'[v].jobID = worker[v].jobID /\ worker'[v].frame = worker[v].frame
        /\ worker'[w].jobID = queue.jobID /\ worker'[w].frame = queue.frame
        /\ jobs' = jobs
    BY <2>1, <2>5
  <2>b. IsMt(mt) /\ IsMain(main) /\ w \in Workers /\ (Streaming => Count)
    OBVIOUS
  <2>7. Owners' /\ AllPosted' /\ Begun'
    BY ONLY <1>1, <1>2, <1>3, <1>5, <2>6, <2>a, <2>b, OwnersByWorkers
  <2>8. QED
    BY <2>4, <1>b, <2>7 DEF OwnersInv
<1>8. CASE SerialUpdate(w)
  BY <1>6, <1>8 DEF SerialUpdate, MainRests, Report
<1>9. CASE CompressChunk(w)
  <2>1. worker' = worker /\ queue' = queue
    BY <1>9 DEF CompressChunk, MainRests
  <2>2. WorkerShapes' /\ Active' = Active
    BY <1>1, <1>2, <2>1 DEF WorkerShapes, Active
  <2>3. ~Report(w)
    BY <1>9 DEF CompressChunk, Report
  <2>4. \A i \in 1 .. Len(jobs) :
           ~Complete(jobs[i]) => ~Complete(jobs'[i]) \/ (w \in Active /\ w \notin Active' /\ i = At(worker[w].jobID))
    BY <1>4, <2>3
  <2>5. /\ queue' = queue /\ Active' \subseteq Active
        /\ \A v \in Active' : worker'[v].jobID = worker[v].jobID /\ worker'[v].frame = worker[v].frame
    BY <2>1, <2>2
  <2>6. Owners' /\ AllPosted' /\ Begun'
    BY <1>1, <1>2, <1>3, <1>5, <2>4, <2>5, OwnersByWorkers
  <2>7. QED
    BY <2>2, <1>b, <2>6 DEF OwnersInv
<1>10. CASE CompressLast(w)
  BY <1>6, <1>10 DEF CompressLast, MainRests, Report
<1>11. CASE GiveUpTurn(w)
  BY <1>6, <1>11 DEF GiveUpTurn, MainRests, Report
<1>12. CASE Report(w)
  BY <1>6, <1>12 DEF MainRests, Report
<1>13. CASE Leave(w)
  <2>1. worker[w].at = "leave" /\ worker' = [worker EXCEPT ![w] = Idle] /\ queue' = queue /\ jobs' = jobs
    BY <1>13 DEF Leave, MainRests
  <2>2. /\ worker' = [v \in Workers |-> worker'[v]]
        /\ \A v \in Workers : v # w => worker'[v] = worker[v]
        /\ worker'[w] = Idle
    BY <1>1, <2>1 DEF WorkerShapes
  <2>3. WorkerShapes'
    BY <1>1, <1>2, <2>2 DEF WorkerShapes, Has, WorkerFields, Idle
  <2>4. /\ queue' = queue /\ Active' \subseteq Active
        /\ \A v \in Active' : worker'[v].jobID = worker[v].jobID /\ worker'[v].frame = worker[v].frame
    BY <2>1, <2>2 DEF Active, Idle
  <2>5. \A i \in 1 .. Len(jobs) :
           ~Complete(jobs[i]) => ~Complete(jobs'[i]) \/ (w \in Active /\ w \notin Active' /\ i = At(worker[w].jobID))
    BY <2>1
  <2>6. Owners' /\ AllPosted' /\ Begun'
    BY <1>1, <1>2, <1>3, <1>5, <2>4, <2>5, OwnersByWorkers
  <2>7. QED
    BY <2>3, <1>b, <2>6 DEF OwnersInv
<1>14. CASE Fails(w)
  BY <1>6, <1>14 DEF Fails, MainRests, Report
<1>15. QED
  BY <1>7, <1>8, <1>9, <1>10, <1>11, <1>12, <1>13, <1>14 DEF Step
-----------------------------------------------------------------------------
(* Jobs that come and go *)

Posts(id) ==
  /\ queue' = [frame |-> frames, jobID |-> id]
  /\ id \in Nat /\ id - mt.doneJobID + 1 \in 1 .. Len(jobs') /\ ~Complete(jobs'[id - mt.doneJobID + 1])
  /\ ~AtOnce => id < mt'.nextJobID
  /\ \A w \in Active : worker[w].jobID # id

LEMMA OwnersGrow ==
  ASSUME Owners, IsMt(mt), IsMt(mt'), mt'.doneJobID = mt.doneJobID, mt.nextJobID <= mt'.nextJobID,
         AtOnce' <=> AtOnce, worker' = worker, frames' = frames,
         AreJobs(jobs'), Len(jobs) <= Len(jobs'),
         \A i \in 1 .. Len(jobs') : jobs'[i].jobID = mt.doneJobID + i - 1 /\ jobs'[i].frame = frames,
         \A i \in 1 .. Len(jobs) : ~Complete(jobs[i]) => ~Complete(jobs'[i]),
         queue' = queue \/ \E id : Posts(id)
  PROVE  Owners'
<1>1. /\ Active' = Active /\ Len(jobs) \in Nat /\ Len(jobs') \in Nat
      /\ \A v \in Active : InHand(worker[v].jobID) /\ worker[v].frame = frames
      /\ queue # None => InHand(queue.jobID) /\ queue.frame = frames
      /\ \A u, v \in Active : u # v => worker[u].jobID # worker[v].jobID
      /\ queue # None => \A v \in Active : worker[v].jobID # queue.jobID
      /\ mt.doneJobID \in Nat /\ mt.nextJobID \in Nat /\ mt'.nextJobID \in Nat
  BY DEF Owners, Active, AreJobs, IsSequence, IsMt
<1>2. ASSUME NEW id, InHand(id)
      PROVE  id \in Nat /\ id - mt'.doneJobID + 1 \in 1 .. Len(jobs') /\ (~AtOnce' => id < mt'.nextJobID)
             /\ ~Complete(jobs'[id - mt'.doneJobID + 1])
  <2>1. id \in Nat /\ id - mt.doneJobID + 1 \in 1 .. Len(jobs) /\ (~AtOnce => id < mt.nextJobID)
        /\ ~Complete(jobs[id - mt.doneJobID + 1])
    BY <1>2 DEF InHand, At
  <2>2. id - mt'.doneJobID + 1 \in 1 .. Len(jobs')
    BY <1>1, <2>1
  <2>3. ~AtOnce' => id < mt'.nextJobID
    BY <1>1, <2>1
  <2>4. QED
    BY <2>1, <2>2, <2>3
<1>3. \A v \in Active' : InHand(worker[v].jobID)' /\ worker'[v].frame = frames'
  BY <1>1, <1>2 DEF InHand, At
<1>4. \A i \in 1 .. Len(jobs') : jobs'[i].jobID = mt'.doneJobID + i - 1 /\ jobs'[i].frame = frames'
  OBVIOUS
<1>5. CASE queue' = queue
  <2>1. queue' # None => InHand(queue.jobID)' /\ queue'.frame = frames'
    BY <1>1, <1>2, <1>5 DEF InHand, At
  <2>2. QED
    BY <1>1, <1>3, <1>4, <1>5, <2>1 DEF Owners
<1>6. CASE \E id : Posts(id)
  <2>1. PICK id : Posts(id)
    BY <1>6
  <2>2. queue'.jobID = id /\ queue'.frame = frames
    BY <2>1 DEF Posts
  <2>3. InHand(queue.jobID)' /\ queue'.frame = frames'
    BY <2>1, <2>2 DEF InHand, At, Posts
  <2>4. \A v \in Active' : worker'[v].jobID # queue'.jobID
    BY <1>1, <2>1, <2>2 DEF Posts
  <2>5. QED
    BY <1>1, <1>3, <1>4, <2>3, <2>4 DEF Owners
<1>7. QED
  BY <1>5, <1>6

(* The first job leaves the table when it is complete. *)
LEMMA OwnersPop ==
  ASSUME Owners, IsMt(mt), IsMt(mt'), mt'.doneJobID = mt.doneJobID + 1, mt'.nextJobID = mt.nextJobID,
         AtOnce' <=> AtOnce, worker' = worker, frames' = frames, queue' = queue, Len(jobs) > 0, Complete(jobs[1]),
         IsSequence(jobs'), Len(jobs') = Len(jobs) - 1, \A i \in 1 .. Len(jobs) - 1 : jobs'[i] = jobs[i + 1]
  PROVE  Owners'
<1>1. /\ Active' = Active /\ Len(jobs) \in Nat
      /\ \A v \in Active : InHand(worker[v].jobID) /\ worker[v].frame = frames
      /\ queue # None => InHand(queue.jobID) /\ queue.frame = frames
      /\ \A u, v \in Active : u # v => worker[u].jobID # worker[v].jobID
      /\ queue # None => \A v \in Active : worker[v].jobID # queue.jobID
      /\ mt.doneJobID \in Nat /\ mt.nextJobID \in Nat
      /\ \A i \in 1 .. Len(jobs) : IsJob(jobs[i]) /\ jobs[i].jobID = mt.doneJobID + i - 1 /\ jobs[i].frame = frames
  BY DEF Owners, Active, AreJobs, IsSequence, IsMt
<1>2. ASSUME NEW id, InHand(id)
      PROVE  id \in Nat /\ id - mt'.doneJobID + 1 \in 1 .. Len(jobs') /\ (~AtOnce' => id < mt'.nextJobID)
             /\ ~Complete(jobs'[id - mt'.doneJobID + 1])
  <2>1. id \in Nat /\ id - mt.doneJobID + 1 \in 1 .. Len(jobs) /\ (~AtOnce => id < mt.nextJobID)
        /\ ~Complete(jobs[id - mt.doneJobID + 1])
    BY <1>2 DEF InHand, At
  <2>2. id - mt.doneJobID + 1 # 1
    BY <2>1
  <2>3. id - mt'.doneJobID + 1 \in 1 .. Len(jobs) - 1 /\ id - mt'.doneJobID + 1 + 1 = id - mt.doneJobID + 1
    <3>1. mt'.doneJobID = mt.doneJobID + 1 /\ mt.doneJobID \in Nat /\ Len(jobs) \in Nat
      BY <1>1
    <3>2. id \in Nat /\ id - mt.doneJobID + 1 \in 1 .. Len(jobs)
      BY <2>1
    <3>3. QED
      BY ONLY SMTT(30), <2>2, <3>1, <3>2
  <2>4. jobs'[id - mt'.doneJobID + 1] = jobs[id - mt.doneJobID + 1]
    BY <2>3
  <2>5. QED
    BY <2>1, <2>3, <2>4
<1>3. \A v \in Active' : InHand(worker[v].jobID)' /\ worker'[v].frame = frames'
  BY <1>1, <1>2 DEF InHand, At
<1>4. queue' # None => InHand(queue.jobID)' /\ queue'.frame = frames'
  BY <1>1, <1>2 DEF InHand, At
<1>5. \A i \in 1 .. Len(jobs') : i + 1 \in 1 .. Len(jobs) /\ jobs'[i] = jobs[i + 1]
  BY <1>1
<1>6. \A i \in 1 .. Len(jobs') : IsJob(jobs'[i]) /\ jobs'[i].jobID = mt'.doneJobID + i - 1 /\ jobs'[i].frame = frames'
  <2> TAKE i \in 1 .. Len(jobs')
  <2>1. mt.doneJobID + (i + 1) - 1 = mt'.doneJobID + i - 1
    BY <1>1
  <2>2. QED
    BY <1>1, <1>5, <2>1
<1>7. AreJobs(jobs')
  BY <1>6 DEF AreJobs
<1>8. QED
  BY <1>1, <1>3, <1>4, <1>6, <1>7 DEF Owners

(* With no job there is nobody who has one. *)
LEMMA NobodyHas ==
  ASSUME Owners, jobs = <<>> \/ \A i \in 1 .. Len(jobs) : Complete(jobs[i])
  PROVE  Active = {} /\ queue = None
<1>1. \A id : ~InHand(id)
  <2>1. Len(<<>>) = 0 /\ 1 .. 0 = {}
    OBVIOUS
  <2>2. QED
    BY <2>1 DEF InHand
<1>2. QED
  BY <1>1 DEF Owners

LEMMA OwnersNone ==
  ASSUME Active = {}, queue = None, worker' = worker, queue' = queue, jobs' = <<>>
  PROVE  Owners'
<1>1. Active' = {} /\ queue' = None
  BY DEF Active
<1>2. AreJobs(jobs') /\ Len(jobs') = 0
  BY EmptySequence DEF AreJobs
<1>3. 1 .. 0 = {}
  OBVIOUS
<1>4. QED
  BY <1>1, <1>2, <1>3 DEF Owners
-----------------------------------------------------------------------------
(* Steps of the caller *)

LEMMA OrderlyMeans ==
  ASSUME Orderly, IsMain(main)
  PROVE  "emptyFrame" \notin bound.habits /\ "restartReady" \notin bound.habits /\ "resize" \notin bound.habits
<1>1. bound \in Instances
  BY DEF IsMain, bound
<1>2. bound.habits \subseteq {"restart"}
  BY <1>1 DEF Orderly
<1>3. QED
  BY <1>2

LEMMA MtAdvances ==
  ASSUME NEW m, IsMt(m), NEW k, k = Advance(m)
  PROVE  /\ IsMt(k) /\ k.doneJobID = m.doneJobID /\ k.nextJobID = m.nextJobID + 1 /\ k.jobReady = FALSE
         /\ k.frameEnded = m.frameEnded /\ k.allJobsCompleted = m.allJobsCompleted
         /\ k.nbWorkers = m.nbWorkers
<1>1. Advance(m).nbWorkers = m.nbWorkers
  BY DEF IsMt, Has, MtFields, Advance
<1>2. QED
  BY <1>1, MtAdvance

LEMMA MtReady ==
  ASSUME NEW m, IsMt(m), NEW k, k = [m EXCEPT !.jobReady = TRUE]
  PROVE  /\ IsMt(k) /\ k.doneJobID = m.doneJobID /\ k.nextJobID = m.nextJobID /\ k.jobReady = TRUE
         /\ k.frameEnded = m.frameEnded /\ k.allJobsCompleted = m.allJobsCompleted
         /\ k.nbWorkers = m.nbWorkers
BY DEF IsMt, Has, MtFields

LEMMA MtEnds ==
  ASSUME NEW m, IsMt(m), NEW x \in BOOLEAN, NEW k, k = [m EXCEPT !.frameEnded = x]
  PROVE  /\ IsMt(k) /\ k.doneJobID = m.doneJobID /\ k.nextJobID = m.nextJobID /\ k.jobReady = m.jobReady
         /\ k.frameEnded = x /\ k.allJobsCompleted = m.allJobsCompleted
         /\ k.nbWorkers = m.nbWorkers
BY DEF IsMt, Has, MtFields

LEMMA NewJobSays ==
  ASSUME NEW b \in Sections, NEW p \in Int, NEW op, fed' \in Int
  PROVE  LET j == NewJob(b, p, op)
         IN /\ IsJob(j) /\ j.frame = frames /\ j.jobID = mt.nextJobID /\ j.user = FALSE /\ j.src.size = b.filled
            /\ j.from = fed' - b.filled + 1 /\ j.consumed = 0 /\ j.error = FALSE /\ j.dstFlushed = 0
            /\ j.out = IF EmptyLast(b) THEN <<LastBlock>> ELSE <<>>
            /\ (j.lastJob \in BOOLEAN /\ j.frameChecksumNeeded \in BOOLEAN)
            /\ (j.lastJob <=> op = "end") /\ (j.frameChecksumNeeded <=> (op = "end" /\ mt.nextJobID > 0))
<1> DEFINE j == NewJob(b, p, op)
<1>1. IsJob(j)
  BY NewJobIs
<1>2. /\ j.frame = frames /\ j.jobID = mt.nextJobID /\ j.user = FALSE /\ j.src.size = b.filled
      /\ j.from = fed' - b.filled + 1 /\ j.consumed = 0 /\ j.error = FALSE /\ j.dstFlushed = 0
      /\ j.out = IF EmptyLast(b) THEN <<LastBlock>> ELSE <<>>
      /\ j.lastJob = (op = "end") /\ j.frameChecksumNeeded = (op = "end" /\ mt.nextJobID > 0)
  BY DEF NewJob
<1>3. QED
  BY <1>1, <1>2

(* A job is prepared: an empty last one is complete at once, and the pool  *)
(* takes another if it has room.                                           *)
LEMMA PrepareIs ==
  ASSUME IsMt(mt), NEW b, NEW p, NEW op, Prepare(b, p, op)
  PROVE  /\ IsMt(mt') /\ mt'.doneJobID = mt.doneJobID /\ mt'.allJobsCompleted = mt.allJobsCompleted
         /\ mt'.nbWorkers = mt.nbWorkers /\ mt'.frameEnded = (mt.frameEnded \/ op = "end")
         /\ jobs' = Append(jobs, NewJob(b, p, op)) /\ inBuff'.filled = 0
         /\ \/ EmptyLast(b) /\ mt'.nextJobID = mt.nextJobID + 1 /\ mt'.jobReady = FALSE /\ queue' = queue
            \/ ~EmptyLast(b) /\ mt'.nextJobID = mt.nextJobID /\ mt'.jobReady = TRUE /\ queue' = queue
            \/ ~EmptyLast(b) /\ mt'.nextJobID = mt.nextJobID + 1 /\ mt'.jobReady = FALSE /\ Post(mt.nextJobID)
<1> DEFINE m == [mt EXCEPT !.frameEnded = @ \/ op = "end"]
<1>1. IsMt(m) /\ m.doneJobID = mt.doneJobID /\ m.nextJobID = mt.nextJobID /\ m.jobReady = mt.jobReady
      /\ m.frameEnded = (mt.frameEnded \/ op = "end") /\ m.allJobsCompleted = mt.allJobsCompleted
      /\ m.nbWorkers = mt.nbWorkers
  <2> DEFINE x == mt.frameEnded \/ op = "end"
  <2>1. x \in BOOLEAN
    OBVIOUS
  <2>2. m = [mt EXCEPT !.frameEnded = x]
    OBVIOUS
  <2> HIDE DEF m, x
  <2>3. /\ IsMt(m) /\ m.doneJobID = mt.doneJobID /\ m.nextJobID = mt.nextJobID /\ m.jobReady = mt.jobReady
        /\ m.frameEnded = x /\ m.allJobsCompleted = mt.allJobsCompleted
        /\ m.nbWorkers = mt.nbWorkers
    BY ONLY <2>1, <2>2, MtEnds, IsMt(mt)
  <2>4. QED
    BY <2>3 DEF x
<1>2. /\ jobs' = Append(jobs, NewJob(b, p, op)) /\ inBuff'.filled = 0
      /\ \/ EmptyLast(b) /\ mt' = Advance(m) /\ queue' = queue
         \/ ~EmptyLast(b) /\ mt' = [m EXCEPT !.jobReady = TRUE] /\ queue' = queue
         \/ ~EmptyLast(b) /\ mt' = Advance(m) /\ Post(mt.nextJobID)
  BY DEF Prepare, NoSection
<1> HIDE DEF m
<1>3. CASE EmptyLast(b) /\ mt' = Advance(m) /\ queue' = queue
  <2>1. /\ IsMt(mt') /\ mt'.doneJobID = m.doneJobID /\ mt'.nextJobID = m.nextJobID + 1 /\ mt'.jobReady = FALSE
        /\ mt'.frameEnded = m.frameEnded /\ mt'.allJobsCompleted = m.allJobsCompleted
        /\ mt'.nbWorkers = m.nbWorkers
    BY ONLY <1>1, <1>3, MtAdvances
  <2>2. QED
    BY <1>1, <1>2, <1>3, <2>1
<1>4. CASE ~EmptyLast(b) /\ mt' = [m EXCEPT !.jobReady = TRUE] /\ queue' = queue
  <2>1. /\ IsMt(mt') /\ mt'.doneJobID = m.doneJobID /\ mt'.nextJobID = m.nextJobID /\ mt'.jobReady = TRUE
        /\ mt'.frameEnded = m.frameEnded /\ mt'.allJobsCompleted = m.allJobsCompleted
        /\ mt'.nbWorkers = m.nbWorkers
    BY ONLY ZenonT(40), <1>1, <1>4, MtReady
  <2>2. QED
    BY <1>1, <1>2, <1>4, <2>1
<1>5. CASE ~EmptyLast(b) /\ mt' = Advance(m) /\ Post(mt.nextJobID)
  <2>1. /\ IsMt(mt') /\ mt'.doneJobID = m.doneJobID /\ mt'.nextJobID = m.nextJobID + 1 /\ mt'.jobReady = FALSE
        /\ mt'.frameEnded = m.frameEnded /\ mt'.allJobsCompleted = m.allJobsCompleted
        /\ mt'.nbWorkers = m.nbWorkers
    BY ONLY ZenonT(40), <1>1, <1>5, MtAdvances
  <2>2. QED
    BY <1>1, <1>2, <1>5, <2>1
<1>6. QED
  BY <1>2, <1>3, <1>4, <1>5

LEMMA CreateIs ==
  ASSUME NEW b, NEW p, NEW op, CreateIfNeeded(b, p, op)
  PROVE  \/ mt' = mt /\ jobs' = jobs /\ queue' = queue /\ inBuff' = b
         \/ mt.jobReady /\ mt' = Advance(mt) /\ jobs' = jobs /\ Post(mt.nextJobID) /\ inBuff' = b
         \/ ~mt.jobReady /\ Needed(b, op) /\ Prepare(b, p, op)
BY DEF CreateIfNeeded, Create, PostReady

LEMMA CallIsMain ==
  ASSUME IsMain(main), NEW op \in Orders, NEW goes \in Orders, NEW left \in Nat, NEW room, NEW progress,
         ToFlush(op, goes, room, progress, left)
  PROVE  /\ IsMain(main') /\ main'.at = "flush" /\ main'.order = op /\ main'.op = goes /\ main'.left = left
         /\ main'.said = main.said /\ main'.room = room /\ bound' = bound
         /\ main'.job = main.job /\ main'.failed = main.failed
BY DEF ToFlush, IsMain, Has, MainFields, Places, bound

(* In the middle of a frame a call makes a job that has something to read, *)
(* or an empty last one, which nobody is given.                            *)
LEMMA CallJob ==
  ASSUME InputInv, OwnersInv, Orderly, Streaming, NEW b \in Sections, NEW p \in Int, NEW op \in Orders, NEW goes \in Orders,
         NEW left \in Nat, NEW room, NEW progress, CallOf(op, room, b, p, goes, left, progress),
         ~mt.jobReady, Needed(b, goes), ~EmptyLast(b)
  PROVE  b.filled > 0
<1>1. IsMain(main) /\ IsMt(mt) /\ inBuff \in Sections /\ fed \in Nat
  BY DEF InputInv, Shapes
<1>2. b.filled \in Int /\ inBuff.filled \in Int /\ fed' \in Nat /\ fed' - b.filled = fed - inBuff.filled /\ b.filled >= 0
  BY <1>1 DEF Sections, CallOf, Layout, SectionOK
<1>3. goes = "end" => fed' > 0
  BY <1>1, OrderlyMeans DEF CallOf
<1>4. SUFFICES ASSUME b.filled = 0 PROVE FALSE
  BY <1>2
<1>5. goes = "end"
  BY <1>4, SizesAssumption DEF Needed
<1>6. mt.nextJobID = 0
  BY <1>1, <1>4 DEF EmptyLast, IsMt
<1>7. fed = inBuff.filled
  BY <1>6 DEF OwnersInv, Begun
<1>8. QED
  BY <1>1, <1>2, <1>3, <1>4, <1>5, <1>7

LEMMA WorkersRest ==
  ASSUME WorkerShapes, worker' = worker, mt'.nbWorkers = mt.nbWorkers
  PROVE  WorkerShapes'
BY DEF WorkerShapes

LEMMA CallOwners ==
  ASSUME InputInv, OwnersInv, Orderly, Streaming, NEW b \in Sections, NEW p \in Int, NEW op \in Orders, NEW goes \in Orders,
         NEW left \in Nat, NEW room, NEW progress, CallOf(op, room, b, p, goes, left, progress),
         worker' = worker, frames' = frames
  PROVE  OwnersInv'
<1>1. IsMain(main) /\ IsMt(mt) /\ inBuff \in Sections /\ fed \in Nat /\ AreJobs(jobs) /\ Count
  BY StreamingHas DEF Shapes
<1>2. /\ main'.at = "flush" /\ main'.said = main.said /\ Streaming'
  BY <1>1, CallIsMain DEF CallOf, Streaming, InFrame
<1>3. ~AtOnce /\ ~AtOnce' /\ AllPosted'
  BY <1>1, <1>2, CallIsMain DEF CallOf, AtOnce, Streaming, AllPosted, OwnersInv
<1>4. /\ fed' \in Nat /\ fed' - b.filled = fed - inBuff.filled /\ b.filled \in Int /\ inBuff.filled \in Int
      /\ CreateIfNeeded(b, p, goes)
  BY <1>1 DEF Sections, CallOf
<1>5. /\ Owners /\ Begun /\ WorkerShapes /\ Len(jobs) \in Nat /\ IsSequence(jobs)
      /\ \A i \in 1 .. Len(jobs) : IsJob(jobs[i]) /\ jobs[i].jobID = mt.doneJobID + i - 1 /\ jobs[i].frame = frames
  BY <1>1 DEF OwnersInv, Owners, AreJobs, IsSequence
<1>6. /\ mt.doneJobID \in Nat /\ mt.nextJobID \in Nat /\ mt.doneJobID <= mt.nextJobID
      /\ Len(jobs) = mt.nextJobID - mt.doneJobID + (IF mt.jobReady THEN 1 ELSE 0)
  BY <1>1 DEF IsMt, Count
<1>b. Backed'
  <2>1. Count'
    BY <1>2, CallKeeps DEF InputInv, StreamInv
  <2>2. IsMt(mt)' /\ IsMt(mt')
    BY CallKeeps DEF InputInv, Shapes
  <2>3. mt'.nextJobID \in Nat /\ mt'.doneJobID \in Nat
    BY <2>2 DEF IsMt
  <2>4. Len(jobs') = mt'.nextJobID - mt'.doneJobID + (IF mt'.jobReady THEN 1 ELSE 0)
    BY <2>1 DEF Count
  <2>5. mt'.nextJobID - mt'.doneJobID <= Len(jobs')
    BY ONLY <2>3, <2>4
  <2>6. QED
    BY <2>5 DEF Backed
<1>7. \A w \in Active : worker[w].jobID # mt.nextJobID
  <2> TAKE w \in Active
  <2>1. worker[w].jobID \in Nat /\ worker[w].jobID < mt.nextJobID
    BY <1>3, <1>5 DEF Owners, InHand
  <2>2. QED
    BY ONLY <1>6, <2>1
<1>8. mt.nextJobID = 0 /\ ~mt.jobReady => fed = inBuff.filled
  BY <1>5 DEF Begun
<1>9. CASE mt' = mt /\ jobs' = jobs /\ queue' = queue /\ inBuff' = b
  <2>1. Owners'
    BY <1>1, <1>3, <1>5, <1>6, <1>9, OwnersGrow
  <2>2. Begun'
    <3>1. mt'.nextJobID = 0 /\ ~mt'.jobReady => fed' = inBuff'.filled
      BY <1>1, <1>4, <1>8, <1>9
    <3>2. QED
      BY <1>5, <1>9, <3>1 DEF Begun
  <2>3. WorkerShapes'
    BY <1>5, <1>9, WorkersRest
  <2>4. QED
    BY <1>3, <1>b, <2>1, <2>2, <2>3 DEF OwnersInv
<1>10. CASE mt.jobReady /\ mt' = Advance(mt) /\ jobs' = jobs /\ Post(mt.nextJobID) /\ inBuff' = b
  <2>1. IsMt(mt') /\ mt'.doneJobID = mt.doneJobID /\ mt'.nextJobID = mt.nextJobID + 1 /\ mt'.jobReady = FALSE
        /\ mt'.nbWorkers = mt.nbWorkers
    BY <1>1, <1>10, MtAdvances
  <2>2. ~Complete(jobs[Len(jobs)])
    BY <1>5, <1>10 DEF Begun
  <2>3. mt.nextJobID - mt.doneJobID + 1 = Len(jobs) /\ Len(jobs) \in 1 .. Len(jobs) /\ mt.nextJobID < mt'.nextJobID
    BY ONLY <1>5, <1>6, <1>10, <2>1
  <2>4. Posts(mt.nextJobID)
    BY <1>6, <1>7, <1>10, <2>2, <2>3 DEF Posts, Post
  <2>5. Owners'
    BY <1>1, <1>3, <1>5, <1>6, <1>10, <2>1, <2>3, <2>4, OwnersGrow
  <2>6. Begun'
    BY <1>6, <2>1 DEF Begun
  <2>7. WorkerShapes'
    BY <1>5, <2>1, WorkersRest
  <2>8. QED
    BY <1>3, <1>b, <2>5, <2>6, <2>7 DEF OwnersInv
<1>11. CASE ~mt.jobReady /\ Needed(b, goes) /\ Prepare(b, p, goes)
  <2> DEFINE j == NewJob(b, p, goes)
  <2>1. IsJob(j) /\ j.frame = frames /\ j.jobID = mt.nextJobID /\ j.consumed = 0 /\ j.src.size = b.filled
    <3>1. fed' \in Int
      BY <1>4
    <3>3. IsJob(j) /\ j.consumed = 0
      BY <3>1, NewJobIs
    <3>4. j.frame = frames
      BY ZenonT(40), <3>1, NewJobSays
    <3>5. j.jobID = mt.nextJobID
      BY ZenonT(40), <3>1, NewJobSays
    <3>6. j.src.size = b.filled
      BY ZenonT(40), <3>1, NewJobSays
    <3>2. QED
      BY <3>3, <3>4, <3>5, <3>6
  <2>2. /\ IsMt(mt') /\ mt'.doneJobID = mt.doneJobID /\ mt'.nbWorkers = mt.nbWorkers
        /\ jobs' = Append(jobs, j)
        /\ \/ EmptyLast(b) /\ mt'.nextJobID = mt.nextJobID + 1 /\ mt'.jobReady = FALSE /\ queue' = queue
           \/ ~EmptyLast(b) /\ mt'.nextJobID = mt.nextJobID /\ mt'.jobReady = TRUE /\ queue' = queue
           \/ ~EmptyLast(b) /\ mt'.nextJobID = mt.nextJobID + 1 /\ mt'.jobReady = FALSE /\ Post(mt.nextJobID)
    BY <1>1, <1>11, PrepareIs
  <2>3. ~EmptyLast(b) => b.filled > 0
    BY <1>11, CallJob
  <2> HIDE DEF j
  <2>4. ~EmptyLast(b) => ~Complete(j)
    BY <1>4, <2>1, <2>3 DEF Complete
  <2>5. /\ IsSequence(jobs') /\ Len(jobs') = Len(jobs) + 1 /\ jobs'[Len(jobs) + 1] = j
        /\ \A i \in 1 .. Len(jobs) : jobs'[i] = jobs[i]
    BY ONLY <1>5, <2>2, SequenceAppend
  <2>6. \A i \in 1 .. Len(jobs') : IsJob(jobs'[i]) /\ jobs'[i].jobID = mt.doneJobID + i - 1 /\ jobs'[i].frame = frames
    <3> TAKE i \in 1 .. Len(jobs')
    <3>1. CASE i \in 1 .. Len(jobs)
      BY <1>5, <2>5, <3>1
    <3>2. CASE i \notin 1 .. Len(jobs)
      <4>1. i = Len(jobs) + 1 /\ mt.doneJobID + i - 1 = mt.nextJobID
        <5>1. Len(jobs) \in Nat /\ Len(jobs') = Len(jobs) + 1 /\ Len(jobs) = mt.nextJobID - mt.doneJobID
          BY <1>5, <1>6, <1>11, <2>5
        <5>2. QED
          BY ONLY <1>6, <3>2, <5>1, i \in 1 .. Len(jobs')
      <4>2. QED
        BY <2>1, <2>5, <4>1
    <3>3. QED
      BY <3>1, <3>2
  <2>7. AreJobs(jobs')
    BY <2>5, <2>6 DEF AreJobs
  <2>8. mt.nextJobID - mt.doneJobID + 1 = Len(jobs') /\ Len(jobs') \in 1 .. Len(jobs') /\ Len(jobs) <= Len(jobs')
    BY ONLY <1>5, <1>6, <1>11, <2>5
  <2>9. mt.nextJobID <= mt'.nextJobID
    BY ONLY <1>6, <2>2
  <2>10. queue' = queue \/ Posts(mt.nextJobID)
    <3>1. ASSUME ~EmptyLast(b), mt'.nextJobID = mt.nextJobID + 1, Post(mt.nextJobID) PROVE Posts(mt.nextJobID)
      <4>1. mt.nextJobID < mt'.nextJobID
        BY ONLY <1>6, <3>1
      <4>2. ~Complete(jobs'[mt.nextJobID - mt.doneJobID + 1])
        BY <2>4, <2>5, <2>8, <3>1
      <4>3. QED
        BY <1>6, <1>7, <2>8, <3>1, <4>1, <4>2 DEF Posts, Post
    <3>2. QED
      BY <2>2, <3>1
  <2>11. \A i \in 1 .. Len(jobs) : ~Complete(jobs[i]) => ~Complete(jobs'[i])
    BY <2>5
  <2>12. Owners'
    BY <1>1, <1>3, <1>5, <2>2, <2>6, <2>7, <2>8, <2>9, <2>10, <2>11, OwnersGrow
  <2>13. Begun'
    <3>1. mt'.jobReady => ~Complete(jobs'[Len(jobs')])
      BY <2>2, <2>4, <2>5
    <3>2. ~(mt'.nextJobID = 0 /\ ~mt'.jobReady)
      BY <1>6, <2>2
    <3>3. QED
      BY <3>1, <3>2 DEF Begun
  <2>14. WorkerShapes'
    BY <1>5, <2>2, WorkersRest
  <2>15. QED
    BY <1>3, <1>b, <2>12, <2>13, <2>14 DEF OwnersInv
<1>12. QED
  BY <1>4, <1>9, <1>10, <1>11, CreateIs

(* Whoever leaves jobs, workers and their numbers alone. *)
LEMMA OwnersRest ==
  ASSUME Owners, IsMt(mt), IsMt(mt'), mt'.doneJobID = mt.doneJobID, mt'.nextJobID = mt.nextJobID,
         AtOnce' <=> AtOnce, worker' = worker, frames' = frames, jobs' = jobs, queue' = queue
  PROVE  Owners'
<1>1. mt.nextJobID \in Nat /\ Len(jobs) \in Nat
  BY DEF IsMt, Owners, AreJobs, IsSequence
<1>2. AreJobs(jobs') /\ Len(jobs) <= Len(jobs') /\ mt.nextJobID <= mt'.nextJobID
  BY <1>1 DEF Owners
<1>3. \A i \in 1 .. Len(jobs') : jobs'[i].jobID = mt.doneJobID + i - 1 /\ jobs'[i].frame = frames
  BY DEF Owners
<1>4. QED
  BY <1>2, <1>3, OwnersGrow

LEMMA OwnersAtFirst == Init => OwnersInv
<1> SUFFICES ASSUME Init PROVE OwnersInv
  OBVIOUS
<1>1. PICK b \in Instances, n \in 1 .. Cardinality(Workers) :
        /\ n \in b.workers /\ main = Out(b)
        /\ mt = [doneJobID |-> 0, nextJobID |-> 0, jobReady |-> FALSE, frameEnded |-> FALSE,
                 allJobsCompleted |-> TRUE, nbWorkers |-> n, nbJobs |-> TableSize(n)]
  BY DEF Init
<1>2. jobs = <<>> /\ queue = None /\ worker = [w \in Workers |-> Idle]
  BY DEF Init
<1>3. WorkerShapes
  BY <1>1, <1>2 DEF WorkerShapes, Idle, Has, WorkerFields
<1>4. Active = {}
  BY <1>2 DEF Active, Idle
<1>5. AreJobs(jobs) /\ Len(jobs) = 0 /\ 1 .. 0 = {}
  BY <1>2, EmptySequence DEF AreJobs
<1>6. Owners
  BY <1>2, <1>4, <1>5 DEF Owners
<1>7. main.at = "out" /\ main.said = "done" /\ main.job = 0 /\ main.failed = FALSE
  BY <1>1 DEF Out
<1>8. AllPosted /\ Begun /\ Backed
  BY <1>1, <1>7 DEF AllPosted, AtOnce, Begun, Streaming, InFrame, Backed
<1>9. QED
  BY <1>3, <1>6, <1>8 DEF OwnersInv

LEMMA InitCStreamOwners ==
  ASSUME InputInv, OwnersInv, Orderly, NEW n \in bound.workers, InitCStream(n)
  PROVE  OwnersInv'
<1>1. IsMain(main) /\ IsMt(mt)
  BY DEF InputInv, Shapes
<1>2. /\ main.at = "out" /\ UNCHANGED <<queue, worker, fed, frames>>
      /\ mt' = IF n = mt.nbWorkers THEN mt ELSE [expandJobsTable(mt, n) EXCEPT !.nbWorkers = n]
      /\ main' = [main EXCEPT !.at = IF mt.allJobsCompleted THEN "reset" ELSE "restart"]
  BY DEF InitCStream
<1>3. /\ main'.at \in {"reset", "restart"} /\ main'.job = main.job /\ main'.failed = main.failed
  BY <1>1, <1>2 DEF IsMain, Has, MainFields
<1>4. n \in 1 .. Cardinality(Workers)
  BY <1>1, InstancesAssumption DEF IsMain, bound
<1>5. /\ IsMt(mt') /\ mt'.doneJobID = mt.doneJobID /\ mt'.nextJobID = mt.nextJobID /\ mt'.nbWorkers = n
      /\ mt'.allJobsCompleted = mt.allJobsCompleted
  <2>1. n \in Nat \ {0}
    BY <1>4
  <2>2. CASE n = mt.nbWorkers
    BY <1>1, <1>2, <2>2
  <2>3. CASE n # mt.nbWorkers
    <3>1. \E x : mt' = [mt EXCEPT !.nbJobs = x, !.nbWorkers = n]
      BY <1>2, <2>3 DEF expandJobsTable
    <3>2. QED
      BY <1>1, <2>1, <3>1 DEF IsMt, Has, MtFields
  <2>4. QED
    BY <2>2, <2>3
<1>6. jobs' = jobs
  <2>1. CASE mt.allJobsCompleted
    <3>1. jobs = <<>>
      BY <2>1 DEF InputInv, Kept
    <3>2. QED
      BY <3>1 DEF InitCStream
  <2>2. CASE ~mt.allJobsCompleted
    <3>1. n = mt.nbWorkers
      BY <1>1, <2>2, OrderlyMeans DEF InitCStream
    <3>2. QED
      BY <3>1 DEF InitCStream
  <2>3. QED
    BY <2>1, <2>2
<1>7. ~AtOnce /\ ~AtOnce' /\ ~Streaming'
  BY <1>2, <1>3 DEF AtOnce, Streaming
<1>8. Owners'
  BY <1>1, <1>2, <1>5, <1>6, <1>7, OwnersRest DEF OwnersInv
<1>9. WorkerShapes'
  BY <1>2, <1>4, <1>5 DEF OwnersInv, WorkerShapes
<1>10. AllPosted' /\ Begun'
  BY <1>3, <1>7 DEF OwnersInv, AllPosted, Begun
<1>11. Backed'
  BY <1>5, <1>6 DEF OwnersInv, Backed
<1>12. QED
  BY <1>8, <1>9, <1>10, <1>11 DEF OwnersInv

LEMMA ResetOwners ==
  ASSUME InputInv, OwnersInv, Reset
  PROVE  OwnersInv'
<1>1. IsMt(mt) /\ IsMain(main) /\ jobs = <<>> /\ ~mt.jobReady
  BY DEF InputInv, Shapes, Kept, Reset
<1>2. /\ mt' = [mt EXCEPT !.doneJobID = 0, !.nextJobID = 0, !.frameEnded = FALSE, !.allJobsCompleted = FALSE]
      /\ inBuff' = NoSection /\ fed' = 0 /\ UNCHANGED <<jobs, queue, worker>>
      /\ main' = [Out(bound) EXCEPT !.said = "flushed"]
  BY DEF Reset
<1>3. /\ mt'.doneJobID = 0 /\ mt'.nextJobID = 0 /\ mt'.jobReady = mt.jobReady /\ mt'.nbWorkers = mt.nbWorkers
  BY <1>1, <1>2 DEF IsMt, Has, MtFields
<1>4. main'.at = "out" /\ main'.job = 0 /\ main'.failed = FALSE
  BY <1>2 DEF Out
<1>5. Active = {} /\ queue = None
  BY <1>1, NobodyHas DEF OwnersInv
<1>6. Owners'
  BY <1>1, <1>2, <1>5, OwnersNone
<1>7. WorkerShapes'
  BY <1>2, <1>3, WorkersRest DEF OwnersInv
<1>8. AllPosted'
  BY <1>4 DEF AllPosted, AtOnce
<1>9. Begun'
  BY <1>1, <1>2, <1>3 DEF Begun, NoSection
<1>10. Backed'
  <2>1. Len(jobs') = 0
    BY <1>1, <1>2
  <2>2. QED
    BY <1>3, <2>1 DEF Backed
<1>11. QED
  BY <1>6, <1>7, <1>8, <1>9, <1>10 DEF OwnersInv

LEMMA MtDone ==
  ASSUME NEW m, IsMt(m), NEW k, k = [m EXCEPT !.doneJobID = @ + 1]
  PROVE  /\ IsMt(k) /\ k.doneJobID = m.doneJobID + 1 /\ k.nextJobID = m.nextJobID /\ k.jobReady = m.jobReady
         /\ k.frameEnded = m.frameEnded /\ k.allJobsCompleted = m.allJobsCompleted
         /\ k.nbWorkers = m.nbWorkers
BY DEF IsMt, Has, MtFields

LEMMA PostedThere ==
  ASSUME IsMt(mt), AreJobs(jobs), mt.nextJobID - mt.doneJobID <= Len(jobs), FirstPosted
  PROVE  Len(jobs) \in Nat /\ Len(jobs) > 0
<1>1. mt.doneJobID \in Nat /\ mt.nextJobID \in Nat /\ mt.doneJobID < mt.nextJobID /\ Len(jobs) \in Nat
  BY DEF IsMt, AreJobs, IsSequence, FirstPosted
<1>2. QED
  BY ONLY <1>1, mt.nextJobID - mt.doneJobID <= Len(jobs)

LEMMA WaitForJobOwners ==
  ASSUME InputInv, OwnersInv, WaitForJob
  PROVE  OwnersInv'
<1>1. IsMt(mt) /\ IsMain(main) /\ AreJobs(jobs) /\ FirstPosted /\ ~AtOnce /\ ~Streaming
  BY DEF InputInv, Shapes, OwnersInv, Owners, WaitForJob, Draining, AtOnce, Streaming
<1>2. ~mt.allJobsCompleted
  BY DEF InputInv, Kept, Live, WaitForJob, Draining
<1>3. Len(jobs) \in Nat /\ Len(jobs) > 0 /\ IsSequence(jobs) /\ mt.nextJobID - mt.doneJobID <= Len(jobs)
  BY <1>1, <1>2, PostedThere DEF OwnersInv, Backed, AreJobs
<1>4. /\ UNCHANGED <<queue, worker, inBuff, main, fed, frames>> /\ AtOnce' = AtOnce /\ Streaming' = Streaming
  BY DEF WaitForJob, buffers, AtOnce, Streaming, InFrame
<1>5. CASE Complete(First)
  <2>1. mt' = [mt EXCEPT !.doneJobID = @ + 1] /\ jobs' = Tail(jobs) /\ Complete(jobs[1])
    BY <1>5 DEF WaitForJob, First
  <2>2. /\ IsMt(mt') /\ mt'.doneJobID = mt.doneJobID + 1 /\ mt'.nextJobID = mt.nextJobID /\ mt'.nbWorkers = mt.nbWorkers
    BY <1>1, <2>1, MtDone
  <2>3. IsSequence(jobs') /\ Len(jobs') = Len(jobs) - 1 /\ \A i \in 1 .. Len(jobs) - 1 : jobs'[i] = jobs[i + 1]
    BY <1>3, <2>1, SequenceTail
  <2>4. Owners'
    BY <1>1, <1>3, <1>4, <2>1, <2>2, <2>3, OwnersPop DEF OwnersInv
  <2>5. mt'.nextJobID - mt'.doneJobID <= Len(jobs')
    <3>1. mt.nextJobID \in Nat /\ mt.doneJobID \in Nat
      BY <1>1 DEF IsMt
    <3>2. QED
      BY ONLY <1>3, <2>2, <2>3, <3>1
  <2>6. WorkerShapes'
    BY <1>4, <2>2, WorkersRest DEF OwnersInv
  <2>7. AllPosted' /\ Begun' /\ Backed'
    BY <1>1, <1>4, <2>5 DEF OwnersInv, AllPosted, Begun, Backed
  <2>8. QED
    BY <2>4, <2>6, <2>7 DEF OwnersInv
<1>6. CASE ~Complete(First)
  <2>1. mt' = mt /\ jobs' = jobs
    BY <1>6 DEF WaitForJob
  <2>2. Owners'
    BY <1>1, <1>4, <2>1, OwnersRest DEF OwnersInv
  <2>3. WorkerShapes'
    BY <1>4, <2>1, WorkersRest DEF OwnersInv
  <2>4. AllPosted' /\ Begun' /\ Backed'
    BY <1>1, <1>4, <2>1 DEF OwnersInv, AllPosted, Begun, Backed
  <2>5. QED
    BY <2>2, <2>3, <2>4 DEF OwnersInv
<1>7. QED
  BY <1>5, <1>6

LEMMA ReleaseAllOwners ==
  ASSUME InputInv, OwnersInv, ReleaseAll
  PROVE  OwnersInv'
<1>1. IsMt(mt) /\ IsMain(main) /\ ~FirstPosted /\ ~AtOnce
  BY DEF InputInv, Shapes, ReleaseAll, Draining, AtOnce
<1>2. \A id : ~InHand(id)
  <2> SUFFICES ASSUME NEW id, InHand(id) PROVE FALSE
    OBVIOUS
  <2>1. id \in Nat /\ id - mt.doneJobID + 1 \in 1 .. Len(jobs) /\ id < mt.nextJobID
    BY <1>1 DEF InHand, At
  <2>2. mt.doneJobID \in Nat /\ mt.nextJobID \in Nat /\ ~(mt.doneJobID < mt.nextJobID)
    BY <1>1 DEF IsMt, FirstPosted
  <2>3. QED
    BY ONLY <2>1, <2>2
<1>3. Active = {} /\ queue = None
  BY <1>2 DEF OwnersInv, Owners
<1>4. /\ UNCHANGED <<queue, worker>> /\ jobs' = <<>> /\ mt' = [mt EXCEPT !.allJobsCompleted = TRUE]
      /\ main' = IF main.at = "restart" THEN [main EXCEPT !.at = "reset"]
                 ELSE [main EXCEPT !.at = "out", !.said = "error"]
  BY DEF ReleaseAll
<1>5. Owners'
  BY <1>3, <1>4, OwnersNone
<1>6. mt'.nbWorkers = mt.nbWorkers /\ mt'.allJobsCompleted = TRUE
  BY <1>1, <1>4 DEF IsMt, Has, MtFields
<1>7. WorkerShapes'
  BY <1>4, <1>6, WorkersRest DEF OwnersInv
<1>8. ~AtOnce' /\ ~Streaming' /\ main'.job = main.job /\ main'.failed = main.failed
  BY <1>1, <1>4 DEF IsMain, Has, MainFields, AtOnce, Streaming, InFrame
<1>9. AllPosted' /\ Begun' /\ Backed'
  BY <1>1, <1>6, <1>8 DEF OwnersInv, AllPosted, Begun, Backed
<1>10. QED
  BY <1>5, <1>7, <1>9 DEF OwnersInv

(* Waiting, waking up, and finding that a job has failed. *)
LEMMA RestOwners ==
  ASSUME InputInv, OwnersInv, UNCHANGED <<mt, jobs, queue, worker, inBuff, fed, frames>>,
         main' = main \/ FlushFails
  PROVE  OwnersInv'
<1>1. IsMt(mt) /\ IsMain(main)
  BY DEF InputInv, Shapes
<1>2. /\ AtOnce' = AtOnce /\ (Streaming' => Streaming) /\ main'.job = main.job /\ main'.failed = main.failed
      /\ AtOnce => main' = main
  <2>1. CASE main' = main
    BY <2>1 DEF AtOnce, Streaming, InFrame
  <2>2. CASE FlushFails
    <3>1. main.at = "flush" /\ main' = [main EXCEPT !.at = "drain"]
      BY <2>2 DEF FlushFails, Flushing
    <3>2. QED
      BY <1>1, <3>1 DEF IsMain, Has, MainFields, AtOnce, Streaming, InFrame
  <2>3. QED
    BY <2>1, <2>2
<1>3. Owners'
  BY <1>1, <1>2, OwnersRest DEF OwnersInv
<1>4. WorkerShapes'
  BY WorkersRest DEF OwnersInv
<1>5. AllPosted' /\ Begun' /\ Backed'
  BY <1>2 DEF OwnersInv, AllPosted, Begun, Backed
<1>6. QED
  BY <1>3, <1>4, <1>5 DEF OwnersInv

LEMMA SayIs ==
  ASSUME IsMain(main), NEW m, IsMt(m), NEW js, Say(m, js)
  PROVE  /\ jobs' = js /\ IsMt(mt') /\ mt'.doneJobID = m.doneJobID /\ mt'.nextJobID = m.nextJobID
         /\ mt'.jobReady = m.jobReady /\ mt'.frameEnded = m.frameEnded /\ mt'.nbWorkers = m.nbWorkers
         /\ ~mt'.allJobsCompleted => ~m.allJobsCompleted \/ js = <<>>
         /\ main'.at = "out" /\ main'.room = 0 /\ main'.job = main.job /\ main'.failed = main.failed
         /\ main'.said \in {"more", "flushed", "done"}
         /\ main'.said = "done" => js = <<>> /\ inBuff.filled = 0 /\ m.frameEnded
<1> DEFINE empty == js = <<>> /\ inBuff.filled = 0
           done == IF main.op = "end" THEN m.frameEnded ELSE TRUE
<1>1. /\ mt' = IF empty THEN [m EXCEPT !.allJobsCompleted = m.frameEnded] ELSE m
      /\ jobs' = js
      /\ main' = [main EXCEPT !.at = "out", !.block = FALSE, !.room = 0,
                    !.said = IF ~empty \/ ~done \/ main.left > 0 THEN "more"
                             ELSE IF main.op = "end" THEN "done" ELSE "flushed"]
  BY DEF Say
<1>2. /\ IsMt(mt') /\ mt'.doneJobID = m.doneJobID /\ mt'.nextJobID = m.nextJobID /\ mt'.jobReady = m.jobReady
      /\ mt'.frameEnded = m.frameEnded /\ mt'.nbWorkers = m.nbWorkers
      /\ ~empty => mt'.allJobsCompleted = m.allJobsCompleted
  <2>1. CASE empty
    BY <1>1, <2>1 DEF IsMt, Has, MtFields
  <2>2. CASE ~empty
    BY <1>1, <2>2
  <2>3. QED
    BY <2>1, <2>2
<1>3. /\ main'.at = "out" /\ main'.room = 0 /\ main'.job = main.job /\ main'.failed = main.failed
      /\ main'.said = IF ~empty \/ ~done \/ main.left > 0 THEN "more" ELSE IF main.op = "end" THEN "done" ELSE "flushed"
  BY <1>1 DEF IsMain, Has, MainFields
<1>4. main'.said \in {"more", "flushed", "done"} /\ (main'.said = "done" => empty /\ m.frameEnded)
  BY <1>3
<1>5. QED
  BY <1>1, <1>2, <1>3, <1>4

(* What flushing does: n words of the first job's part go out, and the job *)
(* is freed if these are the last.                                         *)
Flushes(out, n, j) ==
  /\ out = Produced(First) /\ n = Smaller(Len(out) - First.dstFlushed, main.room)
  /\ j = [First EXCEPT !.out = out, !.dstFlushed = First.dstFlushed + n,
                       !.frameChecksumNeeded = First.frameChecksumNeeded /\ ~Complete(First)]
  /\ output' = output \o SubSeq(out, j.dstFlushed - n + 1, j.dstFlushed)
  /\ \/ /\ out # <<>> /\ Complete(j) /\ j.dstFlushed = Len(out)
        /\ Say([mt EXCEPT !.doneJobID = @ + 1], Tail(jobs))
     \/ /\ ~(out # <<>> /\ Complete(j) /\ j.dstFlushed = Len(out))
        /\ Say(mt, [jobs EXCEPT ![1] = j])

LEMMA FlushIs ==
  ASSUME Flush
  PROVE  \E out, n, j : Flushes(out, n, j)
BY Zenon DEF Flush, Flushes

LEMMA FlushOwners ==
  ASSUME InputInv, OwnersInv, Flush \/ FlushNothing
  PROVE  OwnersInv'
<1>1. main.at = "flush" /\ UNCHANGED <<queue, worker, inBuff, fed, frames>>
  BY DEF Flush, FlushNothing, Flushing, buffers
<1>2. Streaming /\ ~AtOnce
  BY <1>1 DEF InputInv, Kept, Streaming, AtOnce
<1>3. /\ IsMt(mt) /\ IsMain(main) /\ ~mt.allJobsCompleted /\ AreJobs(jobs) /\ Count
  BY <1>2, StreamingHas
<1>4. /\ Len(jobs) \in Nat /\ mt.nextJobID \in Nat /\ mt.doneJobID \in Nat /\ mt.doneJobID <= mt.nextJobID
      /\ Len(jobs) = mt.nextJobID - mt.doneJobID + (IF mt.jobReady THEN 1 ELSE 0)
      /\ IsSequence(jobs) /\ \A i \in 1 .. Len(jobs) : IsJob(jobs[i])
  BY <1>3 DEF IsMt, AreJobs, IsSequence, Count
<1>5. ASSUME NEW m, NEW js, Say(m, js), IsMt(m), m.nextJobID = mt.nextJobID, m.jobReady = mt.jobReady,
             m.nbWorkers = mt.nbWorkers, m.nextJobID - m.doneJobID <= Len(js),
             mt.jobReady => ~Complete(js[Len(js)]),
             IsMt(mt') /\ jobs' = js /\ mt'.doneJobID = m.doneJobID /\ mt'.nextJobID = m.nextJobID => Owners'
      PROVE  OwnersInv'
  <2>1. /\ jobs' = js /\ IsMt(mt') /\ mt'.doneJobID = m.doneJobID /\ mt'.nextJobID = m.nextJobID
        /\ mt'.jobReady = m.jobReady /\ mt'.nbWorkers = m.nbWorkers
        /\ main'.at = "out" /\ main'.job = main.job /\ main'.failed = main.failed
    BY <1>3, <1>5, SayIs
  <2>2. WorkerShapes'
    BY <1>1, <1>5, <2>1, WorkersRest DEF OwnersInv
  <2>3. AllPosted'
    BY <1>2, <2>1 DEF OwnersInv, AllPosted, AtOnce
  <2>4. Begun'
    <3>1. mt.nextJobID = 0 /\ ~mt.jobReady => fed = inBuff.filled
      BY <1>2 DEF OwnersInv, Begun
    <3>2. QED
      BY <1>1, <1>5, <2>1, <3>1 DEF Begun
  <2>5. Backed'
    BY <1>5, <2>1 DEF Backed
  <2>6. QED
    BY <1>5, <2>1, <2>2, <2>3, <2>4, <2>5 DEF OwnersInv
<1>6. mt.jobReady => ~Complete(jobs[Len(jobs)])
  BY <1>2 DEF OwnersInv, Begun
<1>a. main'.at = "out" => ~AtOnce'
  BY DEF AtOnce
<1>b. mt.nextJobID - mt.doneJobID <= Len(jobs)
  BY ONLY <1>4
<1>7. CASE FlushNothing
  <2>1. Say(mt, jobs)
    BY <1>7 DEF FlushNothing
  <2>2. main'.at = "out"
    BY <1>3, <2>1, SayIs
  <2>3. ASSUME IsMt(mt'), jobs' = jobs, mt'.doneJobID = mt.doneJobID, mt'.nextJobID = mt.nextJobID PROVE Owners'
    BY <1>1, <1>2, <1>3, <1>a, <2>2, <2>3, OwnersRest DEF OwnersInv
  <2>4. QED
    BY <1>3, <1>5, <1>6, <1>b, <2>1, <2>3
<1>8. CASE Flush
  <2>1. PICK out, n, j : Flushes(out, n, j)
    BY <1>8, FlushIs
  <2>2. FirstPosted
    BY Zenon, <1>8 DEF Flush
  <2>3. Len(jobs) > 0 /\ First = jobs[1] /\ IsJob(jobs[1])
    BY <1>3, <1>4, <1>b, <2>2, PostedThere DEF First
  <2>4. Same(jobs[1], j) /\ j.consumed = jobs[1].consumed
    <3>1. \E y, z : j = [jobs[1] EXCEPT !.out = out, !.dstFlushed = y, !.frameChecksumNeeded = z]
      BY Zenon, <2>1, <2>3 DEF Flushes
    <3>2. PICK y, z : j = [jobs[1] EXCEPT !.out = out, !.dstFlushed = y, !.frameChecksumNeeded = z]
      BY <3>1
    <3>3. QED
      BY ONLY <2>3, <3>2 DEF IsJob, Has, JobFields, Same
  <2>5. Complete(j) <=> Complete(jobs[1])
    BY <2>4 DEF Same, Complete
  <2>6. mt.jobReady => Len(jobs) > 1
    <3>1. mt.doneJobID < mt.nextJobID
      BY <2>2 DEF FirstPosted
    <3>2. QED
      BY ONLY <1>4, <3>1
  <2>7. CASE Complete(j) /\ Say([mt EXCEPT !.doneJobID = @ + 1], Tail(jobs))
    <3> DEFINE m == [mt EXCEPT !.doneJobID = @ + 1]
    <3>1. /\ IsMt(m) /\ m.doneJobID = mt.doneJobID + 1 /\ m.nextJobID = mt.nextJobID /\ m.jobReady = mt.jobReady
          /\ m.nbWorkers = mt.nbWorkers
      BY <1>3, MtDone
    <3>2. Say(m, Tail(jobs)) /\ Complete(jobs[1])
      BY <2>5, <2>7
    <3> HIDE DEF m
    <3>3. /\ IsSequence(Tail(jobs)) /\ Len(Tail(jobs)) = Len(jobs) - 1
          /\ \A i \in 1 .. Len(jobs) - 1 : Tail(jobs)[i] = jobs[i + 1]
      BY <1>4, <2>3, SequenceTail
    <3>4. m.nextJobID - m.doneJobID <= Len(Tail(jobs))
      BY ONLY <1>4, <3>1, <3>3
    <3>5. mt.jobReady => ~Complete(Tail(jobs)[Len(Tail(jobs))])
      <4>1. mt.jobReady => Len(jobs) - 1 \in 1 .. Len(jobs) - 1 /\ Len(jobs) - 1 + 1 = Len(jobs)
        BY ONLY <1>4, <2>6
      <4>2. QED
        BY <1>6, <3>3, <4>1
    <3>6. main'.at = "out"
      BY <1>3, <3>1, <3>2, SayIs
    <3>7. ASSUME IsMt(mt'), jobs' = Tail(jobs), mt'.doneJobID = m.doneJobID, mt'.nextJobID = m.nextJobID PROVE Owners'
      BY <1>1, <1>2, <1>3, <1>4, <1>a, <2>3, <3>1, <3>2, <3>3, <3>6, <3>7, OwnersPop DEF OwnersInv
    <3>8. QED
      BY <1>5, <3>1, <3>2, <3>4, <3>5, <3>7
  <2>8. CASE Say(mt, [jobs EXCEPT ![1] = j])
    <3> DEFINE js == [jobs EXCEPT ![1] = j]
    <3>1. js = [i \in DOMAIN jobs |-> js[i]] /\ \A i \in DOMAIN jobs : js[i] = IF i = 1 THEN j ELSE jobs[i]
      OBVIOUS
    <3>2. Say(mt, js)
      BY <2>8
    <3> HIDE DEF js
    <3>3. IsSequence(js) /\ Len(js) = Len(jobs) /\ DOMAIN jobs = 1 .. Len(jobs)
      BY <1>4, <3>1, SequenceSet
    <3>4. \A i \in 1 .. Len(jobs) : /\ Complete(js[i]) <=> Complete(jobs[i])
                                    /\ js[i].jobID = jobs[i].jobID /\ js[i].frame = jobs[i].frame
      BY <2>4, <2>5, <3>1, <3>3 DEF Same
    <3>5. mt.jobReady => ~Complete(js[Len(js)])
      <4>1. Len(jobs) \in 1 .. Len(jobs)
        BY <1>4, <2>3
      <4>2. QED
        BY <1>6, <3>3, <3>4, <4>1
    <3>6. main'.at = "out"
      BY <1>3, <3>2, SayIs
    <3>7. AreJobs(js)
      <4>1. AreJobs(jobs')
        BY <1>8, FlushKeeps, <3>6 DEF InputInv, Kept
      <4>2. jobs' = js
        BY <1>3, <3>2, SayIs
      <4>3. QED
        BY <4>1, <4>2
    <3>8. ASSUME IsMt(mt'), jobs' = js, mt'.doneJobID = mt.doneJobID, mt'.nextJobID = mt.nextJobID PROVE Owners'
      <4>1. \A i \in 1 .. Len(jobs') : jobs'[i].jobID = mt.doneJobID + i - 1 /\ jobs'[i].frame = frames
        BY <3>3, <3>4, <3>8 DEF OwnersInv, Owners
      <4>2. mt.nextJobID <= mt'.nextJobID /\ Len(jobs) <= Len(jobs')
        BY <1>4, <3>3, <3>8
      <4>3. \A i \in 1 .. Len(jobs) : ~Complete(jobs[i]) => ~Complete(jobs'[i])
        BY <3>4, <3>8
      <4>4. QED
        BY <1>1, <1>2, <1>3, <1>a, <3>6, <3>7, <3>8, <4>1, <4>2, <4>3, OwnersGrow DEF OwnersInv
    <3>9. QED
      BY <1>3, <1>5, <1>b, <3>2, <3>3, <3>5, <3>8
  <2>9. QED
    BY <2>1, <2>7, <2>8 DEF Flushes
<1>9. QED
  BY <1>7, <1>8

(* ZSTDMT_compress_advanced begins a frame of which nothing has been taken *)
(* yet, alone or with at least two jobs.                                   *)
LEMMA AdvancedIs ==
  ASSUME InputInv, OwnersInv, NEW n \in bound.offers \cup {main.left}, NEW room, CompressAdvanced(n, room)
  PROVE  /\ Streaming /\ main.at = "out" /\ InFrame /\ mt.nextJobID = 0 /\ mt.doneJobID = 0 /\ ~mt.jobReady /\ jobs = <<>> /\ Len(jobs) = 0
         /\ fed = 0 /\ inBuff.filled = 0 /\ n \in Nat /\ fed' = n /\ UNCHANGED <<jobs, queue, worker, inBuff, frames>>
         /\ IsMt(mt') /\ mt'.doneJobID = 0 /\ mt'.nextJobID = 0 /\ mt'.jobReady = mt.jobReady /\ mt'.nbWorkers = mt.nbWorkers
         /\ main'.job = main.job /\ main'.failed = main.failed
         /\ \/ /\ main'.at = "out" /\ main'.said = "done" /\ output' = Frame(n) /\ mt'.allJobsCompleted /\ serial' = serial
            \/ /\ main'.at = "post" /\ main'.said = main.said /\ output' = output
               /\ main'.nbJobs = NbJobs(n) /\ NbJobs(n) # 1
               /\ serial' = [nextJobID |-> 0, hashed |-> <<>>]
<1>1. /\ Streaming /\ main.at = "out" /\ InFrame /\ mt.nextJobID = 0 /\ inBuff.filled = 0 /\ ~mt.jobReady
      /\ fed' = fed + n /\ UNCHANGED <<jobs, queue, worker, inBuff, frames>>
  BY DEF CompressAdvanced, Shortcut, Streaming, buffers
<1>2. AreJobs(jobs) /\ Count /\ IsMt(mt) /\ IsMain(main)
  BY <1>1, StreamingHas
<1>3. n \in Nat
  <2>1. bound \in Instances /\ main.left \in Nat
    BY <1>2 DEF IsMain, bound
  <2>2. QED
    BY <2>1, InstancesAssumption
<1>4. jobs = <<>> /\ Len(jobs) = 0 /\ mt.doneJobID = 0
  <2>1. mt.doneJobID \in Nat /\ Len(jobs) = 0 - mt.doneJobID + 0 /\ Len(jobs) \in Nat
    BY <1>1, <1>2 DEF Count, IsMt, AreJobs, IsSequence
  <2>2. Len(jobs) = 0 /\ mt.doneJobID = 0
    BY ONLY <2>1
  <2>3. QED
    BY <1>2, <2>2, EmptySequence DEF AreJobs
<1>5. fed = 0
  BY <1>1 DEF OwnersInv, Begun
<1>6. CASE NbJobs(n) = 1 \/ mt.nbWorkers = 1
  <2>1. /\ mt' = [mt EXCEPT !.frameEnded = TRUE, !.allJobsCompleted = TRUE]
        /\ main' = [main EXCEPT !.said = "done"] /\ output' = Frame(n) /\ serial' = serial
    BY <1>6 DEF CompressAdvanced
  <2>2. IsMt(mt') /\ mt'.doneJobID = mt.doneJobID /\ mt'.nextJobID = mt.nextJobID /\ mt'.jobReady = mt.jobReady /\ mt'.allJobsCompleted
        /\ mt'.nbWorkers = mt.nbWorkers
    BY <1>2, <2>1 DEF IsMt, Has, MtFields
  <2>3. main'.at = "out" /\ main'.said = "done" /\ main'.job = main.job /\ main'.failed = main.failed
    BY <1>1, <1>2, <2>1 DEF IsMain, Has, MainFields
  <2>4. QED
    BY <1>1, <1>3, <1>4, <1>5, <2>1, <2>2, <2>3
<1>7. CASE ~(NbJobs(n) = 1 \/ mt.nbWorkers = 1)
  <2>1. /\ mt' = expandJobsTable(mt, NbJobs(n))
        /\ main' = [main EXCEPT !.at = "post", !.order = "end", !.nbJobs = NbJobs(n)]
        /\ output' = output /\ serial' = [nextJobID |-> 0, hashed |-> <<>>]
    BY <1>7 DEF CompressAdvanced
  <2>2. IsMt(mt') /\ mt'.doneJobID = mt.doneJobID /\ mt'.nextJobID = mt.nextJobID /\ mt'.jobReady = mt.jobReady
        /\ mt'.nbWorkers = mt.nbWorkers
    BY <1>2, <2>1 DEF expandJobsTable, IsMt, Has, MtFields
  <2>3. main'.at = "post" /\ main'.said = main.said /\ main'.nbJobs = NbJobs(n) /\ main'.job = main.job /\ main'.failed = main.failed
    BY <1>2, <2>1 DEF IsMain, Has, MainFields
  <2>4. QED
    BY <1>1, <1>3, <1>4, <1>5, <1>7, <2>1, <2>2, <2>3
<1>8. QED
  BY <1>6, <1>7

LEMMA AdvancedOwners ==
  ASSUME InputInv, OwnersInv, NEW n \in bound.offers \cup {main.left}, NEW room, CompressAdvanced(n, room)
  PROVE  OwnersInv'
<1>1. /\ Streaming /\ main.at = "out" /\ mt.nextJobID = 0 /\ mt.doneJobID = 0 /\ ~mt.jobReady /\ jobs = <<>> /\ Len(jobs) = 0
      /\ n \in Nat /\ fed' = n /\ UNCHANGED <<jobs, queue, worker, inBuff, frames>>
      /\ IsMt(mt') /\ mt'.doneJobID = 0 /\ mt'.nextJobID = 0 /\ mt'.jobReady = mt.jobReady /\ mt'.nbWorkers = mt.nbWorkers
      /\ main'.job = main.job /\ main'.failed = main.failed
      /\ \/ main'.at = "out" /\ main'.said = "done" /\ mt'.allJobsCompleted
         \/ main'.at = "post" /\ main'.nbJobs = NbJobs(n) /\ NbJobs(n) # 1
  BY AdvancedIs
<1>2. IsMt(mt) /\ main.job = 0 /\ main.failed = FALSE
  BY <1>1 DEF InputInv, Shapes, OwnersInv, AllPosted, AtOnce
<1>3. Active = {} /\ queue = None
  BY <1>1, NobodyHas DEF OwnersInv
<1>4. Owners'
  BY <1>1, <1>3, OwnersNone
<1>5. WorkerShapes'
  BY <1>1, WorkersRest DEF OwnersInv
<1>6. Backed'
  BY <1>1 DEF Backed
<1>7. Begun'
  BY <1>1 DEF Begun, Streaming, InFrame
<1>8. AllPosted'
  <2>1. CASE main'.at = "out"
    BY <1>1, <1>2, <2>1 DEF AllPosted, AtOnce
  <2>2. CASE main'.at = "post" /\ main'.nbJobs = NbJobs(n) /\ NbJobs(n) # 1
    <3>1. NbJobs(n) \in Nat /\ 1 < NbJobs(n) /\ NbJobs(n) <= n
      BY <1>1, <1>2, <2>2, NbJobsFits
    <3>2. main'.job = 0 /\ 0 < NbJobs(n)
      BY <1>1, <1>2, <3>1
    <3>3. QED
      BY <1>1, <2>2, <3>1, <3>2 DEF AllPosted, AtOnce
  <2>3. QED
    BY <1>1, <2>1, <2>2
<1>9. QED
  BY <1>4, <1>5, <1>6, <1>7, <1>8 DEF OwnersInv

Share(u) == [frame |-> frames, jobID |-> u, user |-> TRUE,
             src |-> [start |-> 0, size |-> Before(u + 1) - Before(u)],
             prefix |-> NullRange, from |-> Before(u) + 1,
             consumed |-> 0, error |-> FALSE, dstFlushed |-> 0, out |-> <<>>,
             lastJob |-> u = main.nbJobs - 1, frameChecksumNeeded |-> FALSE]

LEMMA PostNextIs ==
  ASSUME InputInv, OwnersInv, PostNext
  PROVE  /\ AtOnce /\ main.at = "post" /\ main.job \in Nat /\ main.nbJobs \in Nat /\ main.job < main.nbJobs /\ Len(jobs) = main.job
         /\ 1 < main.nbJobs /\ main.nbJobs <= fed /\ fed \in Nat
         /\ jobs' = Append(jobs, Share(main.job)) /\ Post(main.job)
         /\ UNCHANGED <<mt, serial, worker, inBuff, fed, output, frames>>
         /\ IsJob(Share(main.job)) /\ Before(main.job) \in Nat /\ Before(main.job + 1) \in Nat
         /\ Before(main.job) < Before(main.job + 1) /\ Before(main.job + 1) <= fed
         /\ main'.nbJobs = main.nbJobs /\ main'.said = main.said /\ main'.failed = main.failed
         /\ \/ main.job = main.nbJobs - 1 /\ main'.at = "collect" /\ main'.job = 0
            \/ main.job # main.nbJobs - 1 /\ main'.at = "post" /\ main'.job = main.job + 1
<1>1. /\ main.at = "post" /\ AtOnce /\ jobs' = Append(jobs, Share(main.job)) /\ Post(main.job)
      /\ UNCHANGED <<mt, serial, worker, inBuff, fed, output, frames>>
      /\ main' = [main EXCEPT !.job = IF main.job = main.nbJobs - 1 THEN 0 ELSE main.job + 1,
                              !.at = IF main.job = main.nbJobs - 1 THEN "collect" ELSE "post"]
  BY DEF PostNext, Share, buffers, AtOnce
<1>2. IsMain(main) /\ main.job \in Nat /\ main.nbJobs \in Nat /\ fed \in Nat
  BY DEF InputInv, Shapes, IsMain
<1>3. main.job < main.nbJobs /\ Len(jobs) = main.job /\ 1 < main.nbJobs /\ main.nbJobs <= fed
  BY <1>1 DEF OwnersInv, AllPosted
<1>4. main.nbJobs > 0 /\ main.job + 1 \in Nat /\ main.job + 1 <= main.nbJobs
  BY <1>2, <1>3
<1>5. /\ Before(main.job) \in Nat /\ Before(main.job + 1) \in Nat
      /\ Before(main.job) + 1 <= Before(main.job + 1) /\ Before(main.job + 1) <= fed
  <2>2. PICK u \in Nat : u = main.job
    BY ONLY <1>2
  <2>3. PICK v \in Nat : v = main.job + 1
    BY ONLY <1>4
  <2>4. Before(u) \in Nat /\ Before(u) + 1 <= Before(u + 1)
    BY <1>2, <1>3, <1>4, EvenShares, u \in Nat DEF Before
  <2>5. Before(v) \in Nat /\ (v <= main.nbJobs => Before(v) <= fed)
    BY <1>2, <1>3, <1>4, EvenShares, v \in Nat DEF Before
  <2>6. QED
    BY ONLY <1>4, <2>2, <2>3, <2>4, <2>5
<1>6. IsJob(Share(main.job))
  <2>1. Before(main.job + 1) - Before(main.job) \in Int /\ Before(main.job) + 1 \in Int
    BY ONLY <1>5
  <2>2. QED
    BY <2>1 DEF Share, IsJob, Has, JobFields, Ranges, NullRange
<1>7. /\ main'.nbJobs = main.nbJobs /\ main'.said = main.said /\ main'.failed = main.failed
      /\ main'.at = IF main.job = main.nbJobs - 1 THEN "collect" ELSE "post"
      /\ main'.job = IF main.job = main.nbJobs - 1 THEN 0 ELSE main.job + 1
  BY <1>1, <1>2 DEF IsMain, Has, MainFields
<1>8. Before(main.job) < Before(main.job + 1)
  BY ONLY <1>5
<1>9. QED
  BY <1>1, <1>2, <1>3, <1>5, <1>6, <1>7, <1>8

LEMMA PostNextOwners ==
  ASSUME InputInv, OwnersInv, PostNext
  PROVE  OwnersInv'
<1> DEFINE u == main.job
           j == Share(u)
<1>1. /\ AtOnce /\ main.at = "post" /\ u \in Nat /\ main.nbJobs \in Nat /\ u < main.nbJobs /\ Len(jobs) = u
      /\ 1 < main.nbJobs /\ main.nbJobs <= fed
      /\ jobs' = Append(jobs, j) /\ Post(u)
      /\ UNCHANGED <<mt, worker, inBuff, fed, frames>>
      /\ IsJob(j) /\ Before(u) \in Nat /\ Before(u + 1) \in Nat /\ Before(u) < Before(u + 1)
      /\ main'.nbJobs = main.nbJobs /\ main'.failed = main.failed
      /\ \/ u = main.nbJobs - 1 /\ main'.at = "collect" /\ main'.job = 0
         \/ u # main.nbJobs - 1 /\ main'.at = "post" /\ main'.job = u + 1
  BY PostNextIs
<1>2. j.frame = frames /\ j.jobID = u /\ ~Complete(j)
  <2>1. j.frame = frames /\ j.jobID = u /\ j.consumed = 0 /\ j.src.size = Before(u + 1) - Before(u)
    BY DEF Share
  <2>2. ~(j.consumed >= j.src.size)
    BY ONLY <1>1, <2>1
  <2>3. QED
    BY <2>1, <2>2 DEF Complete
<1> HIDE DEF j
<1>3. mt.doneJobID = 0 /\ mt.nextJobID = 0 /\ ~mt.jobReady /\ IsMt(mt)
  BY <1>1 DEF OwnersInv, AllPosted, InputInv, Shapes
<1>4. IsSequence(jobs) /\ \A i \in 1 .. Len(jobs) : IsJob(jobs[i]) /\ jobs[i].jobID = mt.doneJobID + i - 1 /\ jobs[i].frame = frames
  BY DEF OwnersInv, Owners, AreJobs
<1>5. /\ IsSequence(jobs') /\ Len(jobs') = u + 1 /\ jobs'[u + 1] = j /\ \A i \in 1 .. Len(jobs) : jobs'[i] = jobs[i]
  BY <1>1, <1>4, SequenceAppend
<1>6. \A i \in 1 .. Len(jobs') : IsJob(jobs'[i]) /\ jobs'[i].jobID = mt.doneJobID + i - 1 /\ jobs'[i].frame = frames
  <2> TAKE i \in 1 .. Len(jobs')
  <2>1. CASE i \in 1 .. Len(jobs)
    BY <1>4, <1>5, <2>1
  <2>2. CASE i \notin 1 .. Len(jobs)
    <3>1. Len(jobs) = u /\ u \in Nat /\ Len(jobs') = u + 1
      BY <1>1, <1>5
    <3>2. i = u + 1 /\ 0 + i - 1 = u
      BY ONLY <2>2, <3>1, i \in 1 .. Len(jobs')
    <3>3. QED
      BY <1>1, <1>2, <1>3, <1>5, <3>2
  <2>3. QED
    BY <2>1, <2>2
<1>7. AreJobs(jobs')
  BY <1>5, <1>6 DEF AreJobs
<1>8. \A w \in Active : worker[w].jobID # u
  <2> TAKE w \in Active
  <2>1. worker[w].jobID \in Nat /\ worker[w].jobID - 0 + 1 \in 1 .. Len(jobs)
    BY <1>3 DEF OwnersInv, Owners, InHand, At
  <2>2. u \in Nat /\ Len(jobs) = u
    BY <1>1
  <2>3. QED
    BY ONLY <2>1, <2>2
<1>9. AtOnce'
  BY <1>1 DEF AtOnce
<1>10. Posts(u)
  <2>1. u - 0 + 1 = u + 1 /\ u + 1 \in 1 .. Len(jobs')
    BY ONLY <1>1, <1>5
  <2>2. QED
    BY <1>1, <1>2, <1>3, <1>5, <1>8, <2>1 DEF Posts, Post
<1>11. Owners'
  <2>1. IsMt(mt') /\ mt'.doneJobID = mt.doneJobID /\ mt.nextJobID <= mt'.nextJobID
    BY <1>1, <1>3
  <2>2. Len(jobs) <= Len(jobs')
    BY ONLY <1>1, <1>5
  <2>3. \A i \in 1 .. Len(jobs) : ~Complete(jobs[i]) => ~Complete(jobs'[i])
    BY <1>5
  <2>4. worker' = worker /\ frames' = frames
    BY <1>1
  <2>5. QED
    BY <1>1, <1>3, <1>6, <1>7, <1>9, <1>10, <2>1, <2>2, <2>3, <2>4, OwnersGrow DEF OwnersInv
<1>12. WorkerShapes'
  BY <1>1, WorkersRest DEF OwnersInv
<1>13. AllPosted'
  <2>1. CASE u = main.nbJobs - 1 /\ main'.at = "collect" /\ main'.job = 0
    <3>1. Len(jobs') = main.nbJobs /\ 0 < main.nbJobs
      BY ONLY <1>1, <1>5, <2>1
    <3>2. QED
      BY <1>1, <1>3, <1>9, <2>1, <3>1 DEF AllPosted
  <2>2. CASE u # main.nbJobs - 1 /\ main'.at = "post" /\ main'.job = u + 1
    <3>1. u + 1 < main.nbJobs
      BY ONLY <1>1, <2>2
    <3>2. QED
      BY <1>1, <1>3, <1>5, <1>9, <2>2, <3>1 DEF AllPosted
  <2>3. QED
    BY <1>1, <2>1, <2>2
<1>14. Begun'
  BY <1>9 DEF Begun, Streaming, AtOnce
<1>15. Backed'
  BY <1>1, <1>3, <1>5 DEF Backed
<1>16. QED
  BY <1>11, <1>12, <1>13, <1>14, <1>15 DEF OwnersInv

LEMMA CollectIs ==
  ASSUME InputInv, OwnersInv, Collect
  PROVE  /\ AtOnce /\ main.at = "collect" /\ main.job \in Nat /\ main.nbJobs \in Nat /\ main.job < main.nbJobs
         /\ Len(jobs) = main.nbJobs /\ main.nbJobs <= fed /\ fed \in Nat
         /\ main.job + 1 \in 1 .. Len(jobs) /\ Complete(jobs[main.job + 1])
         /\ \A i \in 1 .. main.job : Complete(jobs[i])
         /\ UNCHANGED <<serial, queue, worker, inBuff, fed, frames>>
         /\ LET failed == main.failed \/ jobs[main.job + 1].error
            IN /\ output' = IF failed THEN output
                            ELSE output \o jobs[main.job + 1].out
                                   \o (IF main.job = main.nbJobs - 1 THEN <<Sum(serial.hashed)>> ELSE <<>>)
               /\ \/ /\ main.job # main.nbJobs - 1 /\ main'.at = "collect" /\ main'.job = main.job + 1
                     /\ main'.failed = failed /\ main'.said = main.said /\ main'.nbJobs = main.nbJobs
                     /\ mt' = mt /\ jobs' = jobs
                  \/ /\ main.job = main.nbJobs - 1 /\ main'.at = "out" /\ main'.job = 0
                     /\ main'.failed = FALSE /\ main'.said = IF failed THEN "error" ELSE "done"
                     /\ jobs' = <<>>
                     /\ IsMt(mt') /\ mt'.doneJobID = mt.doneJobID /\ mt'.nextJobID = mt.nextJobID
                     /\ mt'.nbWorkers = mt.nbWorkers
<1> DEFINE failed == main.failed \/ jobs[main.job + 1].error
<1>1. main.at = "collect" /\ AtOnce /\ Complete(jobs[main.job + 1]) /\ UNCHANGED <<serial, queue, worker, inBuff, fed, frames>>
  BY DEF Collect, Collected, buffers, AtOnce
<1>2. IsMain(main) /\ main.job \in Nat /\ main.nbJobs \in Nat /\ fed \in Nat /\ IsMt(mt)
  BY DEF InputInv, Shapes, IsMain
<1>3. main.job < main.nbJobs /\ Len(jobs) = main.nbJobs /\ main.nbJobs <= fed /\ \A i \in 1 .. main.job : Complete(jobs[i])
  BY <1>1 DEF OwnersInv, AllPosted
<1>4. main.job + 1 \in 1 .. Len(jobs)
  BY ONLY <1>2, <1>3
<1>5. output' = IF failed THEN output
                ELSE output \o jobs[main.job + 1].out \o (IF main.job = main.nbJobs - 1 THEN <<Sum(serial.hashed)>> ELSE <<>>)
  BY DEF Collect, Collected
<1>6. CASE main.job # main.nbJobs - 1
  <2>1. main' = [main EXCEPT !.job = @ + 1, !.failed = failed] /\ UNCHANGED <<mt, jobs>>
    BY <1>6 DEF Collect, Collected
  <2> HIDE DEF failed
  <2>2. main'.at = "collect" /\ main'.job = main.job + 1 /\ main'.failed = failed /\ main'.said = main.said /\ main'.nbJobs = main.nbJobs
    BY <1>1, <1>2, <2>1 DEF IsMain, Has, MainFields
  <2>3. QED
    BY <1>1, <1>2, <1>3, <1>4, <1>5, <1>6, <2>1, <2>2 DEF failed
<1>7. CASE main.job = main.nbJobs - 1
  <2>1. /\ main' = [main EXCEPT !.at = "out", !.job = 0, !.nbJobs = 0, !.failed = FALSE,
                                !.said = IF failed THEN "error" ELSE "done"]
        /\ jobs' = <<>>
        /\ mt' = IF failed THEN mt ELSE [mt EXCEPT !.frameEnded = TRUE, !.allJobsCompleted = TRUE]
    BY <1>7 DEF Collect, Collected
  <2> HIDE DEF failed
  <2>2. main'.at = "out" /\ main'.job = 0 /\ main'.failed = FALSE /\ main'.said = IF failed THEN "error" ELSE "done"
    BY <1>2, <2>1 DEF IsMain, Has, MainFields
  <2>3. IsMt(mt') /\ mt'.doneJobID = mt.doneJobID /\ mt'.nextJobID = mt.nextJobID /\ mt'.nbWorkers = mt.nbWorkers
    BY <1>2, <2>1 DEF IsMt, Has, MtFields
  <2>4. QED
    BY <1>1, <1>2, <1>3, <1>4, <1>5, <1>7, <2>1, <2>2, <2>3 DEF failed
<1>8. QED
  BY <1>6, <1>7

LEMMA CollectOwners ==
  ASSUME InputInv, OwnersInv, Collect
  PROVE  OwnersInv'
<1> DEFINE f == main.failed \/ jobs[main.job + 1].error
<1>1. /\ AtOnce /\ main.job \in Nat /\ main.nbJobs \in Nat /\ main.job < main.nbJobs
      /\ Len(jobs) = main.nbJobs /\ main.nbJobs <= fed
      /\ main.job + 1 \in 1 .. Len(jobs) /\ Complete(jobs[main.job + 1])
      /\ \A i \in 1 .. main.job : Complete(jobs[i])
      /\ UNCHANGED <<queue, worker, inBuff, fed, frames>>
      /\ \/ /\ main.job # main.nbJobs - 1 /\ main'.at = "collect" /\ main'.job = main.job + 1 /\ main'.nbJobs = main.nbJobs
            /\ mt' = mt /\ jobs' = jobs
         \/ /\ main.job = main.nbJobs - 1 /\ main'.at = "out" /\ main'.job = 0
            /\ main'.failed = FALSE /\ main'.said = IF f THEN "error" ELSE "done"
            /\ jobs' = <<>>
            /\ IsMt(mt') /\ mt'.doneJobID = mt.doneJobID /\ mt'.nextJobID = mt.nextJobID
            /\ mt'.nbWorkers = mt.nbWorkers
  BY CollectIs
<1> HIDE DEF f
<1>2. IsMt(mt) /\ mt.doneJobID = 0 /\ mt.nextJobID = 0 /\ ~mt.jobReady /\ 1 < main.nbJobs
  BY <1>1 DEF InputInv, Shapes, OwnersInv, AllPosted
<1>3. CASE main.job # main.nbJobs - 1
  <2>1. main'.at = "collect" /\ main'.job = main.job + 1 /\ main'.nbJobs = main.nbJobs /\ mt' = mt /\ jobs' = jobs
    BY <1>1, <1>3
  <2>2. AtOnce' /\ ~Streaming'
    BY <2>1 DEF AtOnce, Streaming
  <2>3. Owners'
    BY <1>1, <1>2, <2>1, <2>2, OwnersRest DEF OwnersInv
  <2>4. WorkerShapes'
    BY <1>1, <2>1, WorkersRest DEF OwnersInv
  <2>5. main.job + 1 < main.nbJobs /\ \A i \in 1 .. main.job + 1 : Complete(jobs[i])
    <3>1. main.job + 1 < main.nbJobs
      BY ONLY <1>1, <1>3
    <3>2. \A i \in 1 .. main.job + 1 : i \in 1 .. main.job \/ i = main.job + 1
      BY <1>1
    <3>3. QED
      BY <1>1, <3>1, <3>2
  <2>6. AllPosted' /\ Begun' /\ Backed'
    BY <1>1, <1>2, <2>1, <2>2, <2>5 DEF OwnersInv, AllPosted, Begun, Backed
  <2>7. QED
    BY <2>3, <2>4, <2>6 DEF OwnersInv
<1>4. CASE main.job = main.nbJobs - 1
  <2>1. /\ main'.at = "out" /\ main'.job = 0 /\ main'.failed = FALSE /\ main'.said \in {"error", "done"}
        /\ jobs' = <<>> /\ mt'.doneJobID = 0 /\ mt'.nextJobID = 0 /\ mt'.nbWorkers = mt.nbWorkers
    BY <1>1, <1>2, <1>4
  <2>2. \A i \in 1 .. Len(jobs) : Complete(jobs[i])
    <3>1. \A i \in 1 .. Len(jobs) : i \in 1 .. main.job \/ i = main.job + 1
      BY <1>1, <1>4
    <3>2. QED
      BY <1>1, <3>1
  <2>3. Active = {} /\ queue = None
    BY <2>2, NobodyHas DEF OwnersInv
  <2>4. Owners'
    BY <1>1, <2>1, <2>3, OwnersNone
  <2>5. WorkerShapes'
    BY <1>1, <2>1, WorkersRest DEF OwnersInv
  <2>6. Len(jobs') = 0
    BY <2>1
  <2>7. AllPosted' /\ Begun' /\ Backed'
    BY <2>1, <2>6 DEF AllPosted, AtOnce, Begun, Streaming, InFrame, Backed
  <2>8. QED
    BY <2>4, <2>5, <2>7 DEF OwnersInv
<1>5. QED
  BY <1>3, <1>4

LEMMA CompressStreamOwners ==
  ASSUME InputInv, OwnersInv, Orderly, NEW op \in bound.orders, NEW n \in bound.offers \cup {main.left}, NEW room,
         CompressStream(op, n, room)
  PROVE  OwnersInv'
<1>1. Streaming /\ op \in Orders /\ worker' = worker /\ frames' = frames
  BY CompressStreamIs DEF CompressStream
<1>2. PICK b \in Sections, p \in Int, goes \in Orders, left \in Nat, progress \in BOOLEAN :
        CallOf(op, room, b, p, goes, left, progress)
  BY CompressStreamIs
<1>3. QED
  BY <1>1, <1>2, CallOwners

LEMMA FlushStreamOwners ==
  ASSUME InputInv, OwnersInv, Orderly, NEW op \in bound.orders, NEW room, FlushStream(op, room)
  PROVE  OwnersInv'
<1>1. Streaming /\ op \in Orders /\ worker' = worker /\ frames' = frames
  BY FlushStreamIs DEF FlushStream
<1>2. PICK b \in Sections, p \in Int, goes \in Orders, left \in Nat, progress \in BOOLEAN :
        CallOf(op, room, b, p, goes, left, progress)
  BY FlushStreamIs
<1>3. QED
  BY <1>1, <1>2, CallOwners

(* Every step leaves each job to whoever has it. *)
LEMMA StepOwners ==
  ASSUME InputInv, OwnersInv, Orderly, [Next]_vars
  PROVE  OwnersInv'
<1>1. IsMt(mt) /\ IsMain(main) /\ (Streaming => Count)
  BY DEF InputInv, Shapes, StreamInv
<1>2. ASSUME NEW w \in Workers, Step(w) \/ Fails(w) PROVE OwnersInv'
  BY <1>1, <1>2, OwnersStep
<1>3. CASE Inside
  <2>1. CASE FlushWait \/ CollectWait
    BY <2>1, RestOwners DEF FlushWait, CollectWait, shared, buffers
  <2>2. CASE FlushFails
    BY <2>2, RestOwners DEF FlushFails, shared, buffers
  <2>3. QED
    BY <1>3, <2>1, <2>2, ResetOwners, WaitForJobOwners, ReleaseAllOwners, FlushOwners, PostNextOwners, CollectOwners
       DEF Inside
<1>4. CASE Call
  BY <1>4, InitCStreamOwners, AdvancedOwners, CompressStreamOwners, FlushStreamOwners DEF Call
<1>5. CASE SpuriousWakeup \/ UNCHANGED vars
  BY <1>5, RestOwners DEF SpuriousWakeup, shared, buffers, vars
<1>6. QED
  BY <1>2, <1>3, <1>4, <1>5 DEF Next

LEMMA OrderlyReady == Orderly => NoReadyRestart
BY DEF Orderly, NoReadyRestart

(* Every job in a worker's hands, or waiting in the pool, is in the table. *)
LEMMA OwnersGiveJobs ==
  ASSUME InputInv, OwnersInv
  PROVE  JobsStayWithTheirWorkers
<1>1. ASSUME NEW id, InHand(id)
      PROVE  \E i \in DOMAIN jobs : jobs[i].frame = frames /\ jobs[i].jobID = id
  <2>1. id \in Nat /\ At(id) \in 1 .. Len(jobs)
    BY <1>1 DEF InHand
  <2>2. At(id) \in DOMAIN jobs
    BY <2>1 DEF OwnersInv, Owners, AreJobs, IsSequence
  <2>3. mt.doneJobID + At(id) - 1 = id
    <3>1. mt.doneJobID \in Int
      BY DEF InputInv, Shapes, IsMt
    <3>2. At(id) = id - mt.doneJobID + 1
      BY DEF At
    <3>3. QED
      BY ONLY <2>1, <3>1, <3>2
  <2>4. jobs[At(id)].jobID = mt.doneJobID + At(id) - 1 /\ jobs[At(id)].frame = frames
    BY <2>1 DEF OwnersInv, Owners
  <2>5. QED
    BY <2>2, <2>3, <2>4
<1>2. ASSUME NEW r \in Given \cup ({queue} \ {None})
      PROVE  \E i \in DOMAIN jobs : jobs[i].frame = r.frame /\ jobs[i].jobID = r.jobID
  <2>1. CASE r \in Given
    <3>1. PICK w \in Active : r = [frame |-> worker[w].frame, jobID |-> worker[w].jobID]
      BY <2>1 DEF Given, Active
    <3>2. InHand(r.jobID) /\ r.frame = frames
      BY <3>1 DEF OwnersInv, Owners
    <3>3. QED
      BY <1>1, <3>2
  <2>2. CASE r = queue /\ queue # None
    BY <1>1, <2>2 DEF OwnersInv, Owners
  <2>3. QED
    BY <1>2, <2>1, <2>2
<1>3. QED
  BY <1>2 DEF JobsStayWithTheirWorkers

(* The two invariants below the frame. *)
LEMMA AlwaysOwned == Orderly => (Spec => [](InputInv /\ OwnersInv))
<1> SUFFICES ASSUME Orderly PROVE Spec => [](InputInv /\ OwnersInv)
  OBVIOUS
<1>1. Init => InputInv /\ OwnersInv
  BY InvHoldsAtFirst, OwnersAtFirst
<1>2. ASSUME InputInv, OwnersInv, [Next]_vars PROVE InputInv' /\ OwnersInv'
  BY <1>2, OrderlyReady, StepKeeps, StepOwners
<1>3. QED
  BY <1>1, <1>2, PTL DEF Spec

(* A worker works on the job it was given until it has reported it: the    *)
(* caller does not free, reuse or wipe the description of a job that is in *)
(* the pool or in a worker's hands.                                        *)
THEOREM JobsStay == Orderly => (Spec => []JobsStayWithTheirWorkers)
<1> SUFFICES ASSUME Orderly PROVE Spec => []JobsStayWithTheirWorkers
  OBVIOUS
<1>1. Spec => [](InputInv /\ OwnersInv)
  BY AlwaysOwned
<1>2. InputInv /\ OwnersInv => JobsStayWithTheirWorkers
  BY OwnersGiveJobs
<1>3. QED
  BY <1>1, <1>2, PTL

-----------------------------------------------------------------------------
(* A job's part of the frame: the header, a block for each chunk, and the  *)
(* end; how much there is of them when so much is consumed; and where the  *)
(* part begins.  A last job that is not the first needs the caller to put  *)
(* the checksum behind it.                                                 *)

HeadLen(j) == IF j.jobID = 0 THEN 1 ELSE 0
EndLen(j) ==
  IF ~j.lastJob THEN 0 ELSE IF j.jobID = 0 THEN 2 ELSE IF j.frameChecksumNeeded \/ j.user THEN 1 ELSE 2
Whole(j) == HeadLen(j) + j.src.size + EndLen(j)
SoFar(j) == IF j.consumed = 0 THEN 0 ELSE HeadLen(j) + j.consumed
Base(j) == j.from - HeadLen(j)
Fresh(j) == j.consumed = 0 /\ j.out = <<>> /\ ~j.error

(* What job j has written reads like its part of the frame of n chunks, as *)
(* far as it got, and is all of it once the job is complete; the caller    *)
(* has flushed some of it.                                                 *)
TextOf(j, n) ==
  /\ Reads(j.out, Base(j), n)
  /\ Len(j.out) <= Whole(j)
  /\ j.dstFlushed \in 0 .. Len(j.out)
  /\ 0 <= j.consumed /\ j.consumed <= j.src.size
  /\ Complete(j) /\ ~j.error => Len(j.out) = Whole(j)
  /\ j.lastJob /\ j.jobID > 0 /\ ~j.user /\ ~Complete(j) => j.frameChecksumNeeded
  /\ j.frameChecksumNeeded => j.lastJob /\ j.jobID > 0 /\ ~j.user
  /\ j.error \in BOOLEAN /\ j.lastJob \in BOOLEAN /\ j.frameChecksumNeeded \in BOOLEAN

(* Where the part of the job at place i begins, r chunks being in jobs,    *)
(* and that the parts of the jobs js follow each other.                    *)
Start(js, r, i) == IF i <= Len(js) THEN js[i].from ELSE r + 1

Chain(js, r, n) ==
  \A i \in 1 .. Len(js) :
    /\ 1 <= js[i].from
    /\ js[i].from + js[i].src.size = Start(js, r, i + 1)
    /\ js[i].from + js[i].src.size <= r + 1
    /\ js[i].jobID = 0 => js[i].from = 1
    /\ js[i].lastJob => i = Len(js) /\ js[i].from + js[i].src.size = n + 1
    /\ js[i].src.size > 0 \/ js[i].lastJob

(* A frame is under way; how much of its input is in jobs; and no job of   *)
(* it has failed.                                                          *)
Running == InFrame /\ main.at \in {"out", "flush", "post", "collect"}
Reached == IF AtOnce THEN Before(Len(jobs)) ELSE fed - inBuff.filled

Sound == \A i \in 1 .. Len(jobs) : ~jobs[i].error

(* How far the job of a worker at a place in ZSTDMT_compressionJob is, and *)
(* that jobs which nobody has taken are untouched.                         *)
Stage(at, j) ==
  /\ at = "serial" => Fresh(j)
  /\ at = "chunks" => ~j.error /\ Len(j.out) = SoFar(j)
  /\ at = "report" => (~j.error => Len(j.out) = Whole(j))
  /\ at = "failed" => j.error
Staged ==
  /\ \A w \in Active : Stage(worker[w].at, jobs[At(worker[w].jobID)])
  /\ queue # None => Fresh(jobs[At(queue.jobID)])
  /\ mt.jobReady => Fresh(jobs[At(mt.nextJobID)])

(* Whose turn it is with the checksum (serialState.nextJobID), and what is *)
(* in it: the input of the jobs before, in its order.  A job that failed   *)
(* gives up its turn, after which this is not so.                          *)
Turns ==
  /\ \A w \in Active : /\ worker[w].at = "serial" => serial.nextJobID <= worker[w].jobID
                       /\ worker[w].at \in {"chunks", "report"} => worker[w].jobID < serial.nextJobID
  /\ queue # None => serial.nextJobID <= queue.jobID
  /\ mt.jobReady => serial.nextJobID <= mt.nextJobID
Hashed ==
  /\ mt.doneJobID <= serial.nextJobID /\ serial.nextJobID <= mt.doneJobID + Len(jobs)
  /\ serial.hashed = [k \in 1 .. Start(jobs, Reached, At(serial.nextJobID)) - 1 |-> k]
  /\ \A i \in 1 .. Len(jobs) : jobs[i].jobID >= serial.nextJobID => jobs[i].consumed = 0
Hashing == Sound => Turns /\ Hashed

(* All of this together, of a frame under way. *)
Flow ==
  /\ Reached \in Nat /\ Reached <= fed
  /\ Chain(jobs, Reached, fed)
  /\ \A i \in 1 .. Len(jobs) : TextOf(jobs[i], fed)
  /\ Staged
  /\ Hashing

FlowInv == Running => Flow

(* In a stream the output reaches as far as the first job has been         *)
(* flushed, or to the end of all that was in jobs.                         *)
Written ==
  Len(output) = IF jobs = <<>> THEN Reached + 1 - (IF mt.nextJobID = 0 THEN 1 ELSE 0) ELSE Base(jobs[1]) + jobs[1].dstFlushed
StreamFlow ==
  Streaming =>
    /\ mt.frameEnded => jobs # <<>> /\ inBuff.filled = 0
    /\ \A i \in 1 .. Len(jobs) : i = Len(jobs) => (jobs[i].lastJob <=> mt.frameEnded)
    /\ \A i \in 2 .. Len(jobs) : jobs[i].dstFlushed = 0
    /\ main.room \in Nat
    /\ Written

(* ZSTDMT_compress_advanced puts nothing out before all jobs are posted,   *)
(* and then the parts of the jobs it has collected, unless one has failed. *)
PostFlow ==
  AtOnce =>
    /\ \A i \in 1 .. Len(jobs) : jobs[i].lastJob <=> i = main.nbJobs
    /\ main.at = "post" => output = <<>> /\ ~main.failed
    /\ main.at = "collect" /\ ~main.failed =>
         /\ \A i \in 1 .. main.job : ~jobs[i].error
         /\ Len(output) = Base(jobs[main.job + 1])

(* What is out reads like the frame of what was fed; it is the whole frame *)
(* when the call said so.                                                  *)
OutputInv ==
  /\ frames \in Nat /\ serial.nextJobID \in Nat /\ Has(serial, {"nextJobID", "hashed"})
  /\ Reads(output, 0, fed) /\ Len(output) <= fed + 3
  /\ main.said = "done" /\ main.at = "out" /\ frames > 0 => Len(output) = fed + 3

FrameInv == FlowInv /\ StreamFlow /\ PostFlow /\ OutputInv
-----------------------------------------------------------------------------
(* What a worker writes *)

LEMMA JobParts ==
  ASSUME NEW j, IsJob(j)
  PROVE  /\ j.from \in Int /\ j.src.size \in Int /\ j.consumed \in Int /\ (j.user \in BOOLEAN)
         /\ HeadLen(j) \in {0, 1} /\ EndLen(j) \in {0, 1, 2} /\ Base(j) \in Int /\ Base(j) = j.from - HeadLen(j)
         /\ Whole(j) \in Int /\ Whole(j) = HeadLen(j) + j.src.size + EndLen(j)
<1>1. j.from \in Int /\ j.src.size \in Int /\ j.consumed \in Int /\ (j.user \in BOOLEAN)
  BY DEF IsJob, Ranges
<1>2. HeadLen(j) \in {0, 1} /\ EndLen(j) \in {0, 1, 2}
  BY DEF HeadLen, EndLen
<1>3. QED
  BY <1>1, <1>2 DEF Base, Whole

LEMMA WordBlock ==
  ASSUME NEW p \in Int, NEW n \in Nat, p > 1, p <= n + 1, NEW c, c = p - 1
  PROVE  Block(c) = Word(p, n)
<1>1. p # 1
  OBVIOUS
<1>2. QED
  BY <1>1 DEF Word

LEMMA PairIs == \A y, z : <<y, z>> = <<y>> \o <<z>>
<1> TAKE y, z
<1> DEFINE t == <<y>> \o <<z>>
<1>1. IsSequence(<<y, z>>) /\ Len(<<y, z>>) = 2 /\ <<y, z>>[1] = y /\ <<y, z>>[2] = z
  BY DEF IsSequence
<1>2. IsSequence(<<y>>) /\ Len(<<y>>) = 1 /\ <<y>>[1] = y /\ IsSequence(<<z>>) /\ Len(<<z>>) = 1 /\ <<z>>[1] = z
  BY SequenceOne
<1>3. /\ IsSequence(t) /\ Len(t) = Len(<<y>>) + Len(<<z>>)
      /\ \A i \in 1 .. Len(<<y>>) + Len(<<z>>) : t[i] = IF i <= Len(<<y>>) THEN <<y>>[i] ELSE <<z>>[i - Len(<<y>>)]
  BY ONLY <1>2, SequenceConcat
<1> HIDE DEF t
<1>4. IsSequence(t) /\ Len(t) = 2 /\ \A i \in 1 .. 2 : t[i] = IF i <= 1 THEN <<y>>[i] ELSE <<z>>[i - 1]
  BY ONLY <1>2, <1>3
<1>5. t[1] = y /\ t[2] = z
  BY ONLY <1>2, <1>4
<1>6. \A i \in 1 .. 2 : i = 1 \/ i = 2
  OBVIOUS
<1>7. \A i \in 1 .. Len(<<y, z>>) : <<y, z>>[i] = t[i]
  BY ONLY <1>1, <1>5, <1>6
<1>8. <<y, z>> = t
  BY ONLY <1>1, <1>4, <1>7, SequencesAgree
<1>9. QED
  BY <1>8 DEF t

(* The header of the first chunk and the block of the next continue what a *)
(* job has written.                                                        *)
LEMMA BlockOn ==
  ASSUME NEW j, IsJob(j), NEW n \in Nat, j.jobID = 0 => j.from = 1, 1 <= j.from, Reads(j.out, Base(j), n),
         Len(j.out) = SoFar(j), j.consumed \in Nat, NEW i \in Nat, i - 1 = j.consumed, j.from + i <= n + 1,
         NEW c \in Int, c + 1 = j.from + i, NEW h, i = 1 => h = FrameHeader(j), i # 1 => h = j.out
  PROVE  Reads(h \o <<Block(c)>>, Base(j), n) /\ Len(h \o <<Block(c)>>) = HeadLen(j) + i
<1> DEFINE b == <<Block(c)>>
<1>0. i \in Nat /\ i >= 1
  BY ONLY i - 1 = j.consumed, j.consumed \in Nat, i \in Nat
<1>1. /\ j.from \in Int /\ HeadLen(j) \in {0, 1} /\ Base(j) \in Int /\ Base(j) = j.from - HeadLen(j)
  BY JobParts
<1>2. Reads(h, Base(j), n) /\ Len(h) = HeadLen(j) + i - 1
  <2>1. CASE i = 1 /\ j.jobID = 0
    <3>0. j.from = 1 /\ HeadLen(j) = 1
      BY ONLY <2>1, j.jobID = 0 => j.from = 1 DEF HeadLen
    <3>1. h = <<Header>> /\ Base(j) = 0 /\ HeadLen(j) = 1
      <4>1. h = FrameHeader(j) /\ FrameHeader(j) = <<Header>>
        BY <2>1 DEF FrameHeader
      <4>2. QED
        BY ONLY <1>1, <3>0, <4>1
    <3>2. Header = Word(0 + 1, n)
      BY DEF Word
    <3>3. QED
      BY ONLY <2>1, <3>1, <3>2, ReadsOne
  <2>2. CASE i = 1 /\ j.jobID # 0
    <3>1. h = <<>> /\ HeadLen(j) = 0
      BY <2>2 DEF FrameHeader, HeadLen
    <3>2. QED
      BY ONLY <2>2, <3>1, ReadsEmpty
  <2>3. CASE i # 1
    <3>1. h = j.out /\ j.consumed # 0
      BY <2>3
    <3>2. QED
      BY <1>1, <3>1 DEF SoFar
  <2>4. QED
    BY <2>1, <2>2, <2>3
<1>3. Reads(b, Base(j) + Len(h), n) /\ Len(b) = 1
  <2>1. Base(j) + Len(h) = j.from + i - 1
    BY ONLY <1>0, <1>1, <1>2
  <2>2. Block(c) = Word(j.from + i - 1 + 1, n)
    <3>1. PICK p \in Int : p = j.from + i - 1 + 1
      BY ONLY <1>0, <1>1
    <3>2. p > 1 /\ p <= n + 1 /\ c = p - 1
      BY ONLY <1>0, <1>1, <3>1, c + 1 = j.from + i, c \in Int, j.from + i <= n + 1, 1 <= j.from
    <3>3. Block(c) = Word(p, n)
      BY ONLY <3>2, WordBlock, p \in Int, n \in Nat
    <3>4. QED
      BY ONLY <3>1, <3>3
  <2>3. QED
    BY ONLY <2>1, <2>2, ReadsOne
<1> HIDE DEF b
<1>5. Reads(h \o b, Base(j), n)
  BY ONLY <1>1, <1>2, <1>3, ReadsOn
<1>6. Len(h \o b) = Len(h) + Len(b)
  BY ONLY <1>2, <1>3, ReadsLength
<1>7. Len(h \o b) = HeadLen(j) + i
  BY ONLY <1>0, <1>1, <1>2, <1>3, <1>6
<1>8. QED
  BY <1>5, <1>7 DEF b

(* So does the end of the frame, behind the last chunk. *)
LEMMA EndOn ==
  ASSUME NEW j, IsJob(j), j.jobID \in Nat, NEW n \in Nat, j.jobID = 0 => j.from = 1, j.lastJob => j.from + j.src.size = n + 1,
         j.src.size \in Nat, \A i \in 1 .. j.src.size : Chunk(j, i) = j.from + i - 1,
         NEW from \in Int, from = j.from + j.src.size
  PROVE  Reads(FrameEnd(j), from, n) /\ Len(FrameEnd(j)) = IF ~j.lastJob THEN 0 ELSE IF j.jobID = 0 THEN 2 ELSE 1
<1>1. CASE ~j.lastJob
  <2>1. FrameEnd(j) = <<>>
    BY <1>1 DEF FrameEnd
  <2>2. QED
    BY ONLY <1>1, <2>1, ReadsEmpty
<1>2. LastBlock = Word(n + 1 + 1, n)
  <2>1. n + 1 + 1 # 1 /\ ~(n + 1 + 1 <= n + 1) /\ n + 1 + 1 = n + 2
    OBVIOUS
  <2>2. QED
    BY ONLY <2>1 DEF Word
<1>3. CASE j.lastJob /\ j.jobID # 0
  <2>1. FrameEnd(j) = <<LastBlock>>
    BY <1>3 DEF FrameEnd
  <2>2. from = n + 1
    BY <1>3
  <2>3. QED
    BY ONLY <1>2, <1>3, <2>1, <2>2, ReadsOne
<1>4. CASE j.lastJob /\ j.jobID = 0
  <2> DEFINE s == [i \in 1 .. j.src.size |-> Chunk(j, i)]
  <2>1. FrameEnd(j) = <<LastBlock, Sum(s)>>
    BY <1>4 DEF FrameEnd
  <2>2. from = n + 1 /\ j.from = 1 /\ j.src.size = n
    BY <1>4
  <2>3. s = [i \in 1 .. n |-> i]
    <3>1. \A i \in 1 .. n : Chunk(j, i) = i
      BY <2>2
    <3>2. QED
      BY <2>2, <3>1
  <2>4. Sum(s) = Word(n + 2 + 1, n)
    <3>1. n + 2 + 1 # 1 /\ ~(n + 2 + 1 <= n + 1) /\ n + 2 + 1 # n + 2
      OBVIOUS
    <3>2. QED
      BY ONLY <2>3, <3>1 DEF Word
  <2> HIDE DEF s
  <2>5. Reads(<<LastBlock>>, n + 1, n) /\ Len(<<LastBlock>>) = 1 /\ Reads(<<Sum(s)>>, n + 2, n) /\ Len(<<Sum(s)>>) = 1
    BY ONLY <1>2, <2>4, ReadsOne
  <2>6. <<LastBlock, Sum(s)>> = <<LastBlock>> \o <<Sum(s)>>
    BY ONLY PairIs
  <2>7. n + 2 = n + 1 + Len(<<LastBlock>>) /\ n + 1 \in Int
    BY <2>5
  <2>8. Reads(<<LastBlock>> \o <<Sum(s)>>, n + 1, n)
    BY ONLY <2>5, <2>7, ReadsOn
  <2>9. Len(<<LastBlock>> \o <<Sum(s)>>) = 1 + 1
    BY ONLY <2>5, ReadsLength
  <2>10. QED
    BY ONLY <1>4, <2>1, <2>2, <2>6, <2>8, <2>9
<1>5. QED
  BY <1>1, <1>3, <1>4

LEMMA SameParts ==
  ASSUME NEW j, NEW k, Same(j, k)
  PROVE  /\ HeadLen(k) = HeadLen(j) /\ Base(k) = Base(j)
         /\ k.frameChecksumNeeded = j.frameChecksumNeeded => EndLen(k) = EndLen(j) /\ Whole(k) = Whole(j)
         /\ k.consumed = j.consumed => SoFar(k) = SoFar(j) /\ (Complete(k) <=> Complete(j))
BY DEF Same, HeadLen, EndLen, Base, Whole, SoFar, Complete

(* A chunk that is not the last one *)
LEMMA TextChunk ==
  ASSUME NEW j, IsJob(j), NEW n \in Nat, TextOf(j, n), ~j.error, Len(j.out) = SoFar(j),
         j.jobID = 0 => j.from = 1, 1 <= j.from, j.from + j.src.size <= n + 1,
         NEW k, Same(j, k), k.error = j.error, k.dstFlushed = j.dstFlushed,
         k.frameChecksumNeeded = j.frameChecksumNeeded,
         k.consumed \in Int, k.consumed - 1 = j.consumed, k.consumed < j.src.size,
         NEW c \in Int, c + 1 = j.from + k.consumed,
         NEW h, k.consumed = 1 => h = FrameHeader(j), k.consumed # 1 => h = j.out, k.out = h \o <<Block(c)>>
  PROVE  TextOf(k, n) /\ ~k.error /\ Len(k.out) = SoFar(k)
<1> DEFINE i == k.consumed
           x == k.out
<1>b. /\ i \in Int /\ i - 1 = j.consumed /\ i < j.src.size /\ c \in Int /\ c + 1 = j.from + i
      /\ (i = 1 => h = FrameHeader(j)) /\ (i # 1 => h = j.out) /\ x = h \o <<Block(c)>>
      /\ k.consumed = i /\ k.out = x
  OBVIOUS
<1> HIDE DEF i, x
<1>1. /\ j.from \in Int /\ j.src.size \in Int /\ j.consumed \in Int /\ HeadLen(j) \in {0, 1} /\ EndLen(j) \in {0, 1, 2}
      /\ Base(j) \in Int /\ Whole(j) = HeadLen(j) + j.src.size + EndLen(j)
  BY JobParts
<1>2. /\ Reads(j.out, Base(j), n) /\ j.dstFlushed \in 0 .. Len(j.out) /\ 0 <= j.consumed
      /\ (j.lastJob /\ j.jobID > 0 /\ ~j.user /\ ~Complete(j) => j.frameChecksumNeeded)
      /\ (j.frameChecksumNeeded => j.lastJob /\ j.jobID > 0 /\ ~j.user)
      /\ j.error \in BOOLEAN /\ j.lastJob \in BOOLEAN /\ j.frameChecksumNeeded \in BOOLEAN
  BY DEF TextOf
<1>a. 0 <= j.consumed
  BY DEF TextOf
<1>3. j.consumed \in Nat /\ i \in Nat /\ i >= 1 /\ j.from + i <= n + 1 /\ ~(j.consumed >= j.src.size) /\ ~(i >= j.src.size)
  BY ONLY SMTT(30), <1>1, <1>a, <1>b, j.from + j.src.size <= n + 1, n \in Nat
<1>4. Reads(x, Base(j), n) /\ Len(x) = HeadLen(j) + i
  BY ONLY <1>2, <1>3, <1>b, BlockOn, IsJob(j), n \in Nat, j.jobID = 0 => j.from = 1, 1 <= j.from,
          Len(j.out) = SoFar(j)
<1>5. /\ HeadLen(k) = HeadLen(j) /\ Base(k) = Base(j) /\ EndLen(k) = EndLen(j) /\ Whole(k) = Whole(j)
      /\ k.lastJob = j.lastJob /\ k.jobID = j.jobID /\ k.user = j.user /\ k.src = j.src
  BY SameParts DEF Same
<1>6. ~Complete(j) /\ ~Complete(k)
  BY <1>3, <1>5, <1>b DEF Complete
<1>7. SoFar(k) = HeadLen(j) + i
  BY <1>3, <1>5, <1>b DEF SoFar
<1>8. Len(j.out) <= Len(x)
  <2>1. SoFar(j) \in Int /\ SoFar(j) <= HeadLen(j) + j.consumed
    BY ONLY <1>1, <1>3 DEF SoFar
  <2>2. QED
    BY ONLY SMTT(30), <1>1, <1>3, <1>4, <1>b, <2>1, Len(j.out) = SoFar(j)
<1>9. Len(x) <= Whole(j)
  BY ONLY SMTT(30), <1>1, <1>3, <1>4
<1>10. j.dstFlushed \in 0 .. Len(x)
  BY ONLY <1>1, <1>2, <1>3, <1>4, <1>8
<1>11. 0 <= k.consumed /\ k.consumed <= k.src.size
  BY ONLY <1>1, <1>3, <1>5, <1>b
<1>12. QED
  BY <1>2, <1>4, <1>5, <1>6, <1>7, <1>9, <1>10, <1>11, <1>b DEF TextOf

(* The last chunk, and the end of the frame *)
LEMMA TextLast ==
  ASSUME NEW j, IsJob(j), j.jobID \in Nat, NEW n \in Nat, TextOf(j, n), ~j.error, Len(j.out) = SoFar(j), ~Complete(j),
         j.jobID = 0 => j.from = 1, 1 <= j.from, j.from + j.src.size <= n + 1, j.lastJob => j.from + j.src.size = n + 1,
         \A y \in 1 .. j.src.size : Chunk(j, y) = j.from + y - 1, j.consumed + 1 >= j.src.size,
         NEW k, Same(j, k), k.error = j.error, k.consumed = j.consumed, k.dstFlushed = j.dstFlushed,
         k.frameChecksumNeeded = j.frameChecksumNeeded,
         NEW c \in Int, c - j.consumed = j.from,
         NEW h, j.consumed = 0 => h = FrameHeader(j), j.consumed # 0 => h = j.out, k.out = h \o <<Block(c)>> \o FrameEnd(j)
  PROVE  TextOf(k, n) /\ Len(k.out) = Whole(k)
<1> DEFINE i == j.consumed + 1
           x == k.out
<1>i. i = j.consumed + 1 /\ x = k.out
  OBVIOUS
<1> HIDE DEF i, x
<1> DEFINE z == h \o <<Block(c)>>
<1>1. /\ j.from \in Int /\ j.src.size \in Int /\ j.consumed \in Int /\ HeadLen(j) \in {0, 1} /\ EndLen(j) \in {0, 1, 2}
      /\ Base(j) \in Int /\ Base(j) = j.from - HeadLen(j) /\ Whole(j) = HeadLen(j) + j.src.size + EndLen(j)
      /\ (j.user \in BOOLEAN)
  BY JobParts
<1>2. /\ Reads(j.out, Base(j), n) /\ j.dstFlushed \in 0 .. Len(j.out) /\ 0 <= j.consumed
      /\ (j.lastJob /\ j.jobID > 0 /\ ~j.user /\ ~Complete(j) => j.frameChecksumNeeded)
      /\ (j.frameChecksumNeeded => j.lastJob /\ j.jobID > 0 /\ ~j.user)
      /\ j.error \in BOOLEAN /\ j.lastJob \in BOOLEAN /\ j.frameChecksumNeeded \in BOOLEAN
  BY DEF TextOf
<1>3. ~(j.consumed >= j.src.size)
  BY DEF Complete
<1>4. j.consumed \in Nat /\ i \in Nat /\ i >= 1 /\ i = j.src.size /\ j.src.size \in Nat /\ j.from + i <= n + 1
  BY ONLY <1>1, <1>2, <1>3, <1>i, j.consumed + 1 >= j.src.size, j.from + j.src.size <= n + 1, n \in Nat
<1>5. z = h \o <<Block(c)>> /\ x = z \o FrameEnd(j)
  BY <1>i
<1> HIDE DEF z
<1>6. Reads(z, Base(j), n) /\ Len(z) = HeadLen(j) + i
  <2>1. i \in Nat /\ j.from + i <= n + 1 /\ j.consumed \in Nat
    BY <1>4
  <2>2. z = h \o <<Block(c)>>
    BY <1>5
  <2>3. Reads(j.out, Base(j), n)
    BY <1>2
  <2>4. i - 1 = j.consumed /\ c + 1 = j.from + i /\ (i = 1 <=> j.consumed = 0)
    BY ONLY <1>1, <1>i, <2>1, c \in Int, c - j.consumed = j.from
  <2>5. (i = 1 => h = FrameHeader(j)) /\ (i # 1 => h = j.out)
    BY <2>4
  <2>6. QED
    BY ONLY <2>1, <2>2, <2>3, <2>4, <2>5, BlockOn, c \in Int, IsJob(j), n \in Nat, j.jobID = 0 => j.from = 1, 1 <= j.from,
          Len(j.out) = SoFar(j)
<1>7. PICK from \in Int : from = j.from + j.src.size
  BY ONLY <1>1
<1>8. Reads(FrameEnd(j), from, n) /\ Len(FrameEnd(j)) = IF ~j.lastJob THEN 0 ELSE IF j.jobID = 0 THEN 2 ELSE 1
  BY ONLY <1>4, <1>7, EndOn, IsJob(j), j.jobID \in Nat, n \in Nat, j.jobID = 0 => j.from = 1,
          j.lastJob => j.from + j.src.size = n + 1, \A y \in 1 .. j.src.size : Chunk(j, y) = j.from + y - 1
<1>9. from = Base(j) + Len(z)
  <2>1. Len(z) = HeadLen(j) + i
    BY <1>6
  <2>2. QED
    BY ONLY SMTT(30), <1>1, <1>4, <2>1, <1>7
<1>10. Reads(x, Base(j), n)
  BY ONLY <1>1, <1>5, <1>6, <1>8, <1>9, ReadsOn
<1>11. Len(x) = Len(z) + Len(FrameEnd(j))
  BY ONLY <1>5, <1>6, <1>8, ReadsLength
<1>12. Len(FrameEnd(j)) = EndLen(j)
  <2>1. j.lastJob /\ j.jobID # 0 => j.frameChecksumNeeded \/ j.user
    <3>1. j.jobID # 0 => j.jobID > 0
      BY ONLY j.jobID \in Nat
    <3>2. j.lastJob /\ j.jobID > 0 /\ ~j.user => j.frameChecksumNeeded
      BY <1>2
    <3>3. QED
      BY ONLY <3>1, <3>2
  <2>2. QED
    BY ONLY <1>8, <2>1 DEF EndLen
<1>13. Len(x) = Whole(j)
  BY ONLY <1>1, <1>4, <1>6, <1>11, <1>12
<1>14. /\ HeadLen(k) = HeadLen(j) /\ Base(k) = Base(j) /\ EndLen(k) = EndLen(j) /\ Whole(k) = Whole(j)
       /\ k.lastJob = j.lastJob /\ k.jobID = j.jobID /\ k.user = j.user /\ k.src = j.src /\ ~Complete(k)
  BY SameParts DEF Same
<1>15. j.dstFlushed \in 0 .. Len(x) /\ Len(x) <= Whole(j)
  <2>1. Len(j.out) <= Whole(j) /\ Len(j.out) \in Nat
    BY DEF TextOf, Reads, IsSequence
  <2>2. QED
    BY ONLY <1>1, <1>2, <1>4, <1>13, <2>1
<1>16. 0 <= k.consumed /\ k.consumed <= k.src.size
  BY ONLY <1>1, <1>2, <1>3, <1>14, k.consumed = j.consumed
<1>17. QED
  BY <1>2, <1>10, <1>13, <1>14, <1>15, <1>16, <1>i DEF TextOf

LEMMA TextFails ==
  ASSUME NEW j, NEW n, TextOf(j, n), NEW k, Same(j, k), k.error = TRUE, k.out = j.out, k.consumed = j.consumed,
         k.dstFlushed = j.dstFlushed, k.frameChecksumNeeded = j.frameChecksumNeeded
  PROVE  TextOf(k, n)
<1>1. /\ Base(k) = Base(j) /\ Whole(k) = Whole(j) /\ (Complete(k) <=> Complete(j))
      /\ k.lastJob = j.lastJob /\ k.jobID = j.jobID /\ k.user = j.user /\ k.src = j.src
  BY SameParts DEF Same
<1>2. QED
  BY <1>1 DEF TextOf

LEMMA TextReport ==
  ASSUME NEW j, IsJob(j), NEW n, TextOf(j, n), ~j.error => Len(j.out) = Whole(j),
         NEW k, Same(j, k), k.error = j.error, k.out = j.out, k.consumed = j.src.size,
         k.dstFlushed = j.dstFlushed, k.frameChecksumNeeded = j.frameChecksumNeeded
  PROVE  TextOf(k, n)
<1>1. /\ Base(k) = Base(j) /\ Whole(k) = Whole(j)
      /\ k.lastJob = j.lastJob /\ k.jobID = j.jobID /\ k.user = j.user /\ k.src = j.src
  BY SameParts DEF Same
<1>2. j.src.size \in Int /\ j.consumed \in Int
  BY JobParts
<1>3. Complete(k)
  BY <1>1, <1>2 DEF Complete
<1>4. 0 <= k.consumed /\ k.consumed <= k.src.size
  BY <1>1, <1>2 DEF TextOf
<1>5. QED
  BY <1>1, <1>3, <1>4 DEF TextOf

(* What steps of the workers leave as it is *)

LEMMA RunningIs ==
  ASSUME InputInv, OwnersInv, Running
  PROVE  /\ IsMt(mt) /\ IsMain(main) /\ AreJobs(jobs) /\ IsSequence(jobs) /\ Len(jobs) \in Nat /\ fed \in Nat
         /\ \A i \in 1 .. Len(jobs) : IsJob(jobs[i]) /\ jobs[i].jobID = mt.doneJobID + i - 1 /\ jobs[i].jobID \in Nat
         /\ mt.doneJobID \in Nat /\ mt.nextJobID \in Nat
         /\ mt.jobReady => At(mt.nextJobID) = Len(jobs) /\ Len(jobs) > 0 /\ ~AtOnce
         /\ Streaming \/ AtOnce
<1>1. IsMt(mt) /\ IsMain(main) /\ fed \in Nat /\ mt.doneJobID \in Nat /\ mt.nextJobID \in Nat
  BY DEF InputInv, Shapes, IsMt
<1>2. AreJobs(jobs) /\ IsSequence(jobs) /\ Len(jobs) \in Nat
  BY DEF OwnersInv, Owners, AreJobs, IsSequence
<1>3. \A i \in 1 .. Len(jobs) : IsJob(jobs[i]) /\ jobs[i].jobID = mt.doneJobID + i - 1
  BY <1>2 DEF OwnersInv, Owners, AreJobs
<1>4. \A i \in 1 .. Len(jobs) : jobs[i].jobID \in Nat
  <2> TAKE i \in 1 .. Len(jobs)
  <2>1. jobs[i].jobID = mt.doneJobID + i - 1
    BY <1>3
  <2>2. QED
    BY ONLY <1>1, <2>1, i \in 1 .. Len(jobs)
<1>5. Streaming \/ AtOnce
  BY DEF Running, Streaming, AtOnce
<1>6. mt.jobReady => At(mt.nextJobID) = Len(jobs) /\ Len(jobs) > 0 /\ ~AtOnce
  <2>1. mt.jobReady => ~AtOnce
    BY DEF OwnersInv, AllPosted
  <2>2. mt.jobReady => Len(jobs) = mt.nextJobID - mt.doneJobID + 1 /\ mt.doneJobID <= mt.nextJobID
    BY <1>5, <2>1 DEF InputInv, StreamInv, Count
  <2>3. QED
    BY <1>1, <1>2, <2>1, <2>2 DEF At
<1>7. QED
  BY <1>1, <1>2, <1>3, <1>4, <1>5, <1>6

LEMMA ChunkIs ==
  ASSUME InputInv, OwnersInv, Running, NEW k \in 1 .. Len(jobs), ~Complete(jobs[k])
  PROVE  \A i \in 1 .. jobs[k].src.size : Chunk(jobs[k], i) = jobs[k].from + i - 1
<1>1. CASE jobs[k].user
  BY <1>1 DEF Chunk
<1>2. CASE ~jobs[k].user
  <2>1. ~Posting
    BY <1>2 DEF InputInv, PostInv
  <2>2. Streaming
    BY <2>1 DEF Running, Streaming, Posting
  <2>3. Placed(jobs[k], ring, pos, inBuff)
    BY <2>2 DEF InputInv, StreamInv, Layout
  <2>4. QED
    BY <1>2, <2>3 DEF Placed, JobIntact, HoldsIn, Chunk
<1>3. QED
  BY <1>1, <1>2

LEMMA StartSame ==
  ASSUME NEW js, NEW ks, Len(ks) = Len(js), Len(js) \in Nat, \A i \in 1 .. Len(js) : Same(js[i], ks[i]), NEW r
  PROVE  \A i \in Nat \ {0} : Start(ks, r, i) = Start(js, r, i)
BY DEF Start, Same

LEMMA ChainSame ==
  ASSUME NEW js, NEW ks, Len(ks) = Len(js), Len(js) \in Nat, \A i \in 1 .. Len(js) : Same(js[i], ks[i]), NEW r, NEW n
  PROVE  Chain(js, r, n) => Chain(ks, r, n)
<1>1. \A i \in Nat \ {0} : Start(ks, r, i) = Start(js, r, i)
  BY StartSame
<1>2. \A i \in 1 .. Len(js) : i + 1 \in Nat \ {0} /\ Start(ks, r, i + 1) = Start(js, r, i + 1)
  BY <1>1
<1>3. \A i \in 1 .. Len(js) :
        ks[i].from = js[i].from /\ ks[i].src = js[i].src /\ ks[i].jobID = js[i].jobID /\ ks[i].lastJob = js[i].lastJob
  BY DEF Same
<1>4. QED
  BY <1>1, <1>2, <1>3 DEF Chain

LEMMA ReachedRests ==
  ASSUME UNCHANGED <<mt, main, fed, inBuff>>, Len(jobs') = Len(jobs)
  PROVE  Reached' = Reached /\ (Running' <=> Running) /\ (AtOnce' <=> AtOnce) /\ (Streaming' <=> Streaming)
BY DEF Reached, Running, AtOnce, Streaming, InFrame, Before

LEMMA HandsApart ==
  ASSUME InputInv, OwnersInv, Running, NEW w \in Active
  PROVE  /\ worker[w].jobID \in Nat /\ At(worker[w].jobID) \in 1 .. Len(jobs) /\ ~Complete(jobs[At(worker[w].jobID)])
         /\ jobs[At(worker[w].jobID)].jobID = worker[w].jobID
         /\ \A v \in Active : v # w =>
              /\ worker[v].jobID \in Nat /\ At(worker[v].jobID) \in 1 .. Len(jobs)
              /\ worker[v].jobID # worker[w].jobID /\ At(worker[v].jobID) # At(worker[w].jobID)
         /\ queue # None =>
              /\ queue.jobID \in Nat /\ At(queue.jobID) \in 1 .. Len(jobs)
              /\ queue.jobID # worker[w].jobID /\ At(queue.jobID) # At(worker[w].jobID)
         /\ mt.jobReady => mt.nextJobID # worker[w].jobID /\ At(mt.nextJobID) # At(worker[w].jobID)
                           /\ At(mt.nextJobID) \in 1 .. Len(jobs)
<1>1. /\ mt.doneJobID \in Nat /\ mt.nextJobID \in Nat /\ Len(jobs) \in Nat
      /\ \A i \in 1 .. Len(jobs) : jobs[i].jobID = mt.doneJobID + i - 1
      /\ mt.jobReady => At(mt.nextJobID) = Len(jobs) /\ Len(jobs) > 0 /\ ~AtOnce
  BY RunningIs
<1>2. \A v \in Active : InHand(worker[v].jobID)
  BY DEF OwnersInv, Owners
<1>3. \A id \in Nat, x \in Nat : id # x => At(id) # At(x)
  BY <1>1 DEF At
<1>4. worker[w].jobID \in Nat /\ At(worker[w].jobID) \in 1 .. Len(jobs) /\ ~Complete(jobs[At(worker[w].jobID)])
  BY <1>2 DEF InHand
<1>5. jobs[At(worker[w].jobID)].jobID = worker[w].jobID
  <2>1. mt.doneJobID + At(worker[w].jobID) - 1 = worker[w].jobID
    BY <1>1, <1>4 DEF At
  <2>2. QED
    BY <1>1, <1>4, <2>1
<1>6. ASSUME NEW v \in Active, v # w
      PROVE  /\ worker[v].jobID \in Nat /\ At(worker[v].jobID) \in 1 .. Len(jobs)
             /\ worker[v].jobID # worker[w].jobID /\ At(worker[v].jobID) # At(worker[w].jobID)
  <2>1. worker[v].jobID \in Nat /\ At(worker[v].jobID) \in 1 .. Len(jobs)
    BY <1>2 DEF InHand
  <2>2. worker[v].jobID # worker[w].jobID
    BY <1>6 DEF OwnersInv, Owners
  <2>3. QED
    BY <1>3, <1>4, <2>1, <2>2
<1>7. ASSUME queue # None
      PROVE  /\ queue.jobID \in Nat /\ At(queue.jobID) \in 1 .. Len(jobs)
             /\ queue.jobID # worker[w].jobID /\ At(queue.jobID) # At(worker[w].jobID)
  <2>1. queue.jobID \in Nat /\ At(queue.jobID) \in 1 .. Len(jobs)
    BY <1>7 DEF OwnersInv, Owners, InHand
  <2>2. queue.jobID # worker[w].jobID
    BY <1>7 DEF OwnersInv, Owners
  <2>3. QED
    BY <1>3, <1>4, <2>1, <2>2
<1>8. ASSUME mt.jobReady
      PROVE  mt.nextJobID # worker[w].jobID /\ At(mt.nextJobID) # At(worker[w].jobID) /\ At(mt.nextJobID) \in 1 .. Len(jobs)
  <2>1. worker[w].jobID < mt.nextJobID
    BY <1>1, <1>2, <1>8 DEF InHand
  <2>2. QED
    BY <1>1, <1>3, <1>4, <1>8, <2>1
<1>9. QED
  BY <1>4, <1>5, <1>6, <1>7, <1>8

(* A worker w that changes at most its own job, at place p. *)
LEMMA StepFlows ==
  ASSUME InputInv, OwnersInv, Running, Flow, serial.nextJobID \in Nat, NEW w \in Active, NEW p, p = At(worker[w].jobID),
         UNCHANGED <<mt, main, fed, inBuff, queue>>, IsSequence(jobs'), Len(jobs') = Len(jobs),
         \A i \in 1 .. Len(jobs) : Same(jobs[i], jobs'[i]) /\ (i # p => jobs'[i] = jobs[i]),
         TextOf(jobs'[p], fed),
         \A v \in Workers : v # w => worker'[v] = worker[v],
         worker'[w].jobID = worker[w].jobID, worker'[w].at \in {"chunks", "failed", "report", "leave"},
         Stage(worker'[w].at, jobs'[p]),
         Sound' => /\ Sound
                   /\ \/ serial'.nextJobID = serial.nextJobID
                      \/ serial.nextJobID = worker[w].jobID /\ serial'.nextJobID = worker[w].jobID + 1
                   /\ worker'[w].at \in {"chunks", "report"} => worker[w].jobID < serial'.nextJobID
                   /\ Hashed'
  PROVE  Flow'
<1>1. Reached' = Reached /\ \A x : At(x)' = At(x)
  BY ReachedRests DEF At
<1>2. Reached' \in Nat /\ Reached' <= fed'
  BY <1>1 DEF Flow
<1>3. Chain(jobs', Reached', fed')
  <2>1. Len(jobs) \in Nat
    BY RunningIs
  <2>2. Chain(jobs, Reached, fed)
    BY DEF Flow
  <2>3. Chain(jobs', Reached, fed)
    BY <2>1, <2>2, ChainSame
  <2>4. QED
    BY <1>1, <2>3
<1>4. \A i \in 1 .. Len(jobs') : TextOf(jobs'[i], fed')
  BY DEF Flow
<1>5. \A v \in Active' : v # w => v \in Active
  BY DEF Active
<1>6. /\ \A v \in Active : v # w => At(worker[v].jobID) \in 1 .. Len(jobs) /\ At(worker[v].jobID) # p
                                    /\ worker[v].jobID \in Nat /\ worker[v].jobID # worker[w].jobID
      /\ queue # None => At(queue.jobID) \in 1 .. Len(jobs) /\ At(queue.jobID) # p
                         /\ queue.jobID \in Nat /\ queue.jobID # worker[w].jobID
      /\ mt.jobReady => At(mt.nextJobID) \in 1 .. Len(jobs) /\ At(mt.nextJobID) # p /\ mt.nextJobID # worker[w].jobID
      /\ worker[w].jobID \in Nat
  BY HandsApart
<1>7. mt.nextJobID \in Nat /\ mt' = mt /\ queue' = queue
  BY RunningIs
<1>8. Staged'
  <2>1. ASSUME NEW v \in Active' PROVE Stage(worker'[v].at, jobs'[At(worker'[v].jobID)])
    <3>1. CASE v = w
      BY <3>1
    <3>2. CASE v # w
      <4>1. v \in Active /\ worker'[v] = worker[v] /\ v \in Workers
        BY <1>5, <3>2 DEF Active
      <4>2. jobs'[At(worker[v].jobID)] = jobs[At(worker[v].jobID)]
        BY <1>6, <3>2, <4>1
      <4>3. Stage(worker[v].at, jobs[At(worker[v].jobID)])
        BY <4>1 DEF Flow, Staged
      <4>4. QED
        BY <4>1, <4>2, <4>3
    <3>3. QED
      BY <3>1, <3>2
  <2>2. queue # None => Fresh(jobs'[At(queue.jobID)])
    <3>1. queue # None => Fresh(jobs[At(queue.jobID)])
      BY DEF Flow, Staged
    <3>2. QED
      BY <1>6, <3>1
  <2>3. mt.jobReady => Fresh(jobs'[At(mt.nextJobID)])
    <3>1. mt.jobReady => Fresh(jobs[At(mt.nextJobID)])
      BY DEF Flow, Staged
    <3>2. QED
      BY <1>6, <3>1
  <2>4. QED
    BY <1>7, <2>1, <2>2, <2>3 DEF Staged, At
<1>9. ASSUME Sound' PROVE Turns' /\ Hashed'
  <2>1. Turns
    BY <1>9 DEF Flow, Hashing
  <2>2. \/ serial'.nextJobID = serial.nextJobID
        \/ serial.nextJobID = worker[w].jobID /\ serial'.nextJobID = worker[w].jobID + 1
    BY <1>9
  <2>3. worker[w].jobID \in Nat /\ serial.nextJobID \in Nat
    BY <1>6
  <2>4. ASSUME NEW v \in Active'
        PROVE  /\ worker'[v].at = "serial" => serial'.nextJobID <= worker'[v].jobID
               /\ worker'[v].at \in {"chunks", "report"} => worker'[v].jobID < serial'.nextJobID
    <3>1. CASE v = w
      BY <1>9, <3>1
    <3>2. CASE v # w
      <4>1. v \in Active /\ worker'[v] = worker[v] /\ v \in Workers
        BY <1>5, <3>2 DEF Active
      <4>2. /\ worker[v].at = "serial" => serial.nextJobID <= worker[v].jobID
            /\ worker[v].at \in {"chunks", "report"} => worker[v].jobID < serial.nextJobID
        BY <2>1, <4>1 DEF Turns
      <4>3. worker[v].jobID \in Nat /\ worker[v].jobID # worker[w].jobID
        BY <1>6, <3>2, <4>1
      <4>4. QED
        <5>1. /\ serial.nextJobID <= worker[v].jobID => serial'.nextJobID <= worker[v].jobID
              /\ worker[v].jobID < serial.nextJobID => worker[v].jobID < serial'.nextJobID
          BY ONLY <2>2, <2>3, <4>3
        <5>2. QED
          BY ONLY <4>1, <4>2, <5>1
    <3>3. QED
      BY <3>1, <3>2
  <2>5. queue # None => serial'.nextJobID <= queue.jobID
    <3>1. queue # None => serial.nextJobID <= queue.jobID /\ queue.jobID \in Nat /\ queue.jobID # worker[w].jobID
      BY <1>6, <2>1 DEF Turns
    <3>2. QED
      BY ONLY <2>2, <2>3, <3>1
  <2>6. mt.jobReady => serial'.nextJobID <= mt.nextJobID
    <3>1. mt.jobReady => serial.nextJobID <= mt.nextJobID /\ mt.nextJobID \in Nat /\ mt.nextJobID # worker[w].jobID
      BY <1>6, <1>7, <2>1 DEF Turns
    <3>2. QED
      BY ONLY <2>2, <2>3, <3>1
  <2>7. QED
    BY <1>7, <1>9, <2>4, <2>5, <2>6 DEF Turns
<1>10. QED
  BY <1>2, <1>3, <1>4, <1>8, <1>9 DEF Flow, Hashing

(* The chunks up to n. *)
UpTo(n) == [k \in 1 .. n |-> k]

(* Chunks a + 1 .. b go into the checksum behind chunks 1 .. a. *)
LEMMA NumbersOn ==
  ASSUME NEW a \in Nat, NEW n \in Nat, NEW t, t = [k \in 1 .. n |-> t[k]],
         \A k \in 1 .. n : t[k] = a + k, NEW b \in Int, b - a = n
  PROVE  UpTo(a) \o t = UpTo(b)
<1> DEFINE u == UpTo(b)
           s == UpTo(a)
<1>1. IsSequence(s) /\ Len(s) = a /\ \A k \in 1 .. a : s[k] = k
  BY Numbers DEF UpTo
<1>2. IsSequence(t) /\ Len(t) = n
  BY SequenceUpTo
<1>3. IsSequence(u) /\ Len(u) = b /\ \A k \in 1 .. b : u[k] = k
  <2>1. b \in Nat
    BY ONLY a \in Nat, n \in Nat, b \in Int, b - a = n
  <2>2. QED
    BY <2>1, Numbers DEF UpTo
<1>4. /\ IsSequence(s \o t) /\ Len(s \o t) = a + n
      /\ \A i \in 1 .. a + n : (s \o t)[i] = IF i <= a THEN s[i] ELSE t[i - a]
  <2>1. /\ IsSequence(s \o t) /\ Len(s \o t) = Len(s) + Len(t)
        /\ \A i \in 1 .. Len(s) + Len(t) : (s \o t)[i] = IF i <= Len(s) THEN s[i] ELSE t[i - Len(s)]
    BY ONLY <1>1, <1>2, SequenceConcat
  <2>2. QED
    BY ONLY <1>1, <1>2, <2>1
<1> HIDE DEF u, s
<1>a. b = a + n
  BY ONLY a \in Nat, n \in Nat, b \in Int, b - a = n
<1>5. ASSUME NEW i \in 1 .. a + n PROVE (s \o t)[i] = u[i]
  <2>1. u[i] = i
    BY <1>3, <1>a
  <2>2. CASE i <= a
    <3>1. i \in 1 .. a
      BY <2>2
    <3>2. QED
      BY ONLY <1>1, <1>4, <2>1, <2>2, <3>1, i \in 1 .. a + n
  <2>3. CASE ~(i <= a)
    <3>1. i - a \in 1 .. n
      BY ONLY <2>3, i \in 1 .. a + n, a \in Nat, n \in Nat
    <3>2. t[i - a] = a + (i - a)
      BY <3>1
    <3>3. (s \o t)[i] = t[i - a]
      BY ONLY <1>4, <2>3, i \in 1 .. a + n
    <3>4. a + (i - a) = i
      BY ONLY i \in 1 .. a + n, a \in Nat, n \in Nat
    <3>5. QED
      BY ONLY <2>1, <3>2, <3>3, <3>4
  <2>4. QED
    BY <2>2, <2>3
<1>6. s \o t = u
  <2>1. Len(s \o t) = Len(u)
    BY <1>3, <1>4, <1>a
  <2>2. \A i \in 1 .. Len(s \o t) : (s \o t)[i] = u[i]
    BY <1>4, <1>5
  <2>3. QED
    BY ONLY <1>3, <1>4, <2>1, <2>2, SequencesAgree
<1>7. QED
  BY <1>6 DEF u, s

LEMMA HashedRests ==
  ASSUME InputInv, OwnersInv, Running, Hashed, serial.nextJobID \in Nat, NEW w \in Active, NEW p,
         UNCHANGED <<mt, main, fed, inBuff, serial>>, Len(jobs') = Len(jobs), p = At(worker[w].jobID),
         \A i \in 1 .. Len(jobs) : Same(jobs[i], jobs'[i]) /\ (i # p => jobs'[i] = jobs[i]),
         jobs'[p].consumed = jobs[p].consumed \/ worker[w].jobID < serial.nextJobID
  PROVE  Hashed'
<1>1. Reached' = Reached
  BY ReachedRests
<1>2. mt.doneJobID \in Nat /\ Len(jobs) \in Nat
  BY RunningIs
<1>3. mt.doneJobID <= serial.nextJobID
  BY DEF Hashed
<1>4. At(serial.nextJobID) \in Nat \ {0}
  BY ONLY <1>2, <1>3, serial.nextJobID \in Nat DEF At
<1>5. Start(jobs', Reached, At(serial.nextJobID)) = Start(jobs, Reached, At(serial.nextJobID))
  <2>1. \A i \in Nat \ {0} : Start(jobs', Reached, i) = Start(jobs, Reached, i)
    BY <1>2, StartSame
  <2>2. QED
    BY ONLY <1>4, <2>1
<1>6. ASSUME NEW i \in 1 .. Len(jobs), jobs'[i].jobID >= serial.nextJobID PROVE jobs'[i].consumed = 0
  <2>1. jobs'[i].jobID = jobs[i].jobID
    BY DEF Same
  <2>2. jobs[i].consumed = 0
    BY <1>6, <2>1 DEF Hashed
  <2>3. CASE i # p
    BY <2>2, <2>3
  <2>4. CASE i = p
    <3>1. jobs[p].jobID = worker[w].jobID /\ worker[w].jobID \in Nat
      BY HandsApart
    <3>2. ~(worker[w].jobID < serial.nextJobID)
      BY <1>6, <2>1, <2>4, <3>1
    <3>3. QED
      BY <2>2, <2>4, <3>2
  <2>5. QED
    BY <2>3, <2>4
<1>7. serial' = serial /\ mt' = mt
  OBVIOUS
<1>8. serial'.hashed = [k \in 1 .. Start(jobs', Reached', At(serial.nextJobID)) - 1 |-> k]
  BY <1>1, <1>5, <1>7 DEF Hashed
<1>9. QED
  BY <1>3, <1>6, <1>7, <1>8 DEF Hashed, At

LEMMA WorkerHas ==
  ASSUME InputInv, OwnersInv, Running, Flow, NEW w \in Active, NEW p, p = At(worker[w].jobID)
  PROVE  /\ p \in 1 .. Len(jobs) /\ Job(w) = jobs[p] /\ IsJob(jobs[p]) /\ ~Complete(jobs[p]) /\ fed \in Nat
         /\ jobs[p].jobID = worker[w].jobID /\ worker[w].jobID \in Nat
         /\ TextOf(jobs[p], fed) /\ Stage(worker[w].at, jobs[p])
         /\ jobs[p].jobID = 0 => jobs[p].from = 1
         /\ 1 <= jobs[p].from
         /\ jobs[p].from + jobs[p].src.size <= fed + 1
         /\ jobs[p].lastJob => jobs[p].from + jobs[p].src.size = fed + 1
         /\ \A i \in 1 .. jobs[p].src.size : Chunk(jobs[p], i) = jobs[p].from + i - 1
<1>1. /\ p \in 1 .. Len(jobs) /\ ~Complete(jobs[p]) /\ jobs[p].jobID = worker[w].jobID /\ worker[w].jobID \in Nat
  BY HandsApart
<1>2. Job(w) = jobs[p]
  BY DEF Job, Place, At
<1>3. IsJob(jobs[p]) /\ fed \in Nat
  BY <1>1, RunningIs
<1>4. TextOf(jobs[p], fed) /\ Stage(worker[w].at, jobs[p])
  BY <1>1 DEF Flow, Staged
<1>5. /\ jobs[p].jobID = 0 => jobs[p].from = 1
      /\ 1 <= jobs[p].from
      /\ jobs[p].from + jobs[p].src.size <= Reached + 1 /\ Reached \in Nat /\ Reached <= fed
      /\ jobs[p].lastJob => jobs[p].from + jobs[p].src.size = fed + 1
  BY <1>1 DEF Flow, Chain
<1>6. jobs[p].from \in Int /\ jobs[p].src.size \in Int
  BY <1>3, JobParts
<1>7. jobs[p].from + jobs[p].src.size <= fed + 1
  BY ONLY <1>3, <1>5, <1>6
<1>8. \A i \in 1 .. jobs[p].src.size : Chunk(jobs[p], i) = jobs[p].from + i - 1
  BY <1>1, ChunkIs
<1>9. QED
  BY <1>1, <1>2, <1>3, <1>4, <1>5, <1>7, <1>8

(* The steps of the workers *)

LEMMA FailFlows ==
  ASSUME InputInv, OwnersInv, Running, Flow, serial.nextJobID \in Nat, NEW w \in Workers, Fails(w)
  PROVE  Flow'
<1> DEFINE p == At(worker[w].jobID)
           k == [jobs[p] EXCEPT !.error = TRUE]
<1>1. w \in Active /\ jobs' = [jobs EXCEPT ![p] = [Job(w) EXCEPT !.error = TRUE]] /\ Goto(w, "failed")
      /\ UNCHANGED <<mt, main, fed, inBuff, queue, serial>>
  BY DEF Fails, SetJob, MainRests, buffers, Active, At, Place
<1>2. /\ p \in 1 .. Len(jobs) /\ Job(w) = jobs[p] /\ IsJob(jobs[p]) /\ TextOf(jobs[p], fed)
  BY <1>1, WorkerHas
<1>3. Same(jobs[p], k) /\ k.error = TRUE /\ k.out = jobs[p].out /\ k.consumed = jobs[p].consumed
      /\ k.dstFlushed = jobs[p].dstFlushed /\ k.frameChecksumNeeded = jobs[p].frameChecksumNeeded
  BY <1>2, JobFailed
<1>4. IsSequence(jobs') /\ Len(jobs') = Len(jobs) /\ \A i \in 1 .. Len(jobs) : jobs'[i] = IF i = p THEN k ELSE jobs[i]
  <2>1. AreJobs(jobs) /\ jobs' = [jobs EXCEPT ![p] = k]
    BY <1>1, <1>2, RunningIs
  <2> HIDE DEF p, k
  <2>2. QED
    BY ONLY <2>1, SetJobIs
<1> HIDE DEF p, k
<1>5. TextOf(k, fed)
  BY ONLY <1>2, <1>3, TextFails
<1>6. jobs'[p] = k /\ p = At(worker[w].jobID)
  BY <1>2, <1>4 DEF p
<1>7. Stage("failed", k)
  BY <1>3 DEF Stage
<1>8. \A i \in 1 .. Len(jobs) : Same(jobs[i], jobs'[i]) /\ (i # p => jobs'[i] = jobs[i])
  BY <1>3, <1>4 DEF Same
<1>9. /\ \A v \in Workers : v # w => worker'[v] = worker[v]
      /\ worker'[w].at = "failed" /\ worker'[w].jobID = worker[w].jobID
  BY <1>1, GotoIs DEF OwnersInv
<1>10. ~Sound'
  BY <1>2, <1>3, <1>4, <1>6 DEF Sound
<1>11. QED
  BY <1>1, <1>4, <1>5, <1>6, <1>7, <1>8, <1>9, <1>10, StepFlows

LEMMA SoundRests ==
  ASSUME Len(jobs') = Len(jobs), \A i \in 1 .. Len(jobs) : jobs'[i].error = jobs[i].error
  PROVE  Sound' <=> Sound
BY DEF Sound

LEMMA GiveUpFlows ==
  ASSUME InputInv, OwnersInv, Running, Flow, serial.nextJobID \in Nat, NEW w \in Workers, GiveUpTurn(w)
  PROVE  Flow'
<1> DEFINE p == At(worker[w].jobID)
<1>1. w \in Active /\ worker[w].at = "failed" /\ jobs' = jobs /\ Goto(w, "report")
      /\ UNCHANGED <<mt, main, fed, inBuff, queue>>
  BY DEF GiveUpTurn, MainRests, buffers, Active
<1>2. /\ p \in 1 .. Len(jobs) /\ TextOf(jobs[p], fed) /\ Stage(worker[w].at, jobs[p])
  BY <1>1, WorkerHas
<1>3. jobs[p].error
  BY <1>1, <1>2 DEF Stage
<1>4. ~Sound'
  BY <1>1, <1>2, <1>3 DEF Sound
<1>5. Stage("report", jobs'[p]) /\ TextOf(jobs'[p], fed)
  BY <1>1, <1>2, <1>3 DEF Stage
<1>6. /\ \A v \in Workers : v # w => worker'[v] = worker[v]
      /\ worker'[w].at = "report" /\ worker'[w].jobID = worker[w].jobID
  BY <1>1, GotoIs DEF OwnersInv
<1>7. IsSequence(jobs') /\ \A i \in 1 .. Len(jobs) : Same(jobs[i], jobs'[i])
  BY <1>1, RunningIs DEF Same
<1>8. p = At(worker[w].jobID)
  OBVIOUS
<1> HIDE DEF p
<1>9. QED
  BY <1>1, <1>4, <1>5, <1>6, <1>7, <1>8, StepFlows

LEMMA ReportFlows ==
  ASSUME InputInv, OwnersInv, Running, Flow, serial.nextJobID \in Nat, NEW w \in Workers, Report(w)
  PROVE  Flow'
<1> DEFINE p == At(worker[w].jobID)
           k == [jobs[p] EXCEPT !.consumed = jobs[p].src.size]
<1>1. w \in Active /\ worker[w].at = "report" /\ jobs' = [jobs EXCEPT ![p] = [Job(w) EXCEPT !.consumed = Job(w).src.size]]
      /\ Goto(w, "leave") /\ UNCHANGED <<mt, main, fed, inBuff, queue, serial>>
  BY DEF Report, SetJob, MainRests, buffers, Active, At, Place
<1>2. /\ p \in 1 .. Len(jobs) /\ Job(w) = jobs[p] /\ IsJob(jobs[p]) /\ TextOf(jobs[p], fed) /\ Stage(worker[w].at, jobs[p])
  BY <1>1, WorkerHas
<1>3. Same(jobs[p], k) /\ k.error = jobs[p].error /\ k.out = jobs[p].out /\ k.consumed = jobs[p].src.size
      /\ k.dstFlushed = jobs[p].dstFlushed /\ k.frameChecksumNeeded = jobs[p].frameChecksumNeeded
  <2>1. IsJob(jobs[p])
    BY <1>2
  <2>2. QED
    BY ONLY <2>1, JobReported
<1>4. IsSequence(jobs') /\ Len(jobs') = Len(jobs) /\ \A i \in 1 .. Len(jobs) : jobs'[i] = IF i = p THEN k ELSE jobs[i]
  <2>1. AreJobs(jobs) /\ jobs' = [jobs EXCEPT ![p] = k]
    BY <1>1, <1>2, RunningIs
  <2> HIDE DEF p, k
  <2>2. QED
    BY ONLY <2>1, SetJobIs
<1> HIDE DEF p, k
<1>5. TextOf(k, fed)
  <2>1. ~jobs[p].error => Len(jobs[p].out) = Whole(jobs[p])
    BY <1>1, <1>2 DEF Stage
  <2>2. QED
    BY ONLY <1>2, <1>3, <2>1, TextReport
<1>6. jobs'[p] = k /\ p = At(worker[w].jobID)
  BY <1>2, <1>4 DEF p
<1>7. Stage("leave", k)
  BY DEF Stage
<1>8. \A i \in 1 .. Len(jobs) : Same(jobs[i], jobs'[i]) /\ (i # p => jobs'[i] = jobs[i])
  BY <1>3, <1>4 DEF Same
<1>9. /\ \A v \in Workers : v # w => worker'[v] = worker[v]
      /\ worker'[w].at = "leave" /\ worker'[w].jobID = worker[w].jobID
  BY <1>1, GotoIs DEF OwnersInv
<1>10. ASSUME Sound' PROVE Sound /\ Hashed'
  <2>1. \A i \in 1 .. Len(jobs) : jobs'[i].error = jobs[i].error
    BY <1>3, <1>4
  <2>2. Sound
    BY <1>4, <1>10, <2>1, SoundRests
  <2>3. worker[w].jobID < serial.nextJobID /\ Hashed
    BY <1>1, <2>2 DEF Flow, Hashing, Turns
  <2>4. QED
    BY <1>1, <1>4, <1>6, <1>8, <2>2, <2>3, HashedRests
<1>11. QED
  BY <1>1, <1>4, <1>5, <1>6, <1>7, <1>8, <1>9, <1>10, StepFlows

LEMMA ChunkFlows ==
  ASSUME InputInv, OwnersInv, Running, Flow, serial.nextJobID \in Nat, NEW w \in Workers, CompressChunk(w)
  PROVE  Flow'
<1> DEFINE p == At(worker[w].jobID)
           j == jobs[p]
           i == j.consumed + 1
           c == Chunk(j, i)
           h == IF i = 1 THEN FrameHeader(j) ELSE j.out
           x == h \o <<Block(c)>>
           k == [j EXCEPT !.out = x, !.consumed = i]
<1>1. w \in Active /\ worker[w].at = "chunks" /\ UNCHANGED <<mt, main, fed, inBuff, queue, serial, worker>>
  BY DEF CompressChunk, MainRests, buffers, Active
<1>2. /\ p \in 1 .. Len(jobs) /\ Job(w) = j /\ IsJob(j) /\ TextOf(j, fed) /\ Stage("chunks", j) /\ ~Complete(j)
      /\ (j.jobID = 0 => j.from = 1) /\ 1 <= j.from /\ j.from + j.src.size <= fed + 1 /\ fed \in Nat
      /\ \A y \in 1 .. j.src.size : Chunk(j, y) = j.from + y - 1
  BY <1>1, WorkerHas
<1>3. i < j.src.size /\ jobs' = [jobs EXCEPT ![p] = [j EXCEPT !.out = x, !.consumed = i]]
  BY <1>2 DEF CompressChunk, SetJob, At, Place
<1>4. Same(j, k) /\ k.error = j.error /\ k.out = x /\ k.consumed = i
      /\ k.dstFlushed = j.dstFlushed /\ k.frameChecksumNeeded = j.frameChecksumNeeded
  <2>1. IsJob(j)
    BY <1>2
  <2>2. k = [j EXCEPT !.out = x, !.consumed = i]
    OBVIOUS
  <2> HIDE DEF j, i, x, k
  <2>3. QED
    BY ONLY <2>1, <2>2 DEF IsJob, Has, JobFields, Same
<1>5. IsSequence(jobs') /\ Len(jobs') = Len(jobs) /\ \A y \in 1 .. Len(jobs) : jobs'[y] = IF y = p THEN k ELSE jobs[y]
  <2>1. AreJobs(jobs) /\ jobs' = [jobs EXCEPT ![p] = k]
    BY <1>3, RunningIs
  <2> HIDE DEF p, k
  <2>2. QED
    BY ONLY <2>1, SetJobIs
<1>6. /\ (i = 1 => h = FrameHeader(j)) /\ (i # 1 => h = j.out) /\ x = h \o <<Block(c)>>
      /\ j = jobs[p] /\ c = Chunk(j, i) /\ p = At(worker[w].jobID)
  OBVIOUS
<1>a. i = j.consumed + 1
  OBVIOUS
<1> HIDE DEF p, j, i, c, h, x, k
<1>7. i \in Int /\ i - 1 = j.consumed /\ i < j.src.size /\ c \in Int /\ c + 1 = j.from + i
  <2>1. j.consumed \in Int /\ 0 <= j.consumed /\ j.src.size \in Int /\ j.from \in Int
    BY <1>2, JobParts DEF TextOf
  <2>2. i < j.src.size
    BY <1>3
  <2>3. i \in 1 .. j.src.size /\ i \in Int /\ i - 1 = j.consumed
    BY ONLY <1>a, <2>1, <2>2
  <2>4. c = j.from + i - 1
    BY <1>2, <1>6, <2>3
  <2>5. QED
    BY ONLY <2>1, <2>2, <2>3, <2>4
<1>8. ~j.error /\ Len(j.out) = SoFar(j)
  BY <1>2 DEF Stage
<1>9. TextOf(k, fed) /\ ~k.error /\ Len(k.out) = SoFar(k)
  <2>1. /\ k.consumed \in Int /\ k.consumed - 1 = j.consumed /\ k.consumed < j.src.size /\ c + 1 = j.from + k.consumed
        /\ (k.consumed = 1 => h = FrameHeader(j)) /\ (k.consumed # 1 => h = j.out) /\ k.out = h \o <<Block(c)>>
    BY ONLY <1>4, <1>6, <1>7
  <2>2. Same(j, k) /\ k.error = j.error /\ k.dstFlushed = j.dstFlushed /\ k.frameChecksumNeeded = j.frameChecksumNeeded
    BY ONLY <1>4
  <2>3. c \in Int
    BY ONLY <1>7
  <2>4. QED
    BY ONLY <1>2, <1>8, <2>1, <2>2, <2>3, TextChunk
<1>10. jobs'[p] = k
  BY <1>2, <1>5
<1>11. Stage("chunks", k)
  BY <1>9 DEF Stage
<1>12. \A y \in 1 .. Len(jobs) : Same(jobs[y], jobs'[y]) /\ (y # p => jobs'[y] = jobs[y])
  BY <1>4, <1>5, <1>6 DEF Same
<1>13. ASSUME Sound' PROVE Sound /\ Hashed' /\ worker[w].jobID < serial.nextJobID
  <2>1. \A y \in 1 .. Len(jobs) : jobs'[y].error = jobs[y].error
    BY <1>4, <1>5, <1>6
  <2>2. Sound
    BY <1>5, <1>13, <2>1, SoundRests
  <2>3. worker[w].jobID < serial.nextJobID /\ Hashed
    BY <1>1, <2>2 DEF Flow, Hashing, Turns
  <2>4. QED
    BY <1>1, <1>5, <1>6, <1>12, <2>2, <2>3, HashedRests
<1>14. QED
  BY <1>1, <1>5, <1>6, <1>9, <1>10, <1>11, <1>12, <1>13, StepFlows

LEMMA LastFlows ==
  ASSUME InputInv, OwnersInv, Running, Flow, serial.nextJobID \in Nat, NEW w \in Workers, CompressLast(w)
  PROVE  Flow'
<1> DEFINE p == At(worker[w].jobID)
           j == jobs[p]
           i == j.consumed + 1
           c == Chunk(j, i)
           h == IF i = 1 THEN FrameHeader(j) ELSE j.out
           x == h \o (IF j.src.size = 0 THEN <<>> ELSE <<Block(c)>>) \o FrameEnd(j)
           k == [j EXCEPT !.out = x]
<1>1. w \in Active /\ worker[w].at = "chunks" /\ Goto(w, "report") /\ UNCHANGED <<mt, main, fed, inBuff, queue, serial>>
  BY DEF CompressLast, MainRests, buffers, Active
<1>2. /\ p \in 1 .. Len(jobs) /\ Job(w) = j /\ IsJob(j) /\ TextOf(j, fed) /\ Stage("chunks", j) /\ ~Complete(j)
      /\ (j.jobID = 0 => j.from = 1) /\ 1 <= j.from /\ j.from + j.src.size <= fed + 1 /\ fed \in Nat
      /\ (j.lastJob => j.from + j.src.size = fed + 1) /\ j.jobID \in Nat
      /\ \A y \in 1 .. j.src.size : Chunk(j, y) = j.from + y - 1
  BY <1>1, WorkerHas
<1>3. i >= j.src.size /\ jobs' = [jobs EXCEPT ![p] = [j EXCEPT !.out = x]]
  BY Zenon, <1>2 DEF CompressLast, SetJob, At, Place
<1>4. Same(j, k) /\ k.error = j.error /\ k.out = x /\ k.consumed = j.consumed
      /\ k.dstFlushed = j.dstFlushed /\ k.frameChecksumNeeded = j.frameChecksumNeeded
  <2>1. IsJob(j)
    BY <1>2
  <2>2. k = [j EXCEPT !.out = x]
    OBVIOUS
  <2> HIDE DEF j, i, x, k
  <2>3. QED
    BY ONLY <2>1, <2>2 DEF IsJob, Has, JobFields, Same
<1>5. IsSequence(jobs') /\ Len(jobs') = Len(jobs) /\ \A y \in 1 .. Len(jobs) : jobs'[y] = IF y = p THEN k ELSE jobs[y]
  <2>1. AreJobs(jobs) /\ jobs' = [jobs EXCEPT ![p] = k]
    BY Zenon, <1>3, RunningIs
  <2> HIDE DEF p, k
  <2>2. QED
    BY ONLY <2>1, SetJobIs
<1>6. /\ (i = 1 => h = FrameHeader(j)) /\ (i # 1 => h = j.out)
      /\ j = jobs[p] /\ c = Chunk(j, i) /\ p = At(worker[w].jobID)
  OBVIOUS
<1>a. i = j.consumed + 1
  OBVIOUS
<1>b. x = h \o (IF j.src.size = 0 THEN <<>> ELSE <<Block(c)>>) \o FrameEnd(j)
  OBVIOUS
<1> HIDE DEF p, j, i, c, h, x, k
<1>7. i \in Int /\ i - 1 = j.consumed /\ i >= j.src.size /\ c \in Int /\ c + 1 = j.from + i /\ j.src.size # 0
  <2>1. j.consumed \in Int /\ 0 <= j.consumed /\ j.src.size \in Int /\ j.from \in Int
    BY <1>2, JobParts DEF TextOf
  <2>2. i >= j.src.size
    BY <1>3
  <2>3. ~(j.consumed >= j.src.size)
    BY <1>2 DEF Complete
  <2>4. i \in 1 .. j.src.size /\ i \in Int /\ i - 1 = j.consumed /\ j.src.size # 0
    BY ONLY <1>a, <2>1, <2>2, <2>3
  <2>5. c = j.from + i - 1
    BY <1>2, <1>6, <2>4
  <2>6. QED
    BY ONLY <2>1, <2>2, <2>4, <2>5
<1>8. ~j.error /\ Len(j.out) = SoFar(j)
  BY <1>2 DEF Stage
<1>9. TextOf(k, fed) /\ Len(k.out) = Whole(k)
  <2>1. x = h \o <<Block(c)>> \o FrameEnd(j)
    BY ONLY <1>7, <1>b
  <2>2. Same(j, k) /\ k.error = j.error /\ k.dstFlushed = j.dstFlushed /\ k.frameChecksumNeeded = j.frameChecksumNeeded
        /\ k.consumed = j.consumed /\ k.out = x
    BY ONLY <1>4
  <2>3. j.consumed \in Int /\ j.from \in Int /\ j.src.size \in Int
    BY <1>2, JobParts
  <2>4. j.consumed + 1 >= j.src.size /\ c \in Int /\ c - j.consumed = j.from /\ (i = 1 <=> j.consumed = 0)
    BY ONLY <1>7, <2>3
  <2>5. (j.consumed = 0 => h = FrameHeader(j)) /\ (j.consumed # 0 => h = j.out)
    BY <1>6, <2>4
  <2>6. k.out = h \o <<Block(c)>> \o FrameEnd(j)
    BY ONLY <2>1, <2>2
  <2>7. Same(j, k) /\ k.error = j.error /\ k.dstFlushed = j.dstFlushed /\ k.frameChecksumNeeded = j.frameChecksumNeeded
        /\ k.consumed = j.consumed
    BY ONLY <2>2
  <2>8. QED
    BY ONLY ZenonT(40), <1>2, <1>8, <2>4, <2>5, <2>6, <2>7, TextLast
<1>10. jobs'[p] = k
  BY <1>2, <1>5
<1>11. Stage("report", k)
  BY <1>9 DEF Stage
<1>12. \A y \in 1 .. Len(jobs) : Same(jobs[y], jobs'[y]) /\ (y # p => jobs'[y] = jobs[y])
  BY <1>4, <1>5, <1>6 DEF Same
<1>13. ASSUME Sound' PROVE Sound /\ Hashed' /\ worker[w].jobID < serial.nextJobID
  <2>1. \A y \in 1 .. Len(jobs) : jobs'[y].error = jobs[y].error
    BY <1>4, <1>5, <1>6
  <2>2. Sound
    BY <1>5, <1>13, <2>1, SoundRests
  <2>3. worker[w].jobID < serial.nextJobID /\ Hashed
    BY <1>1, <2>2 DEF Flow, Hashing, Turns
  <2>4. jobs'[p].consumed = jobs[p].consumed
    BY <1>4, <1>6, <1>10
  <2>5. QED
    BY <1>1, <1>5, <1>6, <1>12, <2>2, <2>3, <2>4, HashedRests
<1>14. /\ \A v \in Workers : v # w => worker'[v] = worker[v]
       /\ worker'[w].at = "report" /\ worker'[w].jobID = worker[w].jobID
  BY <1>1, GotoIs DEF OwnersInv
<1>15. QED
  BY <1>1, <1>5, <1>6, <1>9, <1>10, <1>11, <1>12, <1>13, <1>14, StepFlows

(* A job whose turn it is (ZSTDMT_serialState_update) adds its input to    *)
(* the checksum: all jobs before it have, and no other worker can be here. *)
LEMMA SerialFlows ==
  ASSUME InputInv, OwnersInv, Running, Flow, serial.nextJobID \in Nat, NEW w \in Workers, SerialUpdate(w)
  PROVE  Flow'
<1> DEFINE p == At(worker[w].jobID)
           j == jobs[p]
           id == worker[w].jobID
<1>1. w \in Active /\ worker[w].at = "serial" /\ Goto(w, "chunks") /\ UNCHANGED <<mt, main, fed, inBuff, queue, jobs>>
  BY DEF SerialUpdate, MainRests, buffers, Active
<1>2. /\ p \in 1 .. Len(jobs) /\ Job(w) = j /\ IsJob(j) /\ TextOf(j, fed) /\ Stage("serial", j) /\ ~Complete(j)
      /\ 1 <= j.from /\ fed \in Nat /\ j.jobID = id /\ id \in Nat
      /\ \A y \in 1 .. j.src.size : Chunk(j, y) = j.from + y - 1
  BY <1>1, WorkerHas
<1>3. /\ serial.nextJobID >= id
      /\ serial' = [nextJobID |-> serial.nextJobID + 1,
                    hashed |-> IF serial.nextJobID = id THEN serial.hashed \o [i \in 1 .. j.src.size |-> Chunk(j, i)]
                               ELSE serial.hashed]
  BY <1>2 DEF SerialUpdate, SerialTurn
<1>4. /\ \A v \in Workers : v # w => worker'[v] = worker[v]
      /\ worker'[w].at = "chunks" /\ worker'[w].jobID = id
  BY <1>1, GotoIs DEF OwnersInv
<1>5. IsSequence(jobs') /\ Len(jobs') = Len(jobs) /\ \A y \in 1 .. Len(jobs) : Same(jobs[y], jobs'[y]) /\ jobs'[y] = jobs[y]
  BY <1>1, RunningIs DEF Same
<1>6. TextOf(jobs'[p], fed) /\ Stage("chunks", jobs'[p])
  <2>1. Fresh(j)
    BY <1>2 DEF Stage
  <2>2. ~j.error /\ Len(j.out) = 0 /\ SoFar(j) = 0
    BY <2>1, EmptySequence DEF Fresh, SoFar
  <2>3. QED
    BY <1>1, <1>2, <2>2 DEF Stage
<1>7. ASSUME Sound' PROVE Sound /\ serial.nextJobID = id /\ serial'.nextJobID = id + 1 /\ Hashed'
  <2>1. Sound
    BY <1>1, <1>7 DEF Sound
  <2>2. Turns /\ Hashed
    BY <2>1 DEF Flow, Hashing
  <2>3. serial.nextJobID <= id
    BY <1>1, <2>2 DEF Turns
  <2>4. serial.nextJobID = id
    BY ONLY <1>2, <1>3, <2>3, serial.nextJobID \in Nat
  <2>5. serial'.nextJobID = id + 1 /\ serial'.hashed = serial.hashed \o [i \in 1 .. j.src.size |-> Chunk(j, i)]
    BY Zenon, <1>3, <2>4
  <2>6. mt.doneJobID \in Nat /\ Len(jobs) \in Nat /\ mt' = mt
    BY <1>1, RunningIs
  <2>7. p = id - mt.doneJobID + 1
    BY DEF At
  <2>a. At(serial.nextJobID) = p
    BY <2>4
  <2>b. Start(jobs, Reached, p + 1) = j.from + j.src.size
    BY <1>2 DEF Flow, Chain
  <2>c. id \in Nat /\ j = jobs[p]
    BY <1>2
  <2> HIDE DEF p
  <2>8. p \in Nat /\ p <= Len(jobs) /\ p >= 1 /\ p + 1 = id + 1 - mt.doneJobID + 1
    BY ONLY <1>2, <2>6, <2>7
  <2>9. serial.hashed = [k \in 1 .. j.from - 1 |-> k]
    <3>1. Start(jobs, Reached, p) = j.from
      BY <2>8 DEF Start
    <3>2. QED
      BY ONLY <2>2, <2>a, <3>1 DEF Hashed
  <2>10. Start(jobs, Reached, p + 1) = j.from + j.src.size
    BY <2>b
  <2>11. j.from \in Int /\ j.src.size \in Nat /\ j.from - 1 \in Nat
    <3>1. j.from \in Int /\ j.src.size \in Int /\ j.consumed \in Int
      BY <1>2, JobParts
    <3>2. 0 <= j.consumed /\ j.consumed <= j.src.size /\ 1 <= j.from
      BY <1>2 DEF TextOf
    <3>3. QED
      BY ONLY <3>1, <3>2
  <2>12. serial'.hashed = [k \in 1 .. j.from + j.src.size - 1 |-> k]
    <3> DEFINE t == [i \in 1 .. j.src.size |-> Chunk(j, i)]
    <3>1. t = [i \in 1 .. j.src.size |-> t[i]] /\ \A i \in 1 .. j.src.size : t[i] = Chunk(j, i)
      OBVIOUS
    <3>2. serial'.hashed = serial.hashed \o t
      BY <2>5
    <3> HIDE DEF t, j
    <3>3. \A i \in 1 .. j.src.size : t[i] = (j.from - 1) + i
      <4> TAKE i \in 1 .. j.src.size
      <4>1. t[i] = j.from + i - 1
        BY <1>2, <3>1
      <4>2. QED
        BY ONLY <2>11, <4>1, i \in 1 .. j.src.size
    <3>4. PICK a \in Nat : a = j.from - 1
      BY ONLY <2>11
    <3>5. PICK b \in Int : b = j.from + j.src.size - 1
      BY ONLY <2>11
    <3>6. b = a + j.src.size
      BY ONLY <2>11, <3>4, <3>5
    <3>7. serial.hashed = UpTo(a)
      BY ONLY <2>9, <3>4 DEF UpTo
    <3>8. b - a = j.src.size /\ \A i \in 1 .. j.src.size : t[i] = a + i
      BY ONLY <2>11, <3>3, <3>4, <3>6
    <3>9. UpTo(a) \o t = UpTo(b)
      <4>1. PICK c \in Nat : c = j.src.size
        BY ONLY <2>11
      <4>2. t = [i \in 1 .. c |-> t[i]]
        BY ONLY <3>1, <4>1
      <4>3. b - a = c /\ \A i \in 1 .. c : t[i] = a + i
        BY ONLY <3>8, <4>1
      <4>4. QED
        BY ONLY ZenonT(40), <4>2, <4>3, NumbersOn, a \in Nat, b \in Int, c \in Nat
    <3>10. QED
      BY ONLY <3>2, <3>5, <3>7, <3>9 DEF UpTo
  <2>13. Reached' = Reached
    BY <1>1, ReachedRests
  <2>14. serial'.hashed = [k \in 1 .. Start(jobs', Reached', p + 1) - 1 |-> k]
    <3>1. jobs' = jobs
      BY <1>1
    <3>2. Start(jobs', Reached', p + 1) = j.from + j.src.size
      BY ONLY <2>10, <2>13, <3>1
    <3> HIDE DEF j, id
    <3>3. PICK c \in Int : c = j.from + j.src.size
      BY ONLY <2>11
    <3>4. Start(jobs', Reached', p + 1) = c
      BY ONLY <3>2, <3>3
    <3>5. serial'.hashed = UpTo(c - 1)
      <4>1. serial'.hashed = UpTo(j.from + j.src.size - 1)
        BY ONLY <2>12 DEF UpTo
      <4>2. PICK a : a = c - 1
        OBVIOUS
      <4>3. a = j.from + j.src.size - 1
        BY ONLY <2>11, <3>3, <4>2
      <4>4. serial'.hashed = UpTo(a)
        BY ONLY <4>1, <4>3
      <4>5. QED
        BY ONLY <4>2, <4>4
    <3>6. serial'.hashed = UpTo(Start(jobs', Reached', p + 1) - 1)
      BY ONLY <3>4, <3>5
    <3>7. QED
      BY ONLY <3>6 DEF UpTo
  <2>15. \A i \in 1 .. Len(jobs) : jobs[i].jobID >= id + 1 => jobs[i].consumed = 0
    <3> SUFFICES ASSUME NEW i \in 1 .. Len(jobs), jobs[i].jobID >= id + 1 PROVE jobs[i].consumed = 0
      OBVIOUS
    <3>1. jobs[i].jobID \in Nat
      BY RunningIs
    <3>2. jobs[i].jobID >= serial.nextJobID
      BY ONLY <1>2, <2>4, <3>1, jobs[i].jobID >= id + 1
    <3>3. QED
      BY <2>2, <3>2 DEF Hashed
  <2>d. serial'.nextJobID = id + 1
    BY <2>5
  <2> HIDE DEF id
  <2>16. mt.doneJobID <= id + 1 /\ id + 1 <= mt.doneJobID + Len(jobs)
    <3>1. id \in Nat
      BY <1>2
    <3>2. QED
      BY ONLY <2>6, <2>7, <2>8, <3>1
  <2>17. Hashed'
    <3>1. (At(serial.nextJobID))' = p + 1
      <4>1. serial'.nextJobID = id + 1 /\ mt' = mt /\ p + 1 = id + 1 - mt.doneJobID + 1
        BY <2>8, <2>d, <2>6
      <4>2. PICK q : q = p
        OBVIOUS
      <4>3. serial'.nextJobID - mt'.doneJobID + 1 = q + 1
        <5>1. id \in Nat /\ mt.doneJobID \in Int /\ p \in Int
          BY <1>2, RunningIs DEF IsMt
        <5>2. PICK d \in Int : d = mt.doneJobID
          BY ONLY <5>1
        <5>3. PICK i \in Nat : i = id
          BY ONLY <5>1
        <5>4. q \in Int /\ q + 1 = i + 1 - d + 1
          BY ONLY <4>1, <4>2, <5>1, <5>2, <5>3
        <5>5. serial'.nextJobID = i + 1 /\ mt'.doneJobID = d
          BY ONLY <4>1, <5>2, <5>3
        <5>6. QED
          BY ONLY <5>4, <5>5
      <4>4. (At(serial.nextJobID))' = q + 1
        BY <4>3 DEF At
      <4>5. QED
        BY <4>2, <4>4
    <3>2. QED
      BY <1>1, <2>5, <2>6, <2>14, <2>15, <2>16, <3>1 DEF Hashed
  <2>18. QED
    BY <2>1, <2>4, <2>5, <2>17
<1>8. p = At(worker[w].jobID) /\ id \in Nat /\ id < id + 1
  BY <1>2
<1>9. worker[w].jobID = id
  OBVIOUS
<1> HIDE DEF p, j, id
<1>10. QED
  BY <1>1, <1>4, <1>5, <1>6, <1>7, <1>8, <1>9, StepFlows

LEMMA SameJobsFlow ==
  ASSUME InputInv, OwnersInv, Running, Flow, UNCHANGED <<mt, main, fed, inBuff, jobs, serial>>, Staged', Sound => Turns'
  PROVE  Flow'
<1>1. Reached' = Reached /\ Len(jobs') = Len(jobs)
  BY ReachedRests
<1>2. Chain(jobs', Reached', fed') /\ Reached' \in Nat /\ Reached' <= fed'
  BY <1>1 DEF Flow
<1>3. \A i \in 1 .. Len(jobs') : TextOf(jobs'[i], fed')
  BY DEF Flow
<1>4. Sound' => Sound /\ Hashed
  BY DEF Flow, Hashing, Sound
<1>5. Sound' => Hashed'
  <2>1. Hashed => Hashed'
    BY <1>1 DEF Hashed, At
  <2>2. QED
    BY <1>4, <2>1
<1>6. QED
  BY <1>2, <1>3, <1>4, <1>5 DEF Flow, Hashing

LEMMA TakeFlows ==
  ASSUME InputInv, OwnersInv, Running, Flow, serial.nextJobID \in Nat, NEW w \in Workers, Take(w)
  PROVE  Flow'
<1>1. queue # None /\ queue' = None /\ worker[w].at = "idle" /\ UNCHANGED <<mt, main, fed, inBuff, jobs, serial>>
      /\ worker' = [worker EXCEPT ![w] = [at |-> "serial", frame |-> queue.frame, jobID |-> queue.jobID]]
  <2>1. \E v \in Workers : worker[v].at = "idle"
    BY SomeIsIdle DEF Take, OwnersInv
  <2>2. worker[w].at = "idle"
    BY <2>1 DEF Take
  <2>3. QED
    BY <2>2 DEF Take, buffers
<1>2. /\ \A v \in Workers : v # w => worker'[v] = worker[v]
      /\ worker'[w].at = "serial" /\ worker'[w].jobID = queue.jobID
  <2>1. worker = [v \in Workers |-> worker[v]]
    BY DEF OwnersInv, WorkerShapes
  <2>2. \A v \in Workers : v # w => worker'[v] = worker[v]
    BY <1>1, <2>1
  <2>3. worker'[w] = [at |-> "serial", frame |-> queue.frame, jobID |-> queue.jobID]
    BY <1>1, <2>1
  <2>4. QED
    BY <2>2, <2>3
<1>3. \A v \in Active' : v # w => v \in Active /\ worker'[v] = worker[v]
  BY <1>2 DEF Active
<1>4. Fresh(jobs[At(queue.jobID)])
  BY <1>1 DEF Flow, Staged
<1>5. ASSUME NEW v \in Active' PROVE Stage(worker'[v].at, jobs[At(worker'[v].jobID)])
  <2>1. CASE v = w
    BY <1>2, <1>4, <2>1 DEF Stage
  <2>2. CASE v # w
    BY <1>3, <2>2 DEF Flow, Staged
  <2>3. QED
    BY <2>1, <2>2
<1>6. Staged'
  BY <1>1, <1>5 DEF Flow, Staged, At
<1>7. ASSUME Sound PROVE Turns'
  <2>1. Turns
    BY <1>7 DEF Flow, Hashing
  <2>2. ASSUME NEW v \in Active'
        PROVE  /\ worker'[v].at = "serial" => serial.nextJobID <= worker'[v].jobID
               /\ worker'[v].at \in {"chunks", "report"} => worker'[v].jobID < serial.nextJobID
    <3>1. CASE v = w
      BY <1>1, <1>2, <2>1, <3>1 DEF Turns
    <3>2. CASE v # w
      BY <1>3, <2>1, <3>2 DEF Turns
    <3>3. QED
      BY <3>1, <3>2
  <2>3. QED
    BY <1>1, <2>1, <2>2 DEF Turns
<1>8. QED
  BY <1>1, <1>6, <1>7, SameJobsFlow

LEMMA LeaveFlows ==
  ASSUME InputInv, OwnersInv, Running, Flow, serial.nextJobID \in Nat, NEW w \in Workers, Leave(w)
  PROVE  Flow'
<1>1. queue' = queue /\ worker[w].at = "leave" /\ UNCHANGED <<mt, main, fed, inBuff, jobs, serial>>
      /\ worker' = [worker EXCEPT ![w] = Idle]
  BY DEF Leave, MainRests, buffers
<1>2. /\ \A v \in Workers : v # w => worker'[v] = worker[v]
      /\ worker'[w].at = "idle"
  <2>1. worker = [v \in Workers |-> worker[v]]
    BY DEF OwnersInv, WorkerShapes
  <2>2. QED
    BY <1>1, <2>1 DEF Idle
<1>3. \A v \in Active' : v \in Active /\ worker'[v] = worker[v]
  BY <1>2 DEF Active
<1>4. Staged'
  BY <1>1, <1>3 DEF Flow, Staged, At
<1>5. Sound => Turns'
  BY <1>1, <1>3 DEF Flow, Hashing, Turns
<1>6. QED
  BY <1>1, <1>4, <1>5, SameJobsFlow

LEMMA WorkersKeepFlushed ==
  ASSUME AreJobs(jobs), NEW w \in Workers, Step(w) \/ Fails(w)
  PROVE  \A i \in 1 .. Len(jobs) : jobs'[i].dstFlushed = jobs[i].dstFlushed
<1> DEFINE p == At(worker[w].jobID)
<1>1. \A i \in 1 .. Len(jobs) : IsJob(jobs[i])
  BY DEF AreJobs
<1>2. p = Place(w) /\ Job(w) = jobs[p]
  BY DEF At, Place, Job
<1> HIDE DEF p
<1>3. ASSUME NEW k, SetJob(w, k), p \in 1 .. Len(jobs) => k.dstFlushed = jobs[p].dstFlushed
      PROVE  \A i \in 1 .. Len(jobs) : jobs'[i].dstFlushed = jobs[i].dstFlushed
  <2>1. jobs' = [jobs EXCEPT ![p] = k]
    BY <1>2, <1>3 DEF SetJob
  <2>2. \A i \in 1 .. Len(jobs) : jobs'[i] = IF i = p THEN k ELSE jobs[i]
    BY <2>1, SetJobIs
  <2>3. QED
    BY <1>3, <2>2
<1>4. CASE Take(w) \/ SerialUpdate(w) \/ GiveUpTurn(w) \/ Leave(w)
  BY <1>4 DEF Take, SerialUpdate, GiveUpTurn, Leave
<1>5. CASE CompressChunk(w)
  <2>1. \E x, y : SetJob(w, [jobs[p] EXCEPT !.out = x, !.consumed = y])
    BY <1>2, <1>5 DEF CompressChunk
  <2>2. PICK x, y : SetJob(w, [jobs[p] EXCEPT !.out = x, !.consumed = y])
    BY <2>1
  <2> DEFINE k == [jobs[p] EXCEPT !.out = x, !.consumed = y]
  <2>3. ASSUME p \in 1 .. Len(jobs) PROVE k.dstFlushed = jobs[p].dstFlushed
    <3>1. IsJob(jobs[p])
      BY <1>1, <2>3
    <3>2. QED
      BY ONLY <3>1 DEF IsJob, Has, JobFields
  <2>4. SetJob(w, k)
    BY <2>2
  <2> HIDE DEF k
  <2>5. QED
    BY <1>3, <2>3, <2>4
<1>6. CASE CompressLast(w)
  <2>1. \E x : SetJob(w, [jobs[p] EXCEPT !.out = x])
    BY <1>2, <1>6 DEF CompressLast
  <2>2. PICK x : SetJob(w, [jobs[p] EXCEPT !.out = x])
    BY <2>1
  <2> DEFINE k == [jobs[p] EXCEPT !.out = x]
  <2>3. ASSUME p \in 1 .. Len(jobs) PROVE k.dstFlushed = jobs[p].dstFlushed
    <3>1. IsJob(jobs[p])
      BY <1>1, <2>3
    <3>2. QED
      BY ONLY <3>1, JobEnded
  <2>4. SetJob(w, k)
    BY <2>2
  <2> HIDE DEF k
  <2>5. QED
    BY <1>3, <2>3, <2>4
<1>7. CASE Fails(w)
  <2> DEFINE k == [jobs[p] EXCEPT !.error = TRUE]
  <2>1. SetJob(w, k)
    BY <1>2, <1>7 DEF Fails
  <2>2. ASSUME p \in 1 .. Len(jobs) PROVE k.dstFlushed = jobs[p].dstFlushed
    <3>1. IsJob(jobs[p])
      BY <1>1, <2>2
    <3>2. QED
      BY ONLY <3>1, JobFailed
  <2> HIDE DEF k
  <2>3. QED
    BY <1>3, <2>1, <2>2
<1>8. CASE Report(w)
  <2> DEFINE k == [jobs[p] EXCEPT !.consumed = jobs[p].src.size]
  <2>1. SetJob(w, k)
    BY <1>2, <1>8 DEF Report
  <2>2. ASSUME p \in 1 .. Len(jobs) PROVE k.dstFlushed = jobs[p].dstFlushed
    <3>1. IsJob(jobs[p])
      BY <1>1, <2>2
    <3>2. QED
      BY ONLY <3>1, JobReported
  <2> HIDE DEF k
  <2>3. QED
    BY <1>3, <2>1, <2>2
<1>9. QED
  BY <1>4, <1>5, <1>6, <1>7, <1>8 DEF Step

LEMMA WorkersKeepSerial ==
  ASSUME serial.nextJobID \in Nat, Has(serial, {"nextJobID", "hashed"}), NEW w \in Workers, Step(w) \/ Fails(w),
         GiveUpTurn(w) => Job(w).jobID \in Nat
  PROVE  serial'.nextJobID \in Nat /\ Has(serial', {"nextJobID", "hashed"})
<1>1. CASE serial' = serial
  BY <1>1
<1>2. CASE SerialUpdate(w)
  <2>1. \E h : serial' = [nextJobID |-> serial.nextJobID + 1, hashed |-> h]
    BY <1>2 DEF SerialUpdate
  <2>2. QED
    BY <2>1 DEF Has
<1>3. CASE GiveUpTurn(w) /\ serial' # serial
  <2>1. serial' = [serial EXCEPT !.nextJobID = EnsureFinished(serial.nextJobID, Job(w).jobID)]
    BY <1>3 DEF GiveUpTurn
  <2>2. QED
    BY <1>3, <2>1 DEF EnsureFinished, Larger, Has
<1>4. QED
  BY <1>1, <1>2, <1>3 DEF Step, Take, CompressChunk, CompressLast, Report, Leave, Fails, MainRests

(* Whatever a worker does. *)
LEMMA WorkerFrame ==
  ASSUME InputInv, OwnersInv, FrameInv, NEW w \in Workers, Step(w) \/ Fails(w)
  PROVE  FrameInv'
<1>1. UNCHANGED <<mt, main, fed, inBuff, output, frames>>
  BY DEF Step, Take, SerialUpdate, CompressChunk, CompressLast, GiveUpTurn, Report, Leave, Fails, MainRests, buffers
<1>2. AreJobs(jobs) /\ IsSequence(jobs) /\ Len(jobs) \in Nat /\ WorkerShapes /\ IsMt(mt) /\ IsMain(main) /\ fed \in Nat
  BY DEF OwnersInv, Owners, AreJobs, IsSequence, InputInv, Shapes
<1>3. AreJobs(jobs') /\ Len(jobs') = Len(jobs)
  BY <1>2, WorkersKeepJobs
<1>4. \A i \in 1 .. Len(jobs) : /\ Same(jobs[i], jobs'[i])
                                /\ i # At(worker[w].jobID) => jobs'[i] = jobs[i]
                                /\ jobs'[i].dstFlushed = jobs[i].dstFlushed
  BY <1>2, WorkersKeepNames, WorkersKeepFlushed
<1>5. Reached' = Reached /\ (Running' <=> Running) /\ (AtOnce' <=> AtOnce) /\ (Streaming' <=> Streaming)
  BY <1>1, <1>3, ReachedRests
<1>6. \A i \in 1 .. Len(jobs) : Base(jobs'[i]) = Base(jobs[i]) /\ jobs'[i].lastJob = jobs[i].lastJob
  BY <1>4, SameParts DEF Same
<1>7. jobs' = <<>> <=> jobs = <<>>
  BY <1>2, <1>3, EmptySequence DEF AreJobs
<1>8. FlowInv'
  <2> SUFFICES ASSUME Running PROVE Flow'
    BY <1>5 DEF FlowInv
  <2>1. Flow /\ serial.nextJobID \in Nat
    BY DEF FrameInv, FlowInv, OutputInv
  <2>2. QED
    BY <2>1, TakeFlows, SerialFlows, ChunkFlows, LastFlows, GiveUpFlows, ReportFlows, LeaveFlows, FailFlows DEF Step
<1>9. StreamFlow'
  <2> SUFFICES ASSUME Streaming PROVE StreamFlow'
    BY <1>5 DEF StreamFlow
  <2>1. /\ mt.frameEnded => jobs # <<>> /\ inBuff.filled = 0
        /\ \A i \in 1 .. Len(jobs) : i = Len(jobs) => (jobs[i].lastJob <=> mt.frameEnded)
        /\ \A i \in 2 .. Len(jobs) : jobs[i].dstFlushed = 0
        /\ main.room \in Nat
        /\ Written
    BY DEF FrameInv, StreamFlow
  <2>2. Written'
    <3>1. CASE jobs = <<>>
      BY <1>1, <1>5, <1>7, <2>1, <3>1 DEF Written
    <3>2. CASE jobs # <<>>
      <4>1. 1 \in 1 .. Len(jobs)
        BY <1>2, <3>2, EmptySequence
      <4>2. QED
        BY <1>1, <1>4, <1>6, <1>7, <2>1, <3>2, <4>1 DEF Written
    <3>3. QED
      BY <3>1, <3>2
  <2>3. QED
    BY <1>1, <1>3, <1>4, <1>6, <1>7, <2>1, <2>2 DEF StreamFlow
<1>10. PostFlow'
  <2> SUFFICES ASSUME AtOnce PROVE PostFlow'
    BY <1>5 DEF PostFlow
  <2>1. /\ \A i \in 1 .. Len(jobs) : jobs[i].lastJob <=> i = main.nbJobs
        /\ main.at = "post" => output = <<>> /\ ~main.failed
        /\ main.at = "collect" /\ ~main.failed =>
             /\ \A i \in 1 .. main.job : ~jobs[i].error
             /\ Len(output) = Base(jobs[main.job + 1])
    BY DEF FrameInv, PostFlow
  <2>2. ASSUME main.at = "collect", ~main.failed
        PROVE  /\ \A i \in 1 .. main.job : ~jobs'[i].error
               /\ Len(output) = Base(jobs'[main.job + 1])
    <3>1. /\ main.job < main.nbJobs /\ Len(jobs) = main.nbJobs /\ \A i \in 1 .. main.job : Complete(jobs[i])
          /\ main.job \in Nat /\ main.nbJobs \in Nat
      BY <1>2, <2>2 DEF OwnersInv, AllPosted, AtOnce, IsMain
    <3>2. jobs' = jobs \/ w \in Active
      BY DEF Step, Take, SerialUpdate, CompressChunk, CompressLast, GiveUpTurn, Report, Leave, Fails, Active
    <3>3. ASSUME NEW i \in 1 .. main.job PROVE ~jobs'[i].error
      <4>1. i \in 1 .. Len(jobs) /\ Complete(jobs[i]) /\ ~jobs[i].error
        BY <2>1, <2>2, <3>1
      <4>2. w \in Active => i # At(worker[w].jobID)
        BY <4>1 DEF OwnersInv, Owners, InHand
      <4>3. QED
        BY <1>4, <3>2, <4>1, <4>2
    <3>4. main.job + 1 \in 1 .. Len(jobs)
      BY ONLY <3>1
    <3>5. QED
      BY <1>6, <2>1, <2>2, <3>3, <3>4
  <2>3. QED
    BY <1>1, <1>3, <1>6, <2>1, <2>2 DEF PostFlow
<1>11. OutputInv'
  <2>1. GiveUpTurn(w) => Job(w).jobID \in Nat
    <3> SUFFICES ASSUME GiveUpTurn(w) PROVE Job(w).jobID \in Nat
      OBVIOUS
    <3>1. w \in Active
      BY DEF Active, GiveUpTurn
    <3>2. worker[w].jobID \in Nat /\ At(worker[w].jobID) \in 1 .. Len(jobs)
      BY <3>1 DEF OwnersInv, Owners, InHand
    <3>3. Job(w).jobID = mt.doneJobID + At(worker[w].jobID) - 1
      BY <3>2 DEF OwnersInv, Owners, Job, Place, At
    <3>4. mt.doneJobID \in Nat
      BY <1>2 DEF IsMt
    <3>5. QED
      BY ONLY <3>2, <3>3, <3>4
  <2>2. serial'.nextJobID \in Nat /\ Has(serial', {"nextJobID", "hashed"})
    BY <2>1, WorkersKeepSerial DEF FrameInv, OutputInv
  <2>3. QED
    BY <1>1, <2>2 DEF FrameInv, OutputInv
<1>12. QED
  BY <1>8, <1>9, <1>10, <1>11 DEF FrameInv
-----------------------------------------------------------------------------
(* The steps of the caller that do not touch the frame *)

LEMMA StoppedFrame ==
  ASSUME FrameInv, UNCHANGED <<serial, fed, output, frames>>, ~Running', ~Streaming', ~AtOnce',
         main'.said = "done" /\ main'.at = "out" => main.said = "done" /\ main.at = "out"
  PROVE  FrameInv'
<1>1. FlowInv' /\ StreamFlow' /\ PostFlow'
  BY DEF FlowInv, StreamFlow, PostFlow
<1>2. OutputInv'
  BY DEF FrameInv, OutputInv
<1>3. QED
  BY <1>1, <1>2 DEF FrameInv

LEMMA RestFrame ==
  ASSUME FrameInv, UNCHANGED <<mt, shared, buffers, main, fed, output, frames>>
  PROVE  FrameInv'
<1>1. UNCHANGED <<mt, jobs, serial, queue, worker, inBuff, main, fed, output, frames>>
  BY DEF shared, buffers
<1>2. (Running' <=> Running) /\ (AtOnce' <=> AtOnce) /\ (Streaming' <=> Streaming) /\ Reached' = Reached
  BY <1>1 DEF Running, AtOnce, Streaming, InFrame, Reached, Before
<1>3. Flow => Flow'
  <2>1. Staged => Staged'
    BY <1>1 DEF Staged, Active, At
  <2>2. Sound' => Sound
    BY <1>1 DEF Sound
  <2>3. Turns => Turns'
    BY <1>1 DEF Turns, Active
  <2>4. Hashed => Hashed'
    BY <1>1, <1>2 DEF Hashed, At
  <2>5. QED
    BY <1>1, <1>2, <2>1, <2>2, <2>3, <2>4 DEF Flow, Hashing
<1>4. StreamFlow'
  BY <1>1, <1>2 DEF FrameInv, StreamFlow, Written
<1>5. PostFlow' /\ OutputInv'
  BY <1>1, <1>2 DEF FrameInv, PostFlow, OutputInv
<1>6. QED
  BY <1>2, <1>3, <1>4, <1>5 DEF FrameInv, FlowInv

LEMMA ResetFrame ==
  ASSUME InputInv, OwnersInv, FrameInv, Reset
  PROVE  FrameInv'
<1>1. main.at = "reset" /\ jobs = <<>> /\ ~mt.jobReady /\ IsMt(mt) /\ UNCHANGED <<jobs, queue, worker>>
  BY DEF Reset, InputInv, Kept, Shapes
<1>2. mt'.doneJobID = 0 /\ mt'.nextJobID = 0 /\ mt'.frameEnded = FALSE /\ ~mt'.jobReady
  <2>1. mt' = [mt EXCEPT !.doneJobID = 0, !.nextJobID = 0, !.frameEnded = FALSE, !.allJobsCompleted = FALSE]
    BY DEF Reset
  <2>2. QED
    BY <1>1, <2>1 DEF IsMt, Has, MtFields
<1>3. main'.at = "out" /\ main'.said = "flushed" /\ main'.room = 0
  BY DEF Reset, Out
<1>4. fed' = 0 /\ output' = <<>> /\ frames' = frames + 1 /\ inBuff'.filled = 0
      /\ serial' = [nextJobID |-> 0, hashed |-> <<>>]
  BY DEF Reset, NoSection
<1>5. Active = {} /\ queue = None /\ Active' = Active
  BY <1>1, NobodyHas DEF OwnersInv, Active
<1>6. Len(jobs') = 0 /\ jobs' = <<>>
  BY <1>1, EmptySequence
<1>7. ~AtOnce' /\ Reached' = 0
  BY <1>3, <1>4 DEF AtOnce, Reached
<1>8. Flow'
  <2>1. Chain(jobs', Reached', fed') /\ \A i \in 1 .. Len(jobs') : TextOf(jobs'[i], fed')
    BY <1>6 DEF Chain
  <2>2. Staged' /\ Turns'
    BY <1>1, <1>2, <1>5 DEF Staged, Turns
  <2>3. Hashed'
    <3>1. (At(serial.nextJobID))' = 1
      BY <1>2, <1>4 DEF At
    <3>2. Start(jobs', Reached', 1) = 1
      BY <1>6, <1>7 DEF Start
    <3>3. <<>> = [k \in 1 .. 1 - 1 |-> k]
      <4> DEFINE s == [k \in 1 .. 0 |-> k]
      <4>1. IsSequence(s) /\ Len(s) = 0
        BY Numbers
      <4>2. s = <<>>
        BY ONLY <4>1, EmptySequence
      <4>3. QED
        BY <4>2
    <3>4. QED
      BY <1>2, <1>4, <1>6, <3>1, <3>2, <3>3 DEF Hashed
  <2>4. QED
    BY <1>4, <1>7, <2>1, <2>2, <2>3 DEF Flow, Hashing
<1>9. StreamFlow' /\ PostFlow'
  BY <1>2, <1>3, <1>4, <1>6, <1>7, EmptySequence DEF StreamFlow, PostFlow, Written
<1>10. OutputInv'
  BY <1>3, <1>4, ReadsEmpty DEF FrameInv, OutputInv, Has
<1>11. QED
  BY <1>8, <1>9, <1>10 DEF FrameInv, FlowInv
-----------------------------------------------------------------------------
(* A call takes input and makes jobs *)

LEMMA TextGrows ==
  ASSUME NEW j, IsJob(j), NEW n \in Nat, NEW m \in Nat, n <= m, TextOf(j, n), ~j.lastJob, j.from + j.src.size <= n + 1
  PROVE  TextOf(j, m) /\ Base(j) + Len(j.out) <= n + 1
<1>1. /\ j.from \in Int /\ j.src.size \in Int /\ HeadLen(j) \in {0, 1} /\ Base(j) \in Int /\ Base(j) = j.from - HeadLen(j)
      /\ Whole(j) = HeadLen(j) + j.src.size + EndLen(j)
  BY JobParts
<1>2. EndLen(j) = 0
  BY DEF EndLen
<1>3. Reads(j.out, Base(j), n) /\ Len(j.out) <= Whole(j) /\ IsSequence(j.out) /\ Len(j.out) \in Nat
  BY DEF TextOf, Reads, IsSequence
<1>4. Base(j) + Len(j.out) <= n + 1
  <2>1. Len(j.out) <= HeadLen(j) + j.src.size + 0
    BY ONLY <1>1, <1>2, <1>3
  <2>2. PICK h \in Int : h = HeadLen(j)
    BY ONLY <1>1
  <2>3. Base(j) = j.from - h /\ Len(j.out) <= h + j.src.size + 0
    BY ONLY <1>1, <2>1, <2>2
  <2>4. j.from \in Int /\ j.src.size \in Int /\ Len(j.out) \in Nat
    BY ONLY <1>1, <1>3
  <2>5. QED
    BY ONLY SMTT(30), <2>3, <2>4, j.from + j.src.size <= n + 1, n \in Nat, h \in Int
<1>5. Reads(j.out, Base(j), m)
  BY ONLY <1>1, <1>3, <1>4, ReadsGrow, n \in Nat, m \in Nat, n <= m
<1>6. QED
  BY <1>4, <1>5 DEF TextOf

LEMMA StreamingIs ==
  ASSUME InputInv, OwnersInv, FrameInv, Streaming
  PROVE  /\ Running /\ ~AtOnce /\ Flow /\ Reached = fed - inBuff.filled /\ inBuff.filled \in Nat /\ Count
         /\ mt.frameEnded => jobs # <<>> /\ inBuff.filled = 0
         /\ \A i \in 1 .. Len(jobs) : i = Len(jobs) => (jobs[i].lastJob <=> mt.frameEnded)
         /\ \A i \in 2 .. Len(jobs) : jobs[i].dstFlushed = 0
         /\ main.room \in Nat
         /\ Written
<1>1. Running /\ ~AtOnce
  BY DEF Streaming, Running, AtOnce
<1>2. Reached = fed - inBuff.filled
  BY <1>1 DEF Reached
<1>3. inBuff.filled \in Nat /\ Count
  <2>1. inBuff.filled \in Int /\ inBuff.filled >= 0 /\ Count
    BY DEF InputInv, Shapes, Sections, StreamInv, Layout, SectionOK
  <2>2. QED
    BY <2>1
<1>4. QED
  BY <1>1, <1>2, <1>3 DEF FrameInv, FlowInv, StreamFlow

LEMMA FeedFlows ==
  ASSUME InputInv, OwnersInv, FrameInv, Streaming, fed' \in Nat, fed <= fed', mt.frameEnded => fed' = fed
  PROVE  /\ \A i \in 1 .. Len(jobs) : TextOf(jobs[i], fed')
         /\ Chain(jobs, Reached, fed')
         /\ Reads(output, 0, fed') /\ Len(output) <= fed' + 3
<1>1. /\ Flow /\ Written /\ (\A i \in 1 .. Len(jobs) : i = Len(jobs) => (jobs[i].lastJob <=> mt.frameEnded))
      /\ Reached \in Nat /\ Reached <= fed /\ Chain(jobs, Reached, fed) /\ \A i \in 1 .. Len(jobs) : TextOf(jobs[i], fed)
  BY StreamingIs DEF Flow
<1>2. Len(jobs) \in Nat /\ IsSequence(jobs) /\ (\A i \in 1 .. Len(jobs) : IsJob(jobs[i])) /\ fed \in Nat
  BY StreamingIs, RunningIs
<1>3. Reads(output, 0, fed) /\ Len(output) <= fed + 3 /\ Len(output) \in Nat
  BY DEF FrameInv, OutputInv, Reads, IsSequence
<1>4. CASE mt.frameEnded
  BY <1>1, <1>3, <1>4
<1>5. CASE ~mt.frameEnded
  <2>1. ASSUME NEW i \in 1 .. Len(jobs)
        PROVE  ~jobs[i].lastJob /\ IsJob(jobs[i]) /\ TextOf(jobs[i], fed) /\ jobs[i].from + jobs[i].src.size <= fed + 1
    <3>1. jobs[i].lastJob => i = Len(jobs)
      BY <1>1 DEF Chain
    <3>2. ~jobs[i].lastJob
      BY <1>1, <1>5, <3>1
    <3>3. jobs[i].from + jobs[i].src.size <= Reached + 1
      BY <1>1 DEF Chain
    <3>4. jobs[i].from \in Int /\ jobs[i].src.size \in Int
      BY <1>2, JobParts
    <3>5. jobs[i].from + jobs[i].src.size <= fed + 1
      BY ONLY <1>1, <1>2, <3>3, <3>4
    <3>6. QED
      BY <1>1, <1>2, <3>2, <3>5
  <2>2. ASSUME NEW i \in 1 .. Len(jobs)
        PROVE  TextOf(jobs[i], fed') /\ Base(jobs[i]) + Len(jobs[i].out) <= fed + 1
    BY ONLY <1>2, <2>1, TextGrows, fed' \in Nat, fed <= fed', i \in 1 .. Len(jobs)
  <2>3. Chain(jobs, Reached, fed')
    BY <1>1, <2>1 DEF Chain
  <2>4. Len(output) <= fed + 1
    <3>1. CASE jobs = <<>>
      <4>1. Len(output) = Reached + 1 - (IF mt.nextJobID = 0 THEN 1 ELSE 0)
        BY <1>1, <3>1 DEF Written
      <4>2. QED
        BY ONLY <1>1, <1>2, <4>1
    <3>2. CASE jobs # <<>>
      <4>1. 1 \in 1 .. Len(jobs)
        BY <1>2, <3>2, EmptySequence
      <4>2. Len(output) = Base(jobs[1]) + jobs[1].dstFlushed
        BY <1>1, <3>2 DEF Written
      <4>3. Base(jobs[1]) + Len(jobs[1].out) <= fed + 1 /\ Base(jobs[1]) \in Int
        BY <1>2, <2>2, <4>1, JobParts
      <4>4. jobs[1].dstFlushed \in 0 .. Len(jobs[1].out) /\ Len(jobs[1].out) \in Nat
        BY <2>1, <4>1 DEF TextOf, Reads, IsSequence
      <4>5. QED
        BY ONLY <1>2, <4>2, <4>3, <4>4
    <3>3. QED
      BY <3>1, <3>2
  <2>5. Reads(output, 0, fed')
    <3>1. 0 + Len(output) <= fed + 1 /\ 0 \in Int
      BY ONLY <1>3, <2>4
    <3>2. QED
      BY ONLY <1>2, <1>3, <3>1, ReadsGrow, fed' \in Nat, fed <= fed'
  <2>6. Len(output) <= fed' + 3
    BY ONLY <1>2, <1>3, <2>4, fed' \in Nat, fed <= fed'
  <2>7. QED
    BY <2>2, <2>3, <2>5, <2>6
<1>6. QED
  BY <1>4, <1>5

(* A call that makes no job: it takes input for the section, and may hand *)
(* over the job that is ready.                                             *)
LEMMA CallSameJobs ==
  ASSUME InputInv, OwnersInv, FrameInv, Streaming, Streaming', fed' \in Nat, fed <= fed', mt.frameEnded => fed' = fed,
         fed' - inBuff'.filled = fed - inBuff.filled, inBuff'.filled \in Int, IsMt(mt'), mt'.doneJobID = mt.doneJobID,
         mt'.frameEnded = mt.frameEnded, mt.nextJobID <= mt'.nextJobID, mt.nextJobID = 0 => mt'.nextJobID = 0 \/ jobs # <<>>,
         mt'.jobReady => mt.jobReady /\ mt'.nextJobID = mt.nextJobID,
         queue' = queue \/ (mt.jobReady /\ queue'.jobID = mt.nextJobID),
         UNCHANGED <<jobs, serial, worker, output, frames>>, main'.room \in Nat, main'.at = "flush"
  PROVE  FrameInv'
<1>1. /\ Running /\ ~AtOnce /\ Flow /\ Reached = fed - inBuff.filled /\ inBuff.filled \in Nat /\ Count
      /\ mt.frameEnded => jobs # <<>> /\ inBuff.filled = 0
      /\ \A i \in 1 .. Len(jobs) : i = Len(jobs) => (jobs[i].lastJob <=> mt.frameEnded)
      /\ \A i \in 2 .. Len(jobs) : jobs[i].dstFlushed = 0
      /\ Written
  BY StreamingIs
<1>2. /\ \A i \in 1 .. Len(jobs) : TextOf(jobs[i], fed')
      /\ Chain(jobs, Reached, fed')
      /\ Reads(output, 0, fed') /\ Len(output) <= fed' + 3
  BY FeedFlows
<1>3. fed \in Nat /\ Reached \in Nat /\ Reached <= fed
  BY <1>1, RunningIs DEF Flow
<1>4. ~AtOnce' /\ Running'
  BY DEF Streaming, AtOnce, Running
<1>5. Reached' = Reached
  BY <1>1, <1>4 DEF Reached
<1>6. Reached <= fed'
  BY ONLY <1>3, fed <= fed', fed' \in Nat
<1>7. Staged'
  <2>1. Staged
    BY <1>1 DEF Flow
  <2>2. \A x : (At(x))' = At(x)
    BY DEF At
  <2>3. queue' # None => Fresh(jobs[At(queue'.jobID)])
    BY <2>1 DEF Staged
  <2>4. mt'.jobReady => Fresh(jobs[At(mt'.nextJobID)])
    BY <2>1 DEF Staged
  <2>5. \A w \in Active : Stage(worker[w].at, jobs[At(worker[w].jobID)])
    BY <2>1 DEF Staged
  <2>6. Active' = Active
    BY DEF Active
  <2>7. QED
    BY <2>3, <2>4, <2>5, <2>6 DEF Staged, At
<1>8. Hashing'
  <2> SUFFICES ASSUME Sound' PROVE Turns' /\ Hashed'
    BY DEF Hashing
  <2>1. Turns /\ Hashed
    BY <1>1 DEF Flow, Hashing, Sound
  <2>2. Turns'
    BY <2>1 DEF Turns, Active
  <2>3. Hashed'
    BY <1>5, <2>1 DEF Hashed, At
  <2>4. QED
    BY <2>2, <2>3
<1>9. Flow'
  BY <1>2, <1>3, <1>5, <1>6, <1>7, <1>8 DEF Flow
<1>10. Written'
  <2>1. mt.nextJobID = 0 /\ jobs = <<>> => mt'.nextJobID = 0
    OBVIOUS
  <2>2. mt.nextJobID # 0 => mt'.nextJobID # 0
    <3>1. mt.nextJobID \in Nat /\ mt'.nextJobID \in Nat
      BY <1>1, RunningIs DEF IsMt
    <3>2. QED
      BY ONLY <3>1, mt.nextJobID <= mt'.nextJobID
  <2>3. QED
    BY <1>1, <1>5, <2>1, <2>2 DEF Written
<1>11. StreamFlow'
  <2>1. mt.frameEnded => inBuff'.filled = 0
    BY <1>1
  <2>2. QED
    BY <1>1, <1>10, <2>1 DEF StreamFlow
<1>12. PostFlow' /\ OutputInv'
  BY <1>2, <1>4 DEF PostFlow, OutputInv, FrameInv
<1>13. QED
  BY <1>9, <1>11, <1>12 DEF FrameInv, FlowInv

(* A job j at the end of the others. *)
LEMMA AppendFlows ==
  ASSUME InputInv, OwnersInv, Running, Flow, serial.nextJobID \in Nat,
         \A i \in 1 .. Len(jobs) : TextOf(jobs[i], fed') /\ ~jobs[i].lastJob, Chain(jobs, Reached, fed'),
         NEW j, IsJob(j), jobs' = Append(jobs, j), j.jobID = mt.doneJobID + Len(jobs), j.from = Reached + 1,
         j.from + j.src.size = Reached' + 1, Reached' \in Nat, Reached <= Reached', Reached' <= fed',
         j.jobID = 0 => j.from = 1, j.lastJob => Reached' = fed', j.src.size > 0 \/ j.lastJob,
         j.dstFlushed = 0, j.error = FALSE, j.consumed = 0, TextOf(j, fed'), mt'.doneJobID = mt.doneJobID,
         queue' = queue \/ (queue'.jobID = j.jobID /\ j.out = <<>>),
         mt'.jobReady => mt'.nextJobID = j.jobID /\ j.out = <<>>,
         UNCHANGED <<serial, worker>>
  PROVE  Flow'
<1>3. /\ Reached \in Nat /\ Len(jobs) \in Nat /\ IsSequence(jobs) /\ mt.doneJobID \in Nat
      /\ \A i \in 1 .. Len(jobs) : IsJob(jobs[i]) /\ jobs[i].jobID = mt.doneJobID + i - 1
  BY RunningIs DEF Flow
<1>5. /\ j.from = Reached + 1 /\ j.from + j.src.size = Reached' + 1 /\ Reached <= Reached' /\ Reached' \in Nat
      /\ j.lastJob => Reached' = fed'
  OBVIOUS
<1>2. Chain(jobs, Reached, fed')
  OBVIOUS
<1>6. At(j.jobID) = Len(jobs) + 1
  BY ONLY <1>3, j.jobID = mt.doneJobID + Len(jobs) DEF At
<1>7. /\ IsSequence(jobs') /\ Len(jobs') = Len(jobs) + 1 /\ jobs'[Len(jobs) + 1] = j
      /\ \A i \in 1 .. Len(jobs) : jobs'[i] = jobs[i]
  BY ONLY <1>3, SequenceAppend, jobs' = Append(jobs, j)
<1>8. \A i \in 1 .. Len(jobs') : i \in 1 .. Len(jobs) \/ i = Len(jobs) + 1
  BY ONLY <1>3, <1>7
<1>9. \A i \in 1 .. Len(jobs) + 1 : Start(jobs', Reached', i) = Start(jobs, Reached, i)
  <2> TAKE i \in 1 .. Len(jobs) + 1
  <2>1. CASE i \in 1 .. Len(jobs)
    <3>1. i <= Len(jobs) /\ i <= Len(jobs')
      BY ONLY <1>3, <1>7, <2>1
    <3>2. QED
      BY <1>7, <2>1, <3>1 DEF Start
  <2>2. CASE i = Len(jobs) + 1
    <3>1. ~(i <= Len(jobs)) /\ i <= Len(jobs')
      BY ONLY <1>3, <1>7, <2>2
    <3>2. QED
      BY <1>5, <1>7, <2>2, <3>1 DEF Start
  <2>3. QED
    BY ONLY <1>3, <2>1, <2>2, i \in 1 .. Len(jobs) + 1
<1>10. Chain(jobs', Reached', fed')
  <2> SUFFICES ASSUME NEW i \in 1 .. Len(jobs')
               PROVE  /\ 1 <= jobs'[i].from
                      /\ jobs'[i].from + jobs'[i].src.size = Start(jobs', Reached', i + 1)
                      /\ jobs'[i].from + jobs'[i].src.size <= Reached' + 1
                      /\ jobs'[i].jobID = 0 => jobs'[i].from = 1
                      /\ jobs'[i].lastJob => i = Len(jobs') /\ jobs'[i].from + jobs'[i].src.size = fed' + 1
                      /\ jobs'[i].src.size > 0 \/ jobs'[i].lastJob
    BY DEF Chain
  <2>1. CASE i \in 1 .. Len(jobs)
    <3>1. /\ 1 <= jobs[i].from
          /\ jobs[i].from + jobs[i].src.size = Start(jobs, Reached, i + 1)
          /\ jobs[i].from + jobs[i].src.size <= Reached + 1
          /\ jobs[i].jobID = 0 => jobs[i].from = 1
          /\ jobs[i].lastJob => i = Len(jobs)
          /\ jobs[i].src.size > 0 \/ jobs[i].lastJob
      BY <1>2, <2>1 DEF Chain
    <3>2. i + 1 \in 1 .. Len(jobs) + 1
      BY ONLY <1>3, <2>1
    <3>3. ~jobs[i].lastJob
      BY <2>1
    <3>4. jobs[i].from \in Int /\ jobs[i].src.size \in Int
      BY <1>3, <2>1, JobParts
    <3>5. jobs[i].from + jobs[i].src.size <= Reached' + 1
      BY ONLY SMTT(30), <1>3, <1>5, <3>1, <3>4
    <3>6. jobs'[i] = jobs[i]
      BY <1>7, <2>1
    <3>7. QED
      BY <1>9, <3>1, <3>2, <3>3, <3>5, <3>6
  <2>2. CASE i = Len(jobs) + 1
    <3>1. ~(i + 1 <= Len(jobs'))
      BY ONLY <1>3, <1>7, <2>2
    <3>2. Start(jobs', Reached', i + 1) = Reached' + 1
      BY <3>1 DEF Start
    <3>3. 1 <= j.from
      BY ONLY <1>3, <1>5
    <3>4. j.from + j.src.size <= Reached' + 1
      BY ONLY <1>5
    <3>5. jobs'[i] = j /\ i = Len(jobs')
      BY <1>7, <2>2
    <3>6. QED
      BY <1>5, <3>2, <3>3, <3>4, <3>5
  <2>3. QED
    BY <1>8, <2>1, <2>2
<1>11. \A i \in 1 .. Len(jobs') : TextOf(jobs'[i], fed')
  BY <1>7, <1>8
<1>12. \A w \in Active : At(worker[w].jobID) \in 1 .. Len(jobs)
  BY DEF OwnersInv, Owners, InHand
<1>13. queue # None => At(queue.jobID) \in 1 .. Len(jobs)
  BY DEF OwnersInv, Owners, InHand
<1>14. j.out = <<>> => Fresh(j)
  BY DEF Fresh
<1>15. Active' = Active /\ \A x : (At(x))' = At(x)
  BY DEF Active, At
<1>16. Staged'
  <2>1. Staged
    BY DEF Flow
  <2>2. \A w \in Active : Stage(worker[w].at, jobs'[At(worker[w].jobID)])
    BY <1>7, <1>12, <2>1 DEF Staged
  <2>3. queue' # None => Fresh(jobs'[At(queue'.jobID)])
    <3>1. CASE queue' = queue
      BY <1>7, <1>13, <2>1, <3>1 DEF Staged
    <3>2. CASE queue'.jobID = j.jobID /\ j.out = <<>>
      BY <1>6, <1>7, <1>14, <3>2
    <3>3. QED
      BY <3>1, <3>2
  <2>4. mt'.jobReady => Fresh(jobs'[At(mt'.nextJobID)])
    BY <1>6, <1>7, <1>14
  <2>5. QED
    BY <1>15, <2>2, <2>3, <2>4 DEF Staged, At
<1>17. Hashing'
  <2> SUFFICES ASSUME Sound' PROVE Turns' /\ Hashed'
    BY DEF Hashing
  <2>1. Sound
    <3> SUFFICES ASSUME NEW i \in 1 .. Len(jobs) PROVE ~jobs[i].error
      BY DEF Sound
    <3>1. i \in 1 .. Len(jobs')
      BY ONLY <1>3, <1>7, i \in 1 .. Len(jobs)
    <3>2. QED
      BY <1>7, <3>1 DEF Sound
  <2>2. Turns /\ Hashed
    BY <2>1 DEF Flow, Hashing
  <2>3. /\ mt.doneJobID <= serial.nextJobID /\ serial.nextJobID <= mt.doneJobID + Len(jobs)
        /\ serial.hashed = [k \in 1 .. Start(jobs, Reached, At(serial.nextJobID)) - 1 |-> k]
        /\ \A i \in 1 .. Len(jobs) : jobs[i].jobID >= serial.nextJobID => jobs[i].consumed = 0
    BY <2>2 DEF Hashed
  <2>4. serial.nextJobID \in Nat
    OBVIOUS
  <2>5. serial.nextJobID <= j.jobID
    BY ONLY <1>3, <2>3, <2>4, j.jobID = mt.doneJobID + Len(jobs)
  <2>6. Turns'
    <3>1. queue' # None => serial.nextJobID <= queue'.jobID
      BY <2>2, <2>5 DEF Turns
    <3>2. mt'.jobReady => serial.nextJobID <= mt'.nextJobID
      BY <2>5
    <3>3. \A w \in Active : /\ worker[w].at = "serial" => serial.nextJobID <= worker[w].jobID
                            /\ worker[w].at \in {"chunks", "report"} => worker[w].jobID < serial.nextJobID
      BY <2>2 DEF Turns
    <3>4. QED
      BY <1>15, <3>1, <3>2, <3>3 DEF Turns
  <2>7. At(serial.nextJobID) \in 1 .. Len(jobs) + 1
    BY ONLY <1>3, <2>3, <2>4 DEF At
  <2>8. serial.hashed = [k \in 1 .. Start(jobs', Reached', At(serial.nextJobID)) - 1 |-> k]
    BY <1>9, <2>3, <2>7
  <2>9. serial.nextJobID <= mt.doneJobID + Len(jobs')
    BY ONLY <1>3, <1>7, <2>3, <2>4
  <2>10. \A i \in 1 .. Len(jobs') : jobs'[i].jobID >= serial.nextJobID => jobs'[i].consumed = 0
    BY <1>7, <1>8, <2>3
  <2>11. Hashed'
    BY <2>3, <2>8, <2>9, <2>10 DEF Hashed, At
  <2>12. QED
    BY <2>6, <2>11
<1>18. QED
  BY <1>10, <1>11, <1>16, <1>17 DEF Flow

(* The job a call makes. *)
LEMMA NewJobText ==
  ASSUME NEW j, IsJob(j), NEW n \in Nat, j.user = FALSE, j.consumed = 0, j.error = FALSE, j.dstFlushed = 0,
         j.lastJob \in BOOLEAN, j.frameChecksumNeeded \in BOOLEAN, j.jobID \in Nat, j.src.size \in Nat,
         j.from + j.src.size = n + 1,
         j.frameChecksumNeeded <=> (j.lastJob /\ j.jobID > 0),
         \/ j.src.size > 0 /\ j.out = <<>>
         \/ j.src.size = 0 /\ j.lastJob /\ j.jobID > 0 /\ j.out = <<LastBlock>>
  PROVE  TextOf(j, n)
<1>1. /\ j.from \in Int /\ HeadLen(j) \in {0, 1} /\ EndLen(j) \in {0, 1, 2} /\ Base(j) \in Int
      /\ Base(j) = j.from - HeadLen(j) /\ Whole(j) = HeadLen(j) + j.src.size + EndLen(j)
  BY JobParts
<1>2. 0 <= j.consumed /\ j.consumed <= j.src.size
  OBVIOUS
<1>3. (j.lastJob /\ j.jobID > 0 /\ ~j.user /\ ~Complete(j) => j.frameChecksumNeeded)
      /\ (j.frameChecksumNeeded => j.lastJob /\ j.jobID > 0 /\ ~j.user)
      /\ j.error \in BOOLEAN
  OBVIOUS
<1>4. CASE j.src.size > 0 /\ j.out = <<>>
  <2>1. Reads(j.out, Base(j), n) /\ Len(j.out) = 0
    BY <1>4, ReadsEmpty
  <2>2. ~Complete(j)
    BY <1>4 DEF Complete
  <2>3. Len(j.out) <= Whole(j) /\ j.dstFlushed \in 0 .. Len(j.out)
    BY ONLY <1>1, <1>4, <2>1, j.dstFlushed = 0, j.src.size \in Nat
  <2>4. QED
    BY <1>2, <1>3, <2>1, <2>2, <2>3 DEF TextOf
<1>5. CASE j.src.size = 0 /\ j.lastJob /\ j.jobID > 0 /\ j.out = <<LastBlock>>
  <2>1. HeadLen(j) = 0 /\ EndLen(j) = 1
    BY <1>5 DEF HeadLen, EndLen
  <2>2. Base(j) = n + 1 /\ Whole(j) = 1
    BY ONLY <1>1, <1>5, <2>1, j.from + j.src.size = n + 1, n \in Nat
  <2>3. LastBlock = Word(n + 1 + 1, n)
    <3>1. n + 1 + 1 # 1 /\ ~(n + 1 + 1 <= n + 1) /\ n + 1 + 1 = n + 2
      OBVIOUS
    <3>2. QED
      BY ONLY <3>1 DEF Word
  <2>4. Reads(j.out, Base(j), n) /\ Len(j.out) = 1
    BY ONLY <1>5, <2>2, <2>3, ReadsOne
  <2>5. Len(j.out) <= Whole(j) /\ j.dstFlushed \in 0 .. Len(j.out) /\ Len(j.out) = Whole(j)
    BY ONLY <2>2, <2>4, j.dstFlushed = 0
  <2>6. QED
    BY <1>2, <1>3, <2>4, <2>5 DEF TextOf
<1>6. QED
  BY <1>4, <1>5

(* A call that makes the job j of what is in the section. *)
LEMMA CallNewJob ==
  ASSUME InputInv, OwnersInv, FrameInv, Streaming, Streaming', ~mt.jobReady, ~mt.frameEnded, fed' \in Nat, fed <= fed',
         NEW j, IsJob(j), jobs' = Append(jobs, j), inBuff'.filled = 0,
         j.jobID = mt.nextJobID, j.src.size \in Nat, fed' - j.src.size = fed - inBuff.filled, j.from = fed' - j.src.size + 1,
         j.dstFlushed = 0, j.error = FALSE, j.consumed = 0, TextOf(j, fed'), j.src.size > 0 \/ j.lastJob,
         IsMt(mt'), mt'.doneJobID = mt.doneJobID, mt'.frameEnded <=> j.lastJob,
         \/ mt'.nextJobID = mt.nextJobID + 1 /\ mt'.jobReady = FALSE /\ queue' = queue
         \/ mt'.nextJobID = mt.nextJobID /\ mt'.jobReady = TRUE /\ queue' = queue /\ j.out = <<>>
         \/ mt'.nextJobID = mt.nextJobID + 1 /\ mt'.jobReady = FALSE /\ queue'.jobID = mt.nextJobID /\ j.out = <<>>,
         UNCHANGED <<serial, worker, output, frames>>, main'.room \in Nat, main'.at = "flush"
  PROVE  FrameInv'
<1>1. /\ Running /\ ~AtOnce /\ Flow /\ Reached = fed - inBuff.filled /\ inBuff.filled \in Nat /\ Count
      /\ \A i \in 1 .. Len(jobs) : i = Len(jobs) => (jobs[i].lastJob <=> mt.frameEnded)
      /\ \A i \in 2 .. Len(jobs) : jobs[i].dstFlushed = 0
      /\ Written
  BY StreamingIs
<1>2. /\ \A i \in 1 .. Len(jobs) : TextOf(jobs[i], fed')
      /\ Chain(jobs, Reached, fed')
      /\ Reads(output, 0, fed') /\ Len(output) <= fed' + 3
  BY FeedFlows
<1>3. /\ fed \in Nat /\ Reached \in Nat /\ Len(jobs) \in Nat /\ IsSequence(jobs) /\ mt.doneJobID \in Nat /\ mt.nextJobID \in Nat
      /\ \A i \in 1 .. Len(jobs) : IsJob(jobs[i]) /\ jobs[i].jobID = mt.doneJobID + i - 1
  BY <1>1, RunningIs DEF Flow
<1>4. ~AtOnce' /\ Running'
  BY DEF Streaming, AtOnce, Running
<1>5. Reached' = fed' /\ j.from = Reached + 1 /\ j.from + j.src.size = fed' + 1 /\ Reached <= fed'
  <2>1. Reached' = fed' - inBuff'.filled
    BY <1>4 DEF Reached
  <2>2. Reached = fed' - j.src.size
    BY <1>1
  <2>3. QED
    <3>1. Reached \in Nat /\ Reached' = fed'
      <4>1. Reached \in Nat
        BY <1>3
      <4>2. Reached' = fed'
        <5>1. PICK g : g = fed'
          OBVIOUS
        <5>2. g \in Nat
          BY <5>1
        <5>3. Reached' = g - 0
          BY <2>1, <5>1
        <5>4. g - 0 = g
          BY ONLY <5>2
        <5>5. QED
          BY ONLY <5>1, <5>3, <5>4
      <4>3. QED
        BY <4>1, <4>2
    <3>2. PICK r \in Nat : r = Reached
      BY ONLY <3>1
    <3>3. PICK g \in Nat : g = fed'
      BY ONLY fed' \in Nat
    <3>4. r = g - j.src.size /\ j.from = g - j.src.size + 1 /\ j.src.size \in Nat
      BY ONLY <2>2, <3>2, <3>3, j.src.size \in Nat, j.from = fed' - j.src.size + 1
    <3>5. j.from = r + 1 /\ j.from + j.src.size = g + 1 /\ r <= g
      BY ONLY <3>4, r \in Nat, g \in Nat
    <3>6. QED
      BY ONLY <3>1, <3>2, <3>3, <3>5
<1>6. mt.nextJobID - mt.doneJobID = Len(jobs) /\ At(mt.nextJobID) = Len(jobs) + 1
  <2>1. Len(jobs) = mt.nextJobID - mt.doneJobID + 0
    BY <1>1 DEF Count
  <2>2. QED
    BY ONLY <1>3, <2>1 DEF At
<1>7. /\ IsSequence(jobs') /\ Len(jobs') = Len(jobs) + 1 /\ jobs'[Len(jobs) + 1] = j
      /\ \A i \in 1 .. Len(jobs) : jobs'[i] = jobs[i]
  BY ONLY <1>3, SequenceAppend, jobs' = Append(jobs, j)
<1>8. Flow'
  <2>1. \A i \in 1 .. Len(jobs) : TextOf(jobs[i], fed') /\ ~jobs[i].lastJob
    BY <1>1, <1>2 DEF Chain
  <2>2. j.jobID = mt.doneJobID + Len(jobs)
    BY ONLY <1>3, <1>6, j.jobID = mt.nextJobID
  <2>3. j.jobID = 0 => j.from = 1
    <3>1. mt.nextJobID = 0 => fed = inBuff.filled
      BY <1>1 DEF OwnersInv, Begun, Running
    <3>2. Reached = fed - inBuff.filled /\ fed \in Nat /\ inBuff.filled \in Nat /\ j.from = Reached + 1
      BY <1>1, <1>3, <1>5
    <3>3. QED
      BY ONLY <3>1, <3>2, j.jobID = mt.nextJobID
  <2>4. /\ j.from + j.src.size = Reached' + 1 /\ Reached' \in Nat /\ Reached <= Reached' /\ Reached' <= fed'
        /\ j.from = Reached + 1 /\ (j.lastJob => Reached' = fed')
    BY <1>5
  <2>5. serial.nextJobID \in Nat
    BY DEF FrameInv, OutputInv
  <2>6. (queue' = queue \/ (queue'.jobID = j.jobID /\ j.out = <<>>))
        /\ (mt'.jobReady => mt'.nextJobID = j.jobID /\ j.out = <<>>)
    OBVIOUS
  <2>7. QED
    BY <1>1, <1>2, <2>1, <2>2, <2>3, <2>4, <2>5, <2>6, AppendFlows
<1>19. jobs' # <<>>
  BY <1>3, <1>7, EmptySequence
<1>20. Written'
  <2>1. CASE jobs = <<>>
    <3>1. Len(jobs) = 0
      BY <2>1, EmptySequence
    <3>2. jobs'[1] = j
      BY <1>7, <3>1
    <3>3. Len(output) = Reached + 1 - (IF mt.nextJobID = 0 THEN 1 ELSE 0)
      BY <1>1, <2>1 DEF Written
    <3>4. Base(j) = j.from - (IF mt.nextJobID = 0 THEN 1 ELSE 0)
      BY DEF Base, HeadLen
    <3>5. Len(output) = Base(j) + j.dstFlushed
      BY ONLY <1>3, <1>5, <3>3, <3>4, j.dstFlushed = 0
    <3>6. QED
      BY <1>19, <3>2, <3>5 DEF Written
  <2>2. CASE jobs # <<>>
    <3>1. 1 \in 1 .. Len(jobs)
      BY <1>3, <2>2, EmptySequence
    <3>2. jobs'[1] = jobs[1]
      BY <1>7, <3>1
    <3>3. QED
      BY <1>1, <1>19, <2>2, <3>2 DEF Written
  <2>3. QED
    BY <2>1, <2>2
<1>21. StreamFlow'
  <2>1. \A i \in 2 .. Len(jobs') : jobs'[i].dstFlushed = 0
    <3> TAKE i \in 2 .. Len(jobs')
    <3>1. i \in 2 .. Len(jobs) \/ i = Len(jobs) + 1
      BY ONLY <1>3, <1>7, i \in 2 .. Len(jobs')
    <3>2. i \in 2 .. Len(jobs) => i \in 1 .. Len(jobs)
      OBVIOUS
    <3>3. QED
      BY <1>1, <1>7, <3>1, <3>2
  <2>2. \A i \in 1 .. Len(jobs') : i = Len(jobs') => (jobs'[i].lastJob <=> mt'.frameEnded)
    BY <1>7
  <2>3. QED
    BY <1>19, <1>20, <2>1, <2>2 DEF StreamFlow
<1>22. PostFlow' /\ OutputInv'
  BY <1>2, <1>4 DEF PostFlow, OutputInv, FrameInv
<1>23. QED
  BY <1>8, <1>21, <1>22 DEF FrameInv, FlowInv

LEMMA CallFrame ==
  ASSUME InputInv, OwnersInv, FrameInv, Orderly, Streaming, NEW b \in Sections, NEW p \in Int, NEW op \in Orders,
         NEW goes \in Orders, NEW left \in Nat, NEW room \in Nat, NEW progress,
         CallOf(op, room, b, p, goes, left, progress), UNCHANGED <<serial, worker, output, frames>>
  PROVE  FrameInv'
<1>1. IsMain(main) /\ IsMt(mt) /\ inBuff \in Sections /\ fed \in Nat
  BY DEF InputInv, Shapes
<1>2. /\ main'.at = "flush" /\ main'.said = main.said /\ main'.room = room
  BY <1>1, CallIsMain DEF CallOf
<1>3. Streaming'
  BY <1>2 DEF Streaming, InFrame
<1>4. /\ fed' \in Nat /\ fed <= fed' /\ fed' - b.filled = fed - inBuff.filled
      /\ CreateIfNeeded(b, p, goes) /\ (mt.frameEnded => goes = "end" /\ fed' = fed)
  BY DEF CallOf
<1>5. b.filled \in Nat
  BY DEF CallOf, Layout, SectionOK, Sections
<1>6. CASE mt' = mt /\ jobs' = jobs /\ queue' = queue /\ inBuff' = b
  <2>1. mt.nextJobID <= mt'.nextJobID /\ inBuff'.filled \in Int
    BY <1>1, <1>5, <1>6 DEF IsMt
  <2>2. QED
    BY <1>1, <1>2, <1>3, <1>4, <1>6, <2>1, CallSameJobs
<1>7. CASE mt.jobReady /\ mt' = Advance(mt) /\ jobs' = jobs /\ Post(mt.nextJobID) /\ inBuff' = b
  <2>1. IsMt(mt') /\ mt'.doneJobID = mt.doneJobID /\ mt'.nextJobID = mt.nextJobID + 1 /\ mt'.jobReady = FALSE
        /\ mt'.frameEnded = mt.frameEnded
    BY <1>1, <1>7, MtAdvances
  <2>2. queue'.jobID = mt.nextJobID
    BY <1>7 DEF Post
  <2>3. mt.nextJobID \in Nat /\ inBuff'.filled \in Int
    BY <1>1, <1>5, <1>7 DEF IsMt
  <2>4. mt.nextJobID <= mt'.nextJobID
    BY ONLY <2>1, <2>3
  <2>5. jobs # <<>>
    <3>1. Running
      BY StreamingIs
    <3>2. Len(jobs) > 0
      BY <1>7, <3>1, RunningIs
    <3>3. QED
      BY <3>2, EmptySequence
  <2>6. queue' = queue \/ (mt.jobReady /\ queue'.jobID = mt.nextJobID)
    BY <1>7, <2>2
  <2>7. QED
    BY <1>2, <1>3, <1>4, <1>7, <2>1, <2>3, <2>4, <2>5, <2>6, CallSameJobs
<1>8. CASE ~mt.jobReady /\ Needed(b, goes) /\ Prepare(b, p, goes)
  <2> DEFINE j == NewJob(b, p, goes)
  <2>1. fed' \in Int
    BY <1>4
  <2>2. /\ IsJob(j) /\ j.frame = frames /\ j.jobID = mt.nextJobID /\ j.user = FALSE /\ j.src.size = b.filled
        /\ j.from = fed' - b.filled + 1 /\ j.consumed = 0 /\ j.error = FALSE /\ j.dstFlushed = 0
    <3> HIDE DEF j
    <3>1. j = NewJob(b, p, goes)
      BY DEF j
    <3>2. j.user = FALSE
      BY ONLY ZenonT(40), <2>1, <3>1, NewJobSays, b \in Sections, p \in Int
    <3>8. j.jobID = mt.nextJobID
      BY ONLY ZenonT(40), <2>1, <3>1, NewJobSays, b \in Sections, p \in Int
    <3>9. j.frame = frames
      BY ONLY ZenonT(40), <2>1, <3>1, NewJobSays, b \in Sections, p \in Int
    <3>6. j.src.size = b.filled
      BY ONLY ZenonT(40), <2>1, <3>1, NewJobSays, b \in Sections, p \in Int
    <3>7. IsJob(j)
      BY <2>1, <3>1, NewJobIs
    <3>3. j.consumed = 0 /\ j.error = FALSE /\ j.dstFlushed = 0
      BY ONLY ZenonT(40), <2>1, <3>1, NewJobSays, b \in Sections, p \in Int
    <3>4. j.from = fed' - b.filled + 1
      BY ONLY ZenonT(40), <2>1, <3>1, NewJobSays, b \in Sections, p \in Int
    <3>5. QED
      BY <3>2, <3>3, <3>4, <3>6, <3>7, <3>8, <3>9
  <2>3. /\ j.out = IF EmptyLast(b) THEN <<LastBlock>> ELSE <<>>
        /\ (j.lastJob \in BOOLEAN /\ j.frameChecksumNeeded \in BOOLEAN)
        /\ (j.lastJob <=> goes = "end") /\ (j.frameChecksumNeeded <=> (goes = "end" /\ mt.nextJobID > 0))
    BY ZenonT(40), <2>1, NewJobSays
  <2>4. /\ IsMt(mt') /\ mt'.doneJobID = mt.doneJobID
        /\ mt'.frameEnded = (mt.frameEnded \/ goes = "end")
        /\ jobs' = Append(jobs, j) /\ inBuff'.filled = 0
        /\ \/ EmptyLast(b) /\ mt'.nextJobID = mt.nextJobID + 1 /\ mt'.jobReady = FALSE /\ queue' = queue
           \/ ~EmptyLast(b) /\ mt'.nextJobID = mt.nextJobID /\ mt'.jobReady = TRUE /\ queue' = queue
           \/ ~EmptyLast(b) /\ mt'.nextJobID = mt.nextJobID + 1 /\ mt'.jobReady = FALSE /\ Post(mt.nextJobID)
    BY <1>1, <1>8, PrepareIs
  <2> HIDE DEF j
  <2>5. ~EmptyLast(b) => b.filled > 0
    BY <1>8, CallJob
  <2>6. EmptyLast(b) => b.filled = 0 /\ mt.nextJobID > 0 /\ goes = "end"
    <3>1. targetSectionSize \in Nat /\ targetSectionSize >= 2
      BY SizesAssumption
    <3>2. EmptyLast(b) => b.filled = 0 /\ mt.nextJobID > 0
      BY DEF EmptyLast
    <3>3. b.filled = 0 => ~(b.filled >= targetSectionSize) /\ ~(b.filled > 0)
      BY ONLY <3>1
    <3>4. QED
      BY <1>8, <3>2, <3>3 DEF Needed
  <2>7. ~mt.frameEnded
    <3> SUFFICES ASSUME mt.frameEnded PROVE FALSE
      OBVIOUS
    <3>1. goes = "end" /\ fed' = fed /\ inBuff.filled = 0
      BY <1>4, StreamingIs
    <3>2. b.filled = 0
      BY ONLY <1>1, <1>4, <1>5, <3>1
    <3>3. targetSectionSize \in Nat /\ targetSectionSize >= 2
      BY SizesAssumption
    <3>4. ~(b.filled >= targetSectionSize) /\ ~(b.filled > 0)
      BY ONLY <3>2, <3>3
    <3>5. QED
      BY <1>8, <3>4 DEF Needed
  <2>8. mt'.frameEnded <=> j.lastJob
    BY <2>3, <2>4, <2>7
  <2>9. /\ j.jobID \in Nat /\ j.src.size \in Nat /\ j.from + j.src.size = fed' + 1
        /\ fed' - j.src.size = fed - inBuff.filled /\ j.from = fed' - j.src.size + 1
    <3>1. j.jobID \in Nat
      BY <1>1, <2>2 DEF IsMt
    <3>2. j.src.size = b.filled /\ j.from = fed' - b.filled + 1
      BY <2>2
    <3>3. fed' - j.src.size = fed - inBuff.filled
      BY <1>4, <3>2
    <3>4. j.src.size \in Nat /\ j.from + j.src.size = fed' + 1
      BY ONLY <1>5, <2>1, <3>2
    <3>5. QED
      BY <3>1, <3>2, <3>3, <3>4
  <2>10. \/ j.src.size > 0 /\ j.out = <<>> /\ ~EmptyLast(b)
         \/ j.src.size = 0 /\ j.lastJob /\ j.jobID > 0 /\ j.out = <<LastBlock>> /\ EmptyLast(b)
    BY <2>2, <2>3, <2>5, <2>6
  <2>11. j.frameChecksumNeeded <=> (j.lastJob /\ j.jobID > 0)
    BY <2>2, <2>3
  <2>12. TextOf(j, fed')
    <3>1. j.lastJob \in BOOLEAN /\ j.frameChecksumNeeded \in BOOLEAN
      BY <2>3
    <3>2. \/ j.src.size > 0 /\ j.out = <<>>
          \/ j.src.size = 0 /\ j.lastJob /\ j.jobID > 0 /\ j.out = <<LastBlock>>
      BY <2>10
    <3>3. fed' \in Nat
      BY <1>4
    <3>4. QED
      BY ONLY <2>2, <2>9, <2>11, <3>1, <3>2, <3>3, NewJobText
  <2>13. \/ mt'.nextJobID = mt.nextJobID + 1 /\ mt'.jobReady = FALSE /\ queue' = queue
         \/ mt'.nextJobID = mt.nextJobID /\ mt'.jobReady = TRUE /\ queue' = queue /\ j.out = <<>>
         \/ mt'.nextJobID = mt.nextJobID + 1 /\ mt'.jobReady = FALSE /\ queue'.jobID = mt.nextJobID /\ j.out = <<>>
    BY <2>4, <2>10 DEF Post
  <2>14. j.src.size > 0 \/ j.lastJob
    BY <2>10
  <2>15. /\ Streaming' /\ ~mt.jobReady /\ ~mt.frameEnded /\ fed' \in Nat /\ fed <= fed'
         /\ jobs' = Append(jobs, j) /\ inBuff'.filled = 0 /\ IsMt(mt') /\ mt'.doneJobID = mt.doneJobID
         /\ UNCHANGED <<serial, worker, output, frames>> /\ main'.room \in Nat /\ main'.at = "flush"
    BY <1>2, <1>3, <1>4, <1>8, <2>4, <2>7
  <2>16. InputInv /\ OwnersInv /\ FrameInv /\ Streaming
    OBVIOUS
  <2>17. QED
    BY ONLY <2>2, <2>8, <2>9, <2>12, <2>13, <2>14, <2>15, <2>16, CallNewJob
<1>9. QED
  BY <1>4, <1>6, <1>7, <1>8, CreateIs

LEMMA CallsFrame ==
  ASSUME InputInv, OwnersInv, FrameInv, Orderly, NEW op \in bound.orders, NEW room \in bound.rooms,
         FlushStream(op, room) \/ \E n \in bound.offers \cup {main.left} : CompressStream(op, n, room)
  PROVE  FrameInv'
<1>1. room \in Nat
  <2>1. bound \in Instances
    BY DEF InputInv, Shapes, IsMain, bound
  <2>2. QED
    BY <2>1, InstancesAssumption
<1>2. UNCHANGED <<serial, worker, output, frames>>
  BY DEF FlushStream, CompressStream
<1>3. /\ Streaming /\ op \in Orders
      /\ \E b \in Sections, p \in Int, goes \in Orders, left \in Nat, progress \in BOOLEAN :
              CallOf(op, room, b, p, goes, left, progress)
  BY FlushStreamIs, CompressStreamIs
<1>4. PICK b \in Sections, p \in Int, goes \in Orders, left \in Nat, progress \in BOOLEAN :
        CallOf(op, room, b, p, goes, left, progress)
  BY <1>3
<1>5. QED
  BY <1>1, <1>2, <1>3, <1>4, CallFrame
-----------------------------------------------------------------------------
(* All input at once *)

LEMMA NoNumbers == <<>> = [k \in 1 .. 1 - 1 |-> k]
<1> DEFINE s == [k \in 1 .. 0 |-> k]
<1>1. IsSequence(s) /\ Len(s) = 0
  BY Numbers
<1>2. s = <<>>
  BY ONLY <1>1, EmptySequence
<1>3. QED
  BY <1>2

LEMMA AdvancedFrame ==
  ASSUME InputInv, OwnersInv, FrameInv, NEW n \in bound.offers \cup {main.left}, NEW room, CompressAdvanced(n, room)
  PROVE  FrameInv'
<1>1. /\ Streaming /\ main.at = "out" /\ InFrame /\ mt.nextJobID = 0 /\ mt.doneJobID = 0 /\ ~mt.jobReady /\ jobs = <<>> /\ Len(jobs) = 0
      /\ fed = 0 /\ inBuff.filled = 0 /\ n \in Nat /\ fed' = n /\ UNCHANGED <<jobs, queue, worker, inBuff, frames>>
      /\ IsMt(mt') /\ mt'.doneJobID = 0 /\ mt'.nextJobID = 0 /\ mt'.jobReady = mt.jobReady /\ mt'.nbWorkers = mt.nbWorkers
      /\ main'.job = main.job /\ main'.failed = main.failed
      /\ \/ /\ main'.at = "out" /\ main'.said = "done" /\ output' = Frame(n) /\ mt'.allJobsCompleted /\ serial' = serial
         \/ /\ main'.at = "post" /\ main'.said = main.said /\ output' = output
            /\ main'.nbJobs = NbJobs(n) /\ NbJobs(n) # 1
            /\ serial' = [nextJobID |-> 0, hashed |-> <<>>]
  BY AdvancedIs
<1>2. CASE main'.at = "out" /\ main'.said = "done" /\ output' = Frame(n) /\ serial' = serial
  <2>1. FlowInv' /\ StreamFlow' /\ PostFlow'
    BY <1>2 DEF FlowInv, Running, StreamFlow, Streaming, InFrame, PostFlow, AtOnce
  <2>2. Reads(Frame(n), 0, n) /\ Len(Frame(n)) = n + 3
    BY <1>1, FrameReads
  <2>3. OutputInv'
    BY <1>1, <1>2, <2>2 DEF FrameInv, OutputInv
  <2>4. QED
    BY <2>1, <2>3 DEF FrameInv
<1>3. CASE /\ main'.at = "post" /\ main'.said = main.said /\ output' = output
           /\ main'.nbJobs = NbJobs(n) /\ NbJobs(n) # 1
           /\ serial' = [nextJobID |-> 0, hashed |-> <<>>]
  <2>1. NbJobs(n) \in Nat /\ 1 < NbJobs(n) /\ NbJobs(n) <= n
    BY <1>1, <1>3, NbJobsFits DEF InputInv, Shapes
  <2>2. AtOnce' /\ ~Streaming'
    BY <1>3 DEF AtOnce, Streaming
  <2>3. Reached' = 0
    <3>1. (0 * n) \div NbJobs(n) = 0
      <4> DEFINE x == NbJobs(n)
      <4>1. x \in Nat /\ x > 0 /\ x <= n
        BY <2>1
      <4> HIDE DEF x
      <4>2. (0 * n) \div x = 0
        BY ONLY <1>1, <4>1, EvenShares
      <4>3. QED
        BY <4>2 DEF x
    <3>2. Reached' = (0 * n) \div NbJobs(n)
      BY <1>1, <1>3, <2>2 DEF Reached, Before
    <3>3. QED
      BY <3>1, <3>2
  <2>4. Active' = {} /\ queue' = None
    BY <1>1, NobodyHas DEF OwnersInv, Active
  <2>5. jobs' = <<>> /\ Len(jobs') = 0 /\ ~mt'.jobReady
    BY <1>1
  <2>6. Flow'
    <3>1. Chain(jobs', Reached', fed') /\ \A i \in 1 .. Len(jobs') : TextOf(jobs'[i], fed')
      BY <2>5 DEF Chain
    <3>2. Staged' /\ Turns'
      BY <2>4, <2>5 DEF Staged, Turns
    <3>3. serial' = [nextJobID |-> 0, hashed |-> <<>>] /\ mt'.doneJobID = 0
      BY <1>1, <1>3
    <3>4. Hashed'
      <4>1. (At(serial.nextJobID))' = 1
        BY <3>3 DEF At
      <4>2. Start(jobs', Reached', 1) = 1
        BY <2>3, <2>5 DEF Start
      <4>3. QED
        BY <2>5, <3>3, <4>1, <4>2, NoNumbers DEF Hashed
    <3>5. QED
      BY <1>1, <2>3, <3>1, <3>2, <3>4 DEF Flow, Hashing
  <2>7. output = <<>>
    <3>1. Written /\ Reached = 0 - 0
      BY <1>1, StreamingIs
    <3>2. Len(output) = 0
      BY <1>1, <3>1 DEF Written
    <3>3. IsSequence(output)
      BY DEF FrameInv, OutputInv, Reads
    <3>4. QED
      BY <3>2, <3>3, EmptySequence
  <2>8. PostFlow'
    <3>1. ~main.failed
      BY <1>1 DEF OwnersInv, AllPosted, AtOnce
    <3>2. QED
      BY <1>1, <1>3, <2>5, <2>7, <3>1 DEF PostFlow
  <2>9. OutputInv'
    <3>1. Reads(output', 0, fed') /\ Len(output') = 0
      BY <1>1, <1>3, <2>7, ReadsEmpty
    <3>2. serial'.nextJobID \in Nat /\ Has(serial', {"nextJobID", "hashed"})
      BY <1>3 DEF Has
    <3>3. QED
      BY <1>1, <1>3, <3>1, <3>2 DEF FrameInv, OutputInv
  <2>10. QED
    BY <2>2, <2>6, <2>8, <2>9 DEF FrameInv, FlowInv, StreamFlow
<1>4. QED
  BY <1>1, <1>2, <1>3

-----------------------------------------------------------------------------
(* A share of the input posted is a job at the end of the others. *)
LEMMA ShareText ==
  ASSUME NEW j, IsJob(j), NEW n, j.user = TRUE, j.jobID \in Nat, j.src.size \in Nat, j.src.size > 0,
         j.consumed = 0, j.error = FALSE, j.dstFlushed = 0, j.out = <<>>, j.lastJob \in BOOLEAN, j.frameChecksumNeeded = FALSE
  PROVE  TextOf(j, n)
<1>1. /\ j.src.size \in Int /\ HeadLen(j) \in {0, 1} /\ EndLen(j) \in {0, 1, 2} /\ Whole(j) = HeadLen(j) + j.src.size + EndLen(j)
  BY JobParts
<1>2. Reads(j.out, Base(j), n) /\ Len(j.out) = 0
  BY ReadsEmpty
<1>3. 0 <= Whole(j)
  BY ONLY <1>1, j.src.size \in Nat
<1>4. ~Complete(j)
  BY DEF Complete
<1>5. j.dstFlushed \in 0 .. Len(j.out) /\ 0 <= j.consumed /\ j.consumed <= j.src.size
  BY <1>2
<1>6. QED
  BY <1>2, <1>3, <1>4, <1>5 DEF TextOf

LEMMA PostNextFrame ==
  ASSUME InputInv, OwnersInv, FrameInv, PostNext
  PROVE  FrameInv'
<1> DEFINE u == main.job
           j == Share(u)
<1>1. /\ AtOnce /\ main.at = "post" /\ u \in Nat /\ main.nbJobs \in Nat /\ u < main.nbJobs /\ Len(jobs) = u
      /\ 1 < main.nbJobs /\ main.nbJobs <= fed /\ fed \in Nat
      /\ jobs' = Append(jobs, j) /\ Post(u)
      /\ UNCHANGED <<mt, serial, worker, inBuff, fed, output, frames>>
      /\ IsJob(j) /\ Before(u) \in Nat /\ Before(u + 1) \in Nat /\ Before(u) < Before(u + 1) /\ Before(u + 1) <= fed
      /\ main'.nbJobs = main.nbJobs /\ main'.said = main.said /\ main'.failed = main.failed
      /\ \/ u = main.nbJobs - 1 /\ main'.at = "collect" /\ main'.job = 0
         \/ u # main.nbJobs - 1 /\ main'.at = "post" /\ main'.job = u + 1
  BY PostNextIs
<1>2. Running /\ Flow /\ serial.nextJobID \in Nat /\ mt.doneJobID = 0 /\ ~mt.jobReady
  <2>1. InFrame
    BY <1>1 DEF InputInv, Kept
  <2>2. Running
    BY <1>1, <2>1 DEF Running
  <2>3. mt.doneJobID = 0 /\ ~mt.jobReady
    BY <1>1 DEF OwnersInv, AllPosted
  <2>4. QED
    BY <2>2, <2>3 DEF FrameInv, FlowInv, OutputInv
<1>3. AtOnce' /\ Running' /\ ~Streaming'
  BY <1>1, <1>2 DEF AtOnce, Running, Streaming, InFrame
<1>4. IsSequence(jobs) /\ Len(jobs') = u + 1 /\ jobs'[u + 1] = j /\ \A i \in 1 .. u : jobs'[i] = jobs[i]
  <2>1. IsSequence(jobs)
    BY <1>2, RunningIs
  <2> HIDE DEF j
  <2>2. QED
    BY <1>1, <2>1, SequenceAppend
<1>5. Reached = Before(u) /\ Reached' = Before(u + 1)
  <2>1. Reached = Before(u)
    BY <1>1 DEF Reached
  <2>2. Reached' = (Len(jobs') * fed') \div main'.nbJobs
    BY <1>3 DEF Reached, Before
  <2>3. QED
    BY <1>1, <1>4, <2>1, <2>2 DEF Before
<1>6. /\ j.frame = frames /\ j.jobID = u /\ j.user = TRUE /\ j.src.size = Before(u + 1) - Before(u)
      /\ j.from = Before(u) + 1 /\ j.consumed = 0 /\ j.error = FALSE /\ j.dstFlushed = 0 /\ j.out = <<>>
      /\ (j.lastJob <=> u = main.nbJobs - 1) /\ j.lastJob \in BOOLEAN /\ j.frameChecksumNeeded = FALSE
  BY DEF Share
<1> HIDE DEF j
<1>7. j.src.size \in Nat /\ j.src.size > 0 /\ j.from + j.src.size = Reached' + 1 /\ j.from = Reached + 1 /\ Reached <= Reached'
      /\ Reached' \in Nat /\ Reached' <= fed
  <2>1. PICK a \in Nat : a = Before(u)
    BY ONLY <1>1
  <2>2. PICK b \in Nat : b = Before(u + 1)
    BY ONLY <1>1
  <2>3. a < b /\ b <= fed /\ j.src.size = b - a /\ j.from = a + 1
    BY ONLY <1>1, <1>6, <2>1, <2>2
  <2>4. j.src.size \in Nat /\ j.src.size > 0 /\ j.from + j.src.size = b + 1 /\ a <= b
    BY ONLY <2>3, a \in Nat, b \in Nat
  <2>5. QED
    BY ONLY <1>5, <2>1, <2>2, <2>3, <2>4
<1>8. TextOf(j, fed)
  BY <1>1, <1>6, <1>7, ShareText
<1>9. (0 * fed) \div main.nbJobs = 0 /\ (main.nbJobs * fed) \div main.nbJobs = fed
  BY <1>1, EvenShares
<1>10. u = 0 => j.from = 1
  <2>1. u = 0 => Before(u) = 0
    BY <1>9 DEF Before
  <2>2. QED
    BY <1>6, <2>1
<1>11. j.lastJob => Reached' = fed
  <2>1. j.lastJob => u + 1 = main.nbJobs
    BY ONLY SMTT(30), <1>1, <1>6
  <2>2. u + 1 = main.nbJobs => Before(u + 1) = fed
    BY <1>9 DEF Before
  <2>3. QED
    BY ONLY <1>5, <2>1, <2>2
<1>12. \A i \in 1 .. Len(jobs) : TextOf(jobs[i], fed) /\ ~jobs[i].lastJob
  <2>1. \A i \in 1 .. Len(jobs) : jobs[i].lastJob <=> i = main.nbJobs
    BY <1>1 DEF FrameInv, PostFlow
  <2>2. \A i \in 1 .. Len(jobs) : i # main.nbJobs
    BY <1>1
  <2>3. QED
    BY <1>2, <2>1, <2>2 DEF Flow
<1>13. Flow'
  <2>1. Chain(jobs, Reached, fed) /\ fed' = fed /\ mt' = mt
    BY <1>1, <1>2 DEF Flow
  <2>2. queue'.jobID = j.jobID
    BY <1>1, <1>6 DEF Post
  <2>3. j.jobID = mt.doneJobID + Len(jobs)
    BY <1>1, <1>2, <1>6
  <2>4. ~mt'.jobReady
    BY <1>2, <2>1
  <2>5. jobs' = Append(jobs, j) /\ UNCHANGED <<serial, worker>>
    BY <1>1
  <2>6. j.lastJob => Reached' = fed'
    BY <1>11, <2>1
  <2>7. j.jobID = 0 => j.from = 1
    BY <1>6, <1>10
  <2>8. \A i \in 1 .. Len(jobs) : TextOf(jobs[i], fed') /\ ~jobs[i].lastJob
    BY <1>12, <2>1
  <2>9. Chain(jobs, Reached, fed') /\ TextOf(j, fed') /\ Reached' <= fed'
    BY <1>7, <1>8, <2>1
  <2>10. QED
    BY <1>1, <1>2, <1>6, <1>7, <2>1, <2>2, <2>3, <2>4, <2>5, <2>6, <2>7, <2>8, <2>9, AppendFlows
<1>14. PostFlow'
  <2>1. output = <<>> /\ ~main.failed
    BY <1>1 DEF FrameInv, PostFlow
  <2>2. ASSUME NEW i \in 1 .. Len(jobs') PROVE jobs'[i].lastJob <=> i = main'.nbJobs
    <3>1. CASE i \in 1 .. u
      <4>1. jobs'[i] = jobs[i] /\ ~jobs[i].lastJob
        BY <1>1, <1>4, <1>12, <3>1
      <4>2. i # main.nbJobs
        BY <1>1, <3>1
      <4>3. QED
        BY <1>1, <4>1, <4>2
    <3>2. CASE i = u + 1
      <4>1. i = main.nbJobs <=> u = main.nbJobs - 1
        BY <1>1, <3>2
      <4>2. QED
        BY <1>1, <1>4, <1>6, <3>2, <4>1
    <3>3. QED
      BY <1>1, <1>4, <3>1, <3>2
  <2>3. ASSUME main'.at = "collect" PROVE main'.job = 0 /\ Len(output') = Base(jobs'[main'.job + 1])
    <3>1. main'.job = 0 /\ output' = <<>> /\ main'.job + 1 = 1
      BY <1>1, <2>1, <2>3
    <3>2. 1 \in 1 .. Len(jobs')
      BY <1>1, <1>4
    <3>3. jobs'[1].jobID = 0
      <4>1. CASE u = 0
        BY <1>4, <1>6, <4>1
      <4>2. CASE u # 0
        <5>1. 1 \in 1 .. Len(jobs)
          BY <1>1, <4>2
        <5>2. jobs[1].jobID = mt.doneJobID + 1 - 1
          BY <1>2, <5>1, RunningIs
        <5>3. QED
          BY <1>1, <1>2, <1>4, <5>1, <5>2
      <4>3. QED
        BY <4>1, <4>2
    <3>4. jobs'[1].from = 1
      BY <1>13, <3>2, <3>3 DEF Flow, Chain
    <3>5. Base(jobs'[1]) = 0
      BY <3>3, <3>4 DEF Base, HeadLen
    <3>6. QED
      BY <3>1, <3>5, EmptySequence
  <2>4. ~main'.failed /\ output' = <<>>
    BY <1>1, <2>1
  <2>5. main'.at = "collect" => \A i \in 1 .. main'.job : ~jobs'[i].error
    BY <2>3
  <2>6. QED
    BY <2>2, <2>3, <2>4, <2>5 DEF PostFlow
<1>15. StreamFlow' /\ OutputInv'
  <2>1. OutputInv'
    BY <1>1 DEF FrameInv, OutputInv
  <2>2. QED
    BY <1>3, <2>1 DEF StreamFlow
<1>16. QED
  BY <1>13, <1>14, <1>15 DEF FrameInv, FlowInv

(* What a job says of its part when nothing but the caller's place moves.  *)
LEMMA SamePlaceFlow ==
  ASSUME Flow, UNCHANGED <<jobs, serial, queue, worker, fed>>, Reached' = Reached,
         mt'.doneJobID = mt.doneJobID, mt'.nextJobID = mt.nextJobID, mt'.jobReady = mt.jobReady
  PROVE  Flow'
<1>1. Staged => Staged'
  BY DEF Staged, Active, At
<1>2. Sound' => Sound
  BY DEF Sound
<1>3. Turns => Turns'
  BY DEF Turns, Active
<1>4. Hashed => Hashed'
  BY DEF Hashed, At
<1>5. QED
  BY <1>1, <1>2, <1>3, <1>4 DEF Flow, Hashing

(* When the jobs are complete, and one of them is the last of the frame,   *)
(* the checksum is that of all of the input.                               *)
LEMMA LastHashed ==
  ASSUME InputInv, OwnersInv, Running, Flow, serial.nextJobID \in Nat, Sound,
         \A i \in 1 .. Len(jobs) : Complete(jobs[i]), Len(jobs) > 0, jobs[Len(jobs)].lastJob
  PROVE  Sum(serial.hashed) = Word(fed + 3, fed) /\ Reached = fed
<1> DEFINE l == Len(jobs)
           q == At(serial.nextJobID)
<1>1. /\ l \in Nat /\ fed \in Nat /\ mt.doneJobID \in Nat /\ Reached \in Nat
      /\ \A i \in 1 .. l : IsJob(jobs[i]) /\ jobs[i].jobID = mt.doneJobID + i - 1
  BY RunningIs DEF Flow
<1>2. Hashed /\ Chain(jobs, Reached, fed) /\ \A i \in 1 .. l : TextOf(jobs[i], fed)
  BY DEF Flow, Hashing
<1>3. l \in 1 .. l /\ l + 1 \notin 1 .. l /\ l > 0
  BY <1>1
<1>4. /\ jobs[l].from + jobs[l].src.size = fed + 1
      /\ jobs[l].from + jobs[l].src.size = Reached + 1
  <2>1. jobs[l].from + jobs[l].src.size = fed + 1
    BY <1>2, <1>3 DEF Chain
  <2>2. jobs[l].from + jobs[l].src.size = Start(jobs, Reached, l + 1)
    BY <1>2, <1>3 DEF Chain
  <2>3. ~(l + 1 <= l)
    BY ONLY <1>1
  <2>4. Start(jobs, Reached, l + 1) = Reached + 1
    BY <2>3 DEF Start
  <2>5. QED
    BY <2>1, <2>2, <2>4
<1>5. Reached = fed
  <2>1. Reached + 1 = fed + 1
    BY ONLY <1>4
  <2>2. QED
    BY ONLY <1>1, <2>1
<1>6. q \in Int /\ 1 <= q /\ q <= l + 1 /\ mt.doneJobID + q - 1 = serial.nextJobID
  <2>1. mt.doneJobID <= serial.nextJobID /\ serial.nextJobID <= mt.doneJobID + l
    BY <1>2 DEF Hashed
  <2>2. q = serial.nextJobID - mt.doneJobID + 1
    BY DEF At
  <2> HIDE DEF q, l
  <2>3. QED
    BY ONLY <1>1, <2>1, <2>2, serial.nextJobID \in Nat
<1> HIDE DEF q
<1>7. Start(jobs, Reached, q) = fed + 1
  <2>1. CASE q = l + 1
    <3>1. ~(q <= l)
      BY ONLY <1>1, <2>1
    <3>2. QED
      BY <1>5, <3>1 DEF Start
  <2>2. CASE q # l + 1
    <3>1. q \in 1 .. l /\ q <= l
      BY ONLY <1>1, <1>6, <2>2
    <3>2. jobs[q].jobID = serial.nextJobID
      BY <1>1, <1>6, <3>1
    <3>3. jobs[q].jobID >= serial.nextJobID
      BY ONLY <3>2, serial.nextJobID \in Nat
    <3>4. jobs[q].consumed = 0
      BY <1>2, <3>1, <3>3 DEF Hashed
    <3>5. jobs[q].src.size \in Int /\ jobs[q].from \in Int
      BY <1>1, <3>1, JobParts
    <3>6. jobs[q].src.size = 0
      <4>1. 0 >= jobs[q].src.size
        BY <3>1, <3>4 DEF Complete
      <4>2. 0 <= jobs[q].src.size
        BY <1>2, <3>1, <3>4 DEF TextOf
      <4>3. QED
        BY ONLY <3>5, <4>1, <4>2
    <3>7. jobs[q].from + jobs[q].src.size = fed + 1
      <4>1. jobs[q].src.size > 0 \/ jobs[q].lastJob
        BY <1>2, <3>1 DEF Chain
      <4>2. QED
        BY <1>2, <3>1, <3>6, <4>1 DEF Chain
    <3>8. jobs[q].from = fed + 1
      BY ONLY <3>5, <3>6, <3>7
    <3>9. QED
      BY <3>1, <3>8 DEF Start
  <2>3. QED
    BY <2>1, <2>2
<1>8. serial.hashed = UpTo(fed)
  <2>1. serial.hashed = UpTo(Start(jobs, Reached, q) - 1)
    BY <1>2 DEF Hashed, UpTo, q
  <2>2. Start(jobs, Reached, q) - 1 = fed
    BY <1>1, <1>7
  <2>3. QED
    BY ONLY <2>1, <2>2
<1>9. Word(fed + 3, fed) = Sum(UpTo(fed))
  <2>1. fed + 3 # 1 /\ ~(fed + 3 <= fed + 1) /\ fed + 3 # fed + 2
    BY ONLY <1>1
  <2>2. QED
    BY <2>1 DEF Word, UpTo
<1>10. QED
  BY <1>5, <1>8, <1>9

LEMMA OutputOn ==
  ASSUME NEW n, NEW s, Reads(s, 0, n), NEW b \in Int, Len(s) = b, NEW t, Reads(t, b, n)
  PROVE  Reads(s \o t, 0, n) /\ Len(s \o t) = b + Len(t) /\ Len(t) \in Nat
<1>1. b = 0 + Len(s)
  OBVIOUS
<1>2. Reads(s \o t, 0, n)
  BY <1>1, ReadsOn
<1>3. Len(s \o t) = Len(s) + Len(t)
  BY ReadsLength
<1>4. Len(t) \in Nat
  BY DEF Reads, IsSequence
<1>5. QED
  BY <1>2, <1>3, <1>4

(* The caller of ZSTDMT_compress_advanced puts a share behind the others,  *)
(* and the checksum of the whole input behind the last.                    *)
LEMMA CollectFrame ==
  ASSUME InputInv, OwnersInv, FrameInv, Collect
  PROVE  FrameInv'
<1> DEFINE c == main.job
           failed == main.failed \/ jobs[c + 1].error
<1>1. /\ AtOnce /\ main.at = "collect" /\ c \in Nat /\ main.nbJobs \in Nat /\ c < main.nbJobs
      /\ Len(jobs) = main.nbJobs /\ main.nbJobs <= fed /\ fed \in Nat
      /\ c + 1 \in 1 .. Len(jobs) /\ Complete(jobs[c + 1])
      /\ \A i \in 1 .. c : Complete(jobs[i])
      /\ UNCHANGED <<serial, queue, worker, inBuff, fed, frames>>
  BY CollectIs
<1>2. /\ output' = IF failed THEN output
                   ELSE output \o jobs[c + 1].out \o (IF c = main.nbJobs - 1 THEN <<Sum(serial.hashed)>> ELSE <<>>)
      /\ \/ /\ c # main.nbJobs - 1 /\ main'.at = "collect" /\ main'.job = c + 1
            /\ main'.failed = failed /\ main'.said = main.said /\ main'.nbJobs = main.nbJobs
            /\ mt' = mt /\ jobs' = jobs
         \/ /\ c = main.nbJobs - 1 /\ main'.at = "out" /\ main'.said = IF failed THEN "error" ELSE "done"
  BY CollectIs
<1> HIDE DEF failed
<1>3. Running /\ Flow /\ serial.nextJobID \in Nat /\ mt.doneJobID = 0 /\ InFrame
  <2>1. InFrame
    BY <1>1 DEF InputInv, Kept
  <2>2. Running
    BY <1>1, <2>1 DEF Running
  <2>3. mt.doneJobID = 0
    BY <1>1 DEF OwnersInv, AllPosted
  <2>4. QED
    BY <2>1, <2>2, <2>3 DEF FrameInv, FlowInv, OutputInv
<1>4. /\ \A i \in 1 .. Len(jobs) : jobs[i].lastJob <=> i = main.nbJobs
      /\ ~main.failed => (\A i \in 1 .. c : ~jobs[i].error) /\ Len(output) = Base(jobs[c + 1])
      /\ Reads(output, 0, fed) /\ Len(output) <= fed + 3
      /\ frames \in Nat /\ Has(serial, {"nextJobID", "hashed"})
  BY <1>1 DEF FrameInv, PostFlow, OutputInv
<1> DEFINE j == jobs[c + 1]
<1>5. /\ IsJob(j) /\ j.jobID = c /\ TextOf(j, fed) /\ Reached <= fed /\ Reached \in Nat
      /\ j.from + j.src.size = Start(jobs, Reached, c + 2) /\ j.from + j.src.size <= Reached + 1
      /\ (j.lastJob => j.from + j.src.size = fed + 1)
      /\ (j.lastJob <=> c = main.nbJobs - 1)
  <2>1. c + 1 + 1 = c + 2 /\ c + 1 - 1 = c /\ 0 + (c + 1) - 1 = c
    BY <1>1
  <2>2. IsJob(j) /\ j.jobID = mt.doneJobID + (c + 1) - 1
    BY <1>1, <1>3, RunningIs
  <2>3. j.jobID = c
    BY <1>3, <2>1, <2>2
  <2>4. c + 1 = main.nbJobs <=> c = main.nbJobs - 1
    BY <1>1
  <2>5. j.lastJob <=> c = main.nbJobs - 1
    BY <1>1, <1>4, <2>4
  <2>6. Chain(jobs, Reached, fed) /\ Reached <= fed /\ Reached \in Nat /\ TextOf(j, fed)
    BY <1>1, <1>3 DEF Flow
  <2>7. /\ j.from + j.src.size = Start(jobs, Reached, c + 1 + 1) /\ j.from + j.src.size <= Reached + 1
        /\ (j.lastJob => j.from + j.src.size = fed + 1)
    BY <1>1, <2>6 DEF Chain
  <2>8. QED
    BY <2>1, <2>2, <2>3, <2>5, <2>6, <2>7
<1>6. /\ j.from \in Int /\ j.src.size \in Int /\ HeadLen(j) \in {0, 1} /\ EndLen(j) \in {0, 1, 2} /\ Base(j) \in Int
      /\ Base(j) = j.from - HeadLen(j) /\ Whole(j) = HeadLen(j) + j.src.size + EndLen(j)
  BY <1>5, JobParts
<1> HIDE DEF j
<1>7. ASSUME ~failed
      PROVE  /\ Reads(output \o j.out, 0, fed) /\ Len(output \o j.out) = j.from + j.src.size + EndLen(j)
             /\ ~j.error /\ ~main.failed
  <2>1. ~j.error /\ ~main.failed
    BY <1>7 DEF failed, j
  <2>2. Len(output) = Base(j)
    BY <1>4, <2>1 DEF j
  <2>3. Reads(j.out, Base(j), fed) /\ Len(j.out) = Whole(j)
    BY <1>1, <1>5, <2>1 DEF TextOf, j
  <2>4. Reads(output \o j.out, 0, fed) /\ Len(output \o j.out) = Base(j) + Whole(j)
    BY <1>4, <1>6, <2>2, <2>3, OutputOn
  <2>5. Base(j) + Whole(j) = j.from + j.src.size + EndLen(j)
    <3>1. PICK h \in Int, e \in Int : h = HeadLen(j) /\ e = EndLen(j)
      BY ONLY <1>6
    <3>2. j.from \in Int /\ j.src.size \in Int
      BY <1>6
    <3>3. Base(j) = j.from - h /\ Whole(j) = h + j.src.size + e
      BY ONLY <1>6, <3>1
    <3>4. Base(j) + Whole(j) = j.from + j.src.size + e
      BY ONLY <3>2, <3>3, h \in Int, e \in Int
    <3>5. QED
      BY ONLY <3>1, <3>4
  <2>6. QED
    BY <2>1, <2>4, <2>5
<1>8. CASE c # main.nbJobs - 1
  <2>1. /\ main'.at = "collect" /\ main'.job = c + 1 /\ main'.failed = failed /\ main'.said = main.said
        /\ main'.nbJobs = main.nbJobs /\ mt' = mt /\ jobs' = jobs
    BY <1>2, <1>8
  <2>2. AtOnce' /\ Running' /\ ~Streaming' /\ Reached' = Reached
    BY <1>1, <1>3, <2>1 DEF AtOnce, Running, Streaming, InFrame, Reached, Before
  <2>3. Flow'
    BY <1>1, <1>3, <2>1, <2>2, SamePlaceFlow
  <2>4. EndLen(j) = 0
    BY <1>5, <1>8 DEF EndLen
  <2>5. ASSUME ~failed
        PROVE  /\ Reads(output', 0, fed) /\ Len(output') = j.from + j.src.size /\ ~j.error /\ ~main.failed
    <3>1. output' = output \o j.out \o <<>>
      BY <1>2, <1>8, <2>5 DEF j
    <3>2. /\ Reads(output \o j.out, 0, fed) /\ Len(output \o j.out) = j.from + j.src.size + EndLen(j)
          /\ ~j.error /\ ~main.failed
      BY <1>7, <2>5
    <3>3. j.from + j.src.size + EndLen(j) = j.from + j.src.size /\ j.from + j.src.size \in Int
      BY <1>6, <2>4
    <3> DEFINE s == output \o j.out
               b == j.from + j.src.size
    <3>4. Reads(s, 0, fed) /\ Len(s) = b /\ b \in Int
      BY <3>2, <3>3
    <3>5. Reads(<<>>, b, fed) /\ Len(<<>>) = 0
      BY ReadsEmpty
    <3> HIDE DEF s, b
    <3>6. Reads(s \o <<>>, 0, fed) /\ Len(s \o <<>>) = b + 0
      BY ONLY <3>4, <3>5, OutputOn
    <3>7. b + 0 = b
      BY ONLY <3>4
    <3>8. QED
      BY <3>1, <3>2, <3>6, <3>7 DEF s, b
  <2>6. ASSUME ~failed PROVE Len(output') = Base(jobs[c + 2])
    <3>1. c + 2 \in 1 .. Len(jobs) /\ c + 2 <= Len(jobs) /\ c + 2 - 1 # 0
      BY ONLY <1>1, <1>8
    <3>2. jobs[c + 2].jobID = mt.doneJobID + (c + 2) - 1 /\ IsJob(jobs[c + 2])
      BY <1>3, <3>1, RunningIs
    <3>3. jobs[c + 2].jobID # 0
      BY ONLY <1>1, <1>3, <3>2
    <3>4. Base(jobs[c + 2]) = jobs[c + 2].from
      <4>1. HeadLen(jobs[c + 2]) = 0
        BY <3>3 DEF HeadLen
      <4>2. jobs[c + 2].from \in Int
        BY <3>2, JobParts
      <4>3. QED
        BY <4>1, <4>2 DEF Base
    <3>5. Start(jobs, Reached, c + 2) = jobs[c + 2].from
      BY <3>1 DEF Start
    <3>6. QED
      BY <1>5, <2>5, <2>6, <3>4, <3>5
  <2>7. PostFlow'
    <3>1. ASSUME ~main'.failed PROVE (\A i \in 1 .. main'.job : ~jobs'[i].error) /\ Len(output') = Base(jobs'[main'.job + 1])
      <4>1. ~failed
        BY <2>1, <3>1
      <4>2. ~j.error /\ ~main.failed
        BY <2>5, <4>1
      <4>3. \A i \in 1 .. c + 1 : i \in 1 .. c \/ i = c + 1
        BY ONLY <1>1
      <4>4. \A i \in 1 .. c + 1 : ~jobs[i].error
        BY <1>4, <4>2, <4>3 DEF j
      <4>5. main'.job + 1 = c + 2
        BY ONLY <1>1, <2>1
      <4>6. QED
        BY <2>1, <2>6, <4>1, <4>4, <4>5
    <3>2. \A i \in 1 .. Len(jobs') : jobs'[i].lastJob <=> i = main'.nbJobs
      BY <1>4, <2>1
    <3>3. QED
      BY <2>1, <3>1, <3>2 DEF PostFlow
  <2>8. Reads(output', 0, fed') /\ Len(output') <= fed' + 3
    <3>1. CASE failed
      BY <1>1, <1>2, <1>4, <3>1
    <3>2. CASE ~failed
      <4>1. Reads(output', 0, fed) /\ Len(output') = j.from + j.src.size
        BY <2>5, <3>2
      <4>2. j.from + j.src.size <= fed + 3
        BY ONLY SMTT(30), <1>1, <1>5, <1>6
      <4>3. QED
        BY <1>1, <4>1, <4>2
    <3>3. QED
      BY <3>1, <3>2
  <2>9. OutputInv'
    BY <1>1, <1>3, <1>4, <2>1, <2>8 DEF OutputInv
  <2>10. QED
    BY <2>2, <2>3, <2>7, <2>9 DEF FrameInv, FlowInv, StreamFlow
<1>9. CASE c = main.nbJobs - 1
  <2>1. main'.at = "out" /\ main'.said = IF failed THEN "error" ELSE "done"
    BY <1>2, <1>9
  <2>2. ~AtOnce' /\ ~Running' /\ ~Streaming'
    BY <2>1 DEF AtOnce, Running, Streaming, InFrame
  <2>3. CASE failed
    <3>1. output' = output /\ main'.said = "error"
      BY <1>2, <2>1, <2>3
    <3>2. OutputInv'
      BY <1>1, <1>3, <1>4, <3>1 DEF OutputInv
    <3>3. QED
      BY <2>2, <3>2 DEF FrameInv, FlowInv, StreamFlow, PostFlow
  <2>4. CASE ~failed
    <3>1. output' = output \o j.out \o <<Sum(serial.hashed)>>
      BY <1>2, <1>9, <2>4 DEF j
    <3>2. /\ Reads(output \o j.out, 0, fed) /\ Len(output \o j.out) = j.from + j.src.size + EndLen(j)
          /\ ~j.error /\ ~main.failed
      BY <1>7, <2>4
    <3>3. j.lastJob /\ c + 1 = Len(jobs) /\ j = jobs[Len(jobs)] /\ Len(jobs) > 0
      BY <1>1, <1>5, <1>9 DEF j
    <3>4. \A i \in 1 .. Len(jobs) : i \in 1 .. c \/ i = c + 1
      BY ONLY <1>1, <3>3
    <3>5. Sound
      BY <1>4, <3>2, <3>4 DEF Sound, j
    <3>6. \A i \in 1 .. Len(jobs) : Complete(jobs[i])
      BY <1>1, <3>4
    <3>7. Sum(serial.hashed) = Word(fed + 3, fed)
      BY <1>3, <3>3, <3>5, <3>6, LastHashed
    <3>8. EndLen(j) = 1
      <4>1. j.user
        BY <1>1, <1>3 DEF InputInv, PostInv, Posting, AtOnce, j
      <4>2. c # 0
        BY <1>1, <1>9 DEF OwnersInv, AllPosted
      <4>3. QED
        BY <1>5, <3>3, <4>1, <4>2 DEF EndLen
    <3>9. Len(output \o j.out) = fed + 2
      <4>1. j.from + j.src.size = fed + 1
        BY <1>5, <3>3
      <4>2. QED
        BY ONLY <1>1, <3>2, <3>8, <4>1
    <3> DEFINE s == output \o j.out
               t == <<Sum(serial.hashed)>>
    <3>10. Reads(t, fed + 2, fed) /\ Len(t) = 1
      <4>1. fed + 2 + 1 = fed + 3
        BY ONLY <1>1
      <4>2. Sum(serial.hashed) = Word(fed + 2 + 1, fed)
        BY <3>7, <4>1
      <4>3. QED
        BY ONLY <4>2, ReadsOne
    <3>11. output' = s \o t /\ Reads(s, 0, fed) /\ Len(s) = fed + 2
      BY <3>1, <3>2, <3>9
    <3> HIDE DEF s, t
    <3>12. Reads(s \o t, 0, fed) /\ Len(s \o t) = fed + 2 + Len(t)
      <4>1. PICK b \in Int : b = fed + 2
        BY <1>1
      <4>2. Reads(t, b, fed) /\ Reads(s, 0, fed) /\ Len(s) = b
        BY ONLY <3>10, <3>11, <4>1
      <4>3. Reads(s \o t, 0, fed) /\ Len(s \o t) = b + Len(t)
        BY ONLY <4>2, OutputOn, b \in Int
      <4>4. QED
        BY ONLY <4>1, <4>3
    <3>13. Len(output') = fed + 3 /\ Reads(output', 0, fed)
      BY <1>1, <3>10, <3>11, <3>12
    <3>14. fed + 3 <= fed + 3
      BY <1>1
    <3>15. OutputInv'
      BY <1>1, <1>3, <1>4, <3>13, <3>14 DEF OutputInv
    <3>16. QED
      BY <2>2, <3>15 DEF FrameInv, FlowInv, StreamFlow, PostFlow
  <2>5. QED
    BY <2>3, <2>4
<1>10. QED
  BY <1>8, <1>9
-----------------------------------------------------------------------------
(* A call flushes and returns *)

LEMMA SayDone ==
  ASSUME IsMain(main), NEW m, NEW js, Say(m, js), js = <<>>, inBuff.filled = 0, main.op = "end", m.frameEnded, main.left = 0
  PROVE  main'.said = "done"
<1>1. ~(main.left > 0)
  OBVIOUS
<1>2. main' = [main EXCEPT !.at = "out", !.block = FALSE, !.room = 0, !.said = "done"]
  BY <1>1 DEF Say
<1>3. QED
  BY <1>2 DEF IsMain, Has, MainFields

(* What a call that returns with the jobs js leaves. *)
LEMMA SayFrame ==
  ASSUME InputInv, OwnersInv, FrameInv, Streaming, main.at = "flush", NEW m, NEW js, IsMt(m), Say(m, js),
         UNCHANGED <<serial, queue, worker, inBuff, fed, frames>>,
         m.nextJobID = mt.nextJobID, m.jobReady = mt.jobReady, m.frameEnded = mt.frameEnded,
         Reads(output', 0, fed), Len(output') <= fed + 3,
         js = <<>> /\ mt.frameEnded => Len(output') = fed + 3,
         \A i \in 1 .. Len(js) : i = Len(js) => (js[i].lastJob <=> mt.frameEnded),
         \A i \in 2 .. Len(js) : js[i].dstFlushed = 0,
         js = <<>> /\ ~mt.frameEnded => Len(output') = Reached + 1 - (IF mt.nextJobID = 0 THEN 1 ELSE 0),
         js # <<>> => Len(output') = Base(js[1]) + js[1].dstFlushed,
         /\ js # <<>> \/ ~mt.frameEnded
         /\ mt'.doneJobID = m.doneJobID /\ mt'.nextJobID = m.nextJobID /\ mt'.jobReady = m.jobReady
         /\ jobs' = js /\ Reached' = Reached
         => Flow'
  PROVE  FrameInv'
<1>1. /\ Running /\ ~AtOnce /\ Reached = fed - inBuff.filled /\ Count
      /\ mt.frameEnded => jobs # <<>> /\ inBuff.filled = 0
  BY StreamingIs
<1>2. IsMain(main)
  BY DEF InputInv, Shapes
<1>3. /\ jobs' = js /\ IsMt(mt') /\ mt'.doneJobID = m.doneJobID /\ mt'.nextJobID = m.nextJobID
      /\ mt'.jobReady = m.jobReady /\ mt'.frameEnded = m.frameEnded
      /\ main'.at = "out" /\ main'.room = 0
      /\ main'.said \in {"more", "flushed", "done"}
      /\ main'.said = "done" => js = <<>> /\ inBuff.filled = 0 /\ m.frameEnded
  BY <1>2, SayIs
<1>4. ~AtOnce' /\ Reached' = Reached
  BY <1>1, <1>3 DEF AtOnce, Reached
<1>5. OutputInv'
  <2>1. frames' \in Nat /\ serial'.nextJobID \in Nat /\ Has(serial', {"nextJobID", "hashed"})
    BY DEF FrameInv, OutputInv
  <2>2. main'.said = "done" => Len(output') = fed' + 3
    BY <1>3
  <2>3. QED
    BY <2>1, <2>2 DEF OutputInv
<1>6. PostFlow'
  BY <1>4 DEF PostFlow
<1>7. CASE main'.said = "done"
  <2>1. ~Running' /\ ~Streaming'
    BY <1>7 DEF Running, Streaming, InFrame
  <2>2. QED
    BY <1>5, <1>6, <2>1 DEF FrameInv, FlowInv, StreamFlow
<1>8. CASE main'.said # "done"
  <2>1. js # <<>> \/ ~mt.frameEnded
    <3> SUFFICES ASSUME js = <<>>, mt.frameEnded PROVE FALSE
      OBVIOUS
    <3>1. main.op = "end" /\ main.left = 0 /\ inBuff.filled = 0
      BY <1>1 DEF Count
    <3>2. QED
      BY <1>2, <1>8, <3>1, SayDone
  <2>2. Flow'
    BY <1>3, <1>4, <2>1
  <2>3. Written'
    <3>1. CASE js = <<>>
      BY <1>3, <1>4, <2>1, <3>1 DEF Written
    <3>2. CASE js # <<>>
      BY <1>3, <3>2 DEF Written
    <3>3. QED
      BY <3>1, <3>2
  <2>4. StreamFlow'
    <3>1. mt'.frameEnded => jobs' # <<>> /\ inBuff'.filled = 0
      BY <1>1, <1>3, <2>1
    <3>2. main'.room \in Nat
      BY <1>3
    <3>3. /\ \A i \in 1 .. Len(jobs') : i = Len(jobs') => (jobs'[i].lastJob <=> mt'.frameEnded)
          /\ \A i \in 2 .. Len(jobs') : jobs'[i].dstFlushed = 0
      BY <1>3
    <3>4. QED
      BY <2>3, <3>1, <3>2, <3>3 DEF StreamFlow
  <2>5. QED
    BY <1>5, <1>6, <2>2, <2>4 DEF FrameInv, FlowInv
<1>9. QED
  BY <1>7, <1>8

LEMMA FlushNothingFrame ==
  ASSUME InputInv, OwnersInv, FrameInv, FlushNothing
  PROVE  FrameInv'
<1>1. main.at = "flush" /\ Say(mt, jobs) /\ UNCHANGED <<serial, queue, worker, inBuff, fed, output, frames>>
  BY DEF FlushNothing, Flushing, buffers
<1>2. Streaming
  BY <1>1 DEF InputInv, Kept, Streaming
<1>3. /\ Running /\ Flow
      /\ mt.frameEnded => jobs # <<>> /\ inBuff.filled = 0
      /\ \A i \in 1 .. Len(jobs) : i = Len(jobs) => (jobs[i].lastJob <=> mt.frameEnded)
      /\ \A i \in 2 .. Len(jobs) : jobs[i].dstFlushed = 0
      /\ Written
  BY <1>2, StreamingIs
<1>4. IsMt(mt) /\ Reads(output', 0, fed) /\ Len(output') <= fed + 3
  BY <1>1 DEF InputInv, Shapes, FrameInv, OutputInv
<1>5. ASSUME mt'.doneJobID = mt.doneJobID, mt'.nextJobID = mt.nextJobID, mt'.jobReady = mt.jobReady,
             jobs' = jobs, Reached' = Reached
      PROVE  Flow'
  BY <1>1, <1>3, <1>5, SamePlaceFlow
<1>6. /\ jobs = <<>> /\ ~mt.frameEnded => Len(output') = Reached + 1 - (IF mt.nextJobID = 0 THEN 1 ELSE 0)
      /\ jobs # <<>> => Len(output') = Base(jobs[1]) + jobs[1].dstFlushed
  BY <1>1, <1>3 DEF Written
<1>7. jobs = <<>> /\ mt.frameEnded => Len(output') = fed + 3
  BY <1>3
<1>8. QED
  BY <1>1, <1>2, <1>3, <1>4, <1>5, <1>6, <1>7, SayFrame

(* What is in the part of the first job f once the checksum may be behind  *)
(* it.                                                                     *)
LEMMA ProducedText ==
  ASSUME NEW f, IsJob(f), NEW n \in Nat, TextOf(f, n), ~f.error, ~f.user, f.jobID \in Nat, f.lastJob => f.from + f.src.size = n + 1,
         NEW x, f.frameChecksumNeeded /\ Complete(f) => x = Word(n + 3, n), NEW out,
         out = IF Complete(f) /\ f.frameChecksumNeeded THEN f.out \o <<x>> ELSE f.out,
         NEW j, Same(f, j), j.error = f.error, j.out = out, j.consumed = f.consumed,
         j.frameChecksumNeeded = (f.frameChecksumNeeded /\ ~Complete(f)),
         j.dstFlushed \in 0 .. Len(out)
  PROVE  TextOf(j, n)
<1>1. /\ f.from \in Int /\ f.src.size \in Int /\ HeadLen(f) \in {0, 1} /\ EndLen(f) \in {0, 1, 2} /\ Base(f) \in Int
      /\ Base(f) = f.from - HeadLen(f) /\ Whole(f) \in Int /\ Whole(f) = HeadLen(f) + f.src.size + EndLen(f)
  BY JobParts
<1>2. /\ Reads(f.out, Base(f), n) /\ Len(f.out) <= Whole(f) /\ 0 <= f.consumed /\ f.consumed <= f.src.size
      /\ Complete(f) => Len(f.out) = Whole(f)
      /\ f.lastJob /\ f.jobID > 0 /\ ~Complete(f) => f.frameChecksumNeeded
      /\ f.frameChecksumNeeded => f.lastJob /\ f.jobID > 0
      /\ f.error \in BOOLEAN /\ f.lastJob \in BOOLEAN /\ f.frameChecksumNeeded \in BOOLEAN
  BY DEF TextOf
<1>3. /\ HeadLen(j) = HeadLen(f) /\ Base(j) = Base(f) /\ j.lastJob = f.lastJob /\ j.src = f.src /\ j.jobID = f.jobID /\ j.user = f.user
      /\ Complete(j) <=> Complete(f)
  BY DEF Same, HeadLen, Base, Complete
<1>4. CASE Complete(f) /\ f.frameChecksumNeeded
  <2>1. out = f.out \o <<x>> /\ x = Word(n + 3, n) /\ j.frameChecksumNeeded = FALSE
    BY <1>4
  <2>2. f.jobID # 0 /\ f.lastJob /\ Len(f.out) = Whole(f) /\ f.from + f.src.size = n + 1
    BY <1>2, <1>4
  <2>3. HeadLen(f) = 0 /\ EndLen(f) = 1
    BY <1>4, <2>2 DEF HeadLen, EndLen
  <2>4. EndLen(j) = 2 /\ HeadLen(j) = 0
    BY <1>3, <2>1, <2>2, <2>3 DEF EndLen
  <2>5. Whole(j) = f.src.size + 2 /\ Len(f.out) = f.src.size + 1 /\ Base(f) + Len(f.out) = n + 2
    <3>1. Whole(j) = HeadLen(j) + j.src.size + EndLen(j)
      BY DEF Whole
    <3>2. Whole(j) = 0 + f.src.size + 2
      BY ONLY <1>3, <2>4, <3>1
    <3>3. Len(f.out) = 0 + f.src.size + 1 /\ Base(f) = f.from - 0
      BY ONLY <1>1, <2>2, <2>3
    <3>4. f.from \in Int /\ f.src.size \in Int
      BY <1>1
    <3>5. PICK a \in Int, z \in Int : a = f.from /\ z = f.src.size
      BY ONLY <3>4
    <3>6. Whole(j) = z + 2 /\ Len(f.out) = z + 1 /\ Base(f) = a /\ a + z = n + 1
      BY ONLY <2>2, <3>2, <3>3, <3>5, a \in Int, z \in Int
    <3>7. Base(f) + Len(f.out) = n + 2
      BY ONLY <3>6, a \in Int, z \in Int, n \in Nat
    <3>8. QED
      BY ONLY <3>5, <3>6, <3>7
  <2>6. Reads(<<x>>, n + 2, n) /\ Len(<<x>>) = 1
    <3>1. n + 2 + 1 = n + 3
      OBVIOUS
    <3>2. x = Word(n + 2 + 1, n)
      BY <2>1, <3>1
    <3>3. QED
      BY ONLY <3>2, ReadsOne
  <2>7. Reads(out, Base(j), n)
    <3>1. n + 2 = Base(f) + Len(f.out)
      BY <2>5
    <3>2. Reads(f.out \o <<x>>, Base(f), n)
      BY ONLY <1>1, <1>2, <2>6, <3>1, ReadsOn
    <3>3. QED
      BY <1>3, <2>1, <3>2
  <2>8. Len(out) = Whole(j)
    <3>1. Len(f.out \o <<x>>) = Len(f.out) + Len(<<x>>)
      BY <1>2, <2>6, ReadsLength
    <3>2. Len(out) = f.src.size + 1 + 1
      BY ONLY <2>1, <2>5, <2>6, <3>1
    <3>3. QED
      BY ONLY <1>1, <2>5, <3>2
  <2>9. Len(out) <= Whole(j)
    <3>1. Len(out) \in Nat
      BY <2>7 DEF Reads, IsSequence
    <3>2. QED
      BY ONLY <2>8, <3>1
  <2>10. QED
    BY <1>2, <1>3, <1>4, <2>1, <2>7, <2>8, <2>9 DEF TextOf
<1>5. CASE ~(Complete(f) /\ f.frameChecksumNeeded)
  <2>1. out = f.out /\ j.frameChecksumNeeded = f.frameChecksumNeeded
    BY <1>2, <1>5
  <2>2. Whole(j) = Whole(f)
    BY <2>1, SameParts
  <2>3. QED
    BY <1>2, <1>3, <2>1, <2>2 DEF TextOf
<1>6. QED
  BY <1>4, <1>5

(* What flushing does to the first job, and what goes out. *)
LEMMA FlushPart ==
  ASSUME InputInv, OwnersInv, FrameInv, Flush, NEW out, NEW n, NEW j, Flushes(out, n, j)
  PROVE  /\ Streaming /\ main.at = "flush" /\ FirstPosted /\ Len(jobs) \in Nat /\ Len(jobs) > 0 /\ IsJob(jobs[1])
         /\ UNCHANGED <<serial, queue, worker, inBuff, fed, frames>>
         /\ Same(jobs[1], j) /\ j.consumed = jobs[1].consumed /\ ~jobs[1].error /\ j.error = jobs[1].error /\ j.out = out
         /\ ~Complete(jobs[1]) => j.out = jobs[1].out /\ j.frameChecksumNeeded = jobs[1].frameChecksumNeeded
         /\ Complete(jobs[1]) => ~j.frameChecksumNeeded
         /\ ~j.user /\ TextOf(j, fed)
         /\ Reads(output', 0, fed) /\ Len(output') <= fed + 3 /\ Len(output') = Base(j) + j.dstFlushed
<1> DEFINE f == jobs[1]
<1>1. main.at = "flush" /\ FirstPosted /\ ~First.error /\ UNCHANGED <<serial, queue, worker, inBuff, fed, frames>>
  BY DEF Flush, Flushing, buffers
<1>2. Streaming
  BY <1>1 DEF InputInv, Kept, Streaming
<1>3. /\ Running /\ Flow /\ Count /\ main.room \in Nat /\ Written /\ serial.nextJobID \in Nat
  BY <1>2, StreamingIs DEF FrameInv, OutputInv
<1>4. /\ IsMt(mt) /\ AreJobs(jobs) /\ fed \in Nat /\ mt.doneJobID \in Nat /\ mt.nextJobID \in Nat /\ IsSequence(jobs)
      /\ \A i \in 1 .. Len(jobs) : IsJob(jobs[i]) /\ jobs[i].jobID \in Nat
  BY <1>3, RunningIs
<1>5. Len(jobs) \in Nat /\ Len(jobs) > 0 /\ 1 \in 1 .. Len(jobs)
  <2>1. Len(jobs) \in Nat
    BY <1>4 DEF IsSequence
  <2>2. mt.nextJobID - mt.doneJobID <= Len(jobs)
    BY <1>3, <1>4, <2>1 DEF Count
  <2>3. Len(jobs) > 0
    BY <1>1, <1>4, <2>2, PostedThere
  <2>4. QED
    BY ONLY <2>1, <2>3
<1>6. /\ IsJob(f) /\ f.jobID \in Nat /\ ~f.error /\ f = First /\ TextOf(f, fed)
      /\ (f.lastJob => Len(jobs) = 1 /\ f.from + f.src.size = fed + 1)
      /\ f.from + f.src.size <= Reached + 1 /\ Reached \in Nat /\ Reached <= fed
  <2>1. Chain(jobs, Reached, fed)
    BY <1>3 DEF Flow
  <2>2. QED
    BY <1>1, <1>3, <1>4, <1>5, <2>1 DEF First, Flow, Chain
<1>7. ~f.user
  BY <1>2, <1>5, StreamingHas DEF Layout, JobFits
<1>8. f.frameChecksumNeeded /\ Complete(f) => Sum(serial.hashed) = Word(fed + 3, fed)
  <2> SUFFICES ASSUME f.frameChecksumNeeded, Complete(f) PROVE Sum(serial.hashed) = Word(fed + 3, fed)
    OBVIOUS
  <2>1. f.lastJob /\ Len(jobs) = 1
    BY <1>6 DEF TextOf
  <2>2. \A i \in 1 .. Len(jobs) : jobs[i] = f
    BY <2>1
  <2>3. Sound /\ \A i \in 1 .. Len(jobs) : Complete(jobs[i])
    BY <1>6, <2>2 DEF Sound
  <2>4. jobs[Len(jobs)].lastJob
    BY <2>1
  <2>5. QED
    BY <1>3, <1>5, <2>3, <2>4, LastHashed
<1>9. /\ out = IF Complete(f) /\ f.frameChecksumNeeded THEN f.out \o <<Sum(serial.hashed)>> ELSE f.out
      /\ n = Smaller(Len(out) - f.dstFlushed, main.room)
      /\ j = [f EXCEPT !.out = out, !.dstFlushed = f.dstFlushed + n, !.frameChecksumNeeded = f.frameChecksumNeeded /\ ~Complete(f)]
      /\ output' = output \o SubSeq(out, j.dstFlushed - n + 1, j.dstFlushed)
  BY Zenon, <1>6 DEF Flushes, Produced
<1>10. /\ IsSequence(f.out) /\ Len(f.out) \in Nat /\ f.dstFlushed \in 0 .. Len(f.out)
       /\ Reads(f.out, Base(f), fed) /\ f.frameChecksumNeeded \in BOOLEAN /\ f.error \in BOOLEAN
  BY <1>6 DEF TextOf, Reads, IsSequence
<1>11. Len(out) \in Nat /\ Len(f.out) <= Len(out)
  <2>1. \A x : Len(f.out \o <<x>>) = Len(f.out) + 1
    <3> TAKE x
    <3>1. IsSequence(<<x>>) /\ Len(<<x>>) = 1
      BY SequenceOne
    <3>2. Len(f.out \o <<x>>) = Len(f.out) + Len(<<x>>)
      BY ONLY <1>10, <3>1, SequenceConcat
    <3>3. QED
      BY <3>1, <3>2
  <2>2. Len(out) = Len(f.out) + 1 \/ Len(out) = Len(f.out)
    BY Zenon, <1>9, <2>1
  <2>3. QED
    BY ONLY <1>10, <2>2
<1>12. n \in Nat /\ f.dstFlushed \in Nat /\ f.dstFlushed + n \in 0 .. Len(out)
  <2>1. f.dstFlushed \in Nat /\ Len(out) - f.dstFlushed \in Nat
    BY ONLY <1>10, <1>11
  <2>2. n \in Nat /\ n <= Len(out) - f.dstFlushed
    <3>1. PICK a \in Nat : a = Len(out) - f.dstFlushed
      BY ONLY <2>1
    <3>2. PICK r \in Nat : r = main.room
      BY ONLY <1>3
    <3>3. n = Smaller(a, r)
      BY ONLY Zenon, <1>9, <3>1, <3>2
    <3>4. n \in Nat /\ n <= a
      BY ONLY <3>3, a \in Nat, r \in Nat DEF Smaller
    <3>5. QED
      BY ONLY <3>1, <3>4
  <2>3. QED
    BY ONLY <1>11, <2>1, <2>2
<1>13. /\ Same(f, j) /\ j.error = f.error /\ j.out = out /\ j.consumed = f.consumed /\ j.dstFlushed = f.dstFlushed + n
       /\ j.frameChecksumNeeded = (f.frameChecksumNeeded /\ ~Complete(f))
  <2>1. PICK y, z : y = f.dstFlushed + n /\ z = (f.frameChecksumNeeded /\ ~Complete(f))
    OBVIOUS
  <2>2. j = [f EXCEPT !.out = out, !.dstFlushed = y, !.frameChecksumNeeded = z]
    BY Zenon, <1>9, <2>1
  <2> HIDE DEF f
  <2>3. Same(f, j) /\ j.error = f.error /\ j.out = out /\ j.consumed = f.consumed /\ j.dstFlushed = y /\ j.frameChecksumNeeded = z
    <3>1. IsJob(f)
      BY <1>6
    <3>2. QED
      BY ONLY <2>2, <3>1 DEF IsJob, Has, JobFields, Same
  <2>4. QED
    BY ONLY <2>1, <2>3
<1> HIDE DEF f
<1>14. TextOf(j, fed)
  <2>1. j.dstFlushed \in 0 .. Len(out)
    BY <1>12, <1>13
  <2>2. PICK x : x = Sum(serial.hashed)
    OBVIOUS
  <2>3. f.frameChecksumNeeded /\ Complete(f) => x = Word(fed + 3, fed)
    BY ONLY <1>8, <2>2
  <2>4. out = IF Complete(f) /\ f.frameChecksumNeeded THEN f.out \o <<x>> ELSE f.out
    BY ONLY <1>9, <2>2
  <2>5. fed \in Nat /\ (f.lastJob => f.from + f.src.size = fed + 1)
    BY ONLY <1>4, <1>6
  <2>6. QED
    BY ONLY <1>6, <1>7, <1>13, <2>1, <2>3, <2>4, <2>5, ProducedText
<1>15. Base(j) = Base(f) /\ Base(f) \in Int
  BY <1>6, <1>13, SameParts, JobParts
<1>16. Reads(output', 0, fed) /\ Len(output') = Base(j) + j.dstFlushed
  <2>1. Reads(output, 0, fed) /\ Len(output) = Base(f) + f.dstFlushed
    <3>1. jobs # <<>>
      BY <1>5, EmptySequence
    <3>2. QED
      BY <1>3, <3>1 DEF FrameInv, OutputInv, Written, f
  <2>2. PICK d \in Nat, e \in Nat : d = f.dstFlushed /\ e = f.dstFlushed + n
    BY ONLY <1>12
  <2>3. PICK b \in Int : b = Base(f) + d
    BY ONLY <1>15, d \in Nat
  <2>4. e = d + n /\ d <= e /\ e <= Len(out) /\ j.dstFlushed = e
    BY ONLY <1>12, <1>13, <2>2
  <2>5. j.dstFlushed - n + 1 = d + 1
    BY ONLY <1>12, <2>4, d \in Nat, e \in Nat
  <2>6. output' = output \o SubSeq(out, d + 1, e)
    BY ONLY Zenon, <1>9, <2>4, <2>5
  <2>7. Reads(out, Base(f), fed)
    BY <1>13, <1>14, <1>15 DEF TextOf
  <2>8. PICK lo : lo = d + 1
    OBVIOUS
  <2>9. Reads(SubSeq(out, lo, e), b, fed) /\ Len(SubSeq(out, lo, e)) = e - d
    BY ONLY <1>15, <2>3, <2>4, <2>7, <2>8, ReadsPart, d \in Nat, e \in Nat
  <2> DEFINE t == SubSeq(out, d + 1, e)
  <2>10. Reads(t, b, fed) /\ Len(t) = e - d
    BY ONLY <2>8, <2>9
  <2>11. output' = output \o t /\ Reads(output, 0, fed) /\ Len(output) = b
    BY ONLY <2>1, <2>2, <2>3, <2>6
  <2> HIDE DEF t
  <2>12. Reads(output \o t, 0, fed) /\ Len(output \o t) = b + Len(t)
    BY ONLY <2>10, <2>11, OutputOn, b \in Int
  <2>13. b + Len(t) = Base(j) + j.dstFlushed
    <3>1. PICK g \in Int : g = Base(f)
      BY ONLY <1>15
    <3>2. b = g + d /\ Len(t) = e - d
      BY ONLY <2>3, <2>10, <3>1
    <3>3. b + Len(t) = g + e
      BY ONLY <3>2, g \in Int, d \in Nat, e \in Nat, b \in Int
    <3>4. QED
      BY ONLY <1>15, <2>4, <3>1, <3>3
  <2>14. QED
    BY ONLY <2>11, <2>12, <2>13
<1>17. Base(j) + j.dstFlushed <= fed + 3
  <2>1. IsJob(j)
    <3>1. \E y, z : j = [f EXCEPT !.out = out, !.dstFlushed = y, !.frameChecksumNeeded = z]
      BY Zenon, <1>9
    <3>2. PICK y, z : j = [f EXCEPT !.out = out, !.dstFlushed = y, !.frameChecksumNeeded = z]
      BY <3>1
    <3>3. QED
      BY ONLY <1>6, <3>2 DEF IsJob, Has, JobFields
  <2>2. /\ j.from \in Int /\ j.src.size \in Int /\ HeadLen(j) \in {0, 1} /\ EndLen(j) \in {0, 1, 2}
        /\ Base(j) = j.from - HeadLen(j) /\ Whole(j) = HeadLen(j) + j.src.size + EndLen(j)
    BY <2>1, JobParts
  <2>3. Len(j.out) <= Whole(j) /\ j.dstFlushed \in 0 .. Len(j.out) /\ Len(j.out) \in Nat
    BY <1>14 DEF TextOf, Reads, IsSequence
  <2>4. j.from + j.src.size <= Reached + 1
    BY <1>6, <1>13 DEF Same
  <2>5. PICK h \in Int, e \in Int : h = HeadLen(j) /\ e = EndLen(j) /\ e <= 2
    BY ONLY <2>2
  <2>6. Base(j) = j.from - h /\ Whole(j) = h + j.src.size + e /\ j.from \in Int /\ j.src.size \in Int
    BY ONLY <2>2, <2>5
  <2>7. j.dstFlushed \in Nat /\ j.dstFlushed <= h + j.src.size + e
    BY ONLY SMTT(30), <2>3, <2>6, h \in Int, e \in Int
  <2>8. Base(j) + j.dstFlushed <= j.from + j.src.size + e
    BY ONLY <2>6, <2>7, h \in Int, e \in Int
  <2>9. Base(j) + j.dstFlushed \in Int
    BY ONLY <2>6, <2>7, h \in Int
  <2>10. QED
    BY ONLY SMTT(30), <1>4, <1>6, <2>4, <2>5, <2>6, <2>8, <2>9, e \in Int
<1>18. Len(output') <= fed + 3
  BY ONLY <1>16, <1>17
<1>19. ~Complete(f) => j.out = f.out /\ j.frameChecksumNeeded = f.frameChecksumNeeded
  BY <1>9, <1>10, <1>13
<1>20. (Complete(f) => ~j.frameChecksumNeeded) /\ ~j.user
  BY <1>7, <1>13 DEF Same
<1>21. QED
  BY <1>1, <1>2, <1>5, <1>6, <1>13, <1>14, <1>16, <1>18, <1>19, <1>20 DEF f

(* The first job is flushed in part, or has nothing to flush. *)
LEMMA FlushKeptFlow ==
  ASSUME InputInv, OwnersInv, Running, Streaming, Flow, serial.nextJobID \in Nat, Len(jobs) > 0, NEW j, Same(jobs[1], j),
         j.consumed = jobs[1].consumed, j.error = jobs[1].error, TextOf(j, fed),
         ~Complete(jobs[1]) => j.out = jobs[1].out /\ j.frameChecksumNeeded = jobs[1].frameChecksumNeeded,
         Len(jobs') = Len(jobs), jobs'[1] = j, \A i \in 2 .. Len(jobs) : jobs'[i] = jobs[i],
         UNCHANGED <<serial, queue, worker, fed>>, Reached' = Reached,
         mt'.doneJobID = mt.doneJobID, mt'.nextJobID = mt.nextJobID, mt'.jobReady = mt.jobReady
  PROVE  Flow'
<1>1. /\ Len(jobs) \in Nat /\ (mt.jobReady => At(mt.nextJobID) = Len(jobs))
      /\ \A i \in 1 .. Len(jobs) : IsJob(jobs[i])
  BY RunningIs
<1>2. \A i \in 1 .. Len(jobs) : i = 1 \/ i \in 2 .. Len(jobs)
  BY <1>1
<1>3. \A i \in 1 .. Len(jobs) : /\ Same(jobs[i], jobs'[i]) /\ jobs'[i].consumed = jobs[i].consumed
                                /\ jobs'[i].error = jobs[i].error /\ TextOf(jobs'[i], fed)
  <2>1. \A i \in 1 .. Len(jobs) : TextOf(jobs[i], fed)
    BY DEF Flow
  <2>2. \A i \in 1 .. Len(jobs) : Same(jobs[i], jobs[i])
    BY DEF Same
  <2>3. QED
    BY <1>2, <2>1, <2>2
<1>4. Chain(jobs', Reached', fed')
  <2>1. Chain(jobs, Reached, fed)
    BY DEF Flow
  <2>2. \A i \in 1 .. Len(jobs) : Same(jobs[i], jobs'[i])
    BY <1>3
  <2>3. Chain(jobs', Reached, fed)
    BY <1>1, <2>1, <2>2, ChainSame
  <2>4. QED
    BY <2>3
<1>5. ASSUME NEW i \in 1 .. Len(jobs), ~Complete(jobs[i])
      PROVE  /\ Fresh(jobs[i]) => Fresh(jobs'[i])
             /\ \A at : Stage(at, jobs[i]) => Stage(at, jobs'[i])
  <2>1. CASE i = 1
    <3> DEFINE f == jobs[i]
               k == jobs'[i]
    <3>1. Same(f, k) /\ k.consumed = f.consumed /\ k.error = f.error /\ k.out = f.out /\ k.frameChecksumNeeded = f.frameChecksumNeeded
      BY <1>5, <2>1
    <3> HIDE DEF f, k
    <3>2. Whole(k) = Whole(f) /\ SoFar(k) = SoFar(f)
      BY <3>1, SameParts
    <3>3. (Fresh(f) => Fresh(k)) /\ \A at : Stage(at, f) => Stage(at, k)
      BY ONLY <3>1, <3>2 DEF Fresh, Stage
    <3>4. QED
      BY <3>3 DEF f, k
  <2>2. CASE i \in 2 .. Len(jobs)
    <3>1. jobs'[i] = jobs[i]
      BY <2>2
    <3>2. QED
      BY <3>1
  <2>3. QED
    BY <1>2, <2>1, <2>2
<1>6. Staged'
  <2>1. Staged
    BY DEF Flow
  <2>2. Active' = Active /\ \A x : (At(x))' = At(x)
    BY DEF Active, At
  <2>3. ASSUME NEW w \in Active PROVE Stage(worker[w].at, jobs'[At(worker[w].jobID)])
    <3>1. At(worker[w].jobID) \in 1 .. Len(jobs) /\ ~Complete(jobs[At(worker[w].jobID)])
      BY HandsApart
    <3>2. Stage(worker[w].at, jobs[At(worker[w].jobID)])
      BY <2>1 DEF Staged
    <3>3. QED
      BY <1>5, <3>1, <3>2
  <2>4. ASSUME queue # None PROVE Fresh(jobs'[At(queue.jobID)])
    <3>1. At(queue.jobID) \in 1 .. Len(jobs) /\ ~Complete(jobs[At(queue.jobID)])
      BY <2>4 DEF OwnersInv, Owners, InHand
    <3>2. Fresh(jobs[At(queue.jobID)])
      BY <2>1, <2>4 DEF Staged
    <3>3. QED
      BY <1>5, <3>1, <3>2
  <2>5. ASSUME mt.jobReady PROVE Fresh(jobs'[At(mt.nextJobID)])
    <3>1. At(mt.nextJobID) = Len(jobs) /\ Len(jobs) \in 1 .. Len(jobs)
      BY <1>1, <2>5
    <3>2. ~Complete(jobs[Len(jobs)])
      BY <2>5 DEF OwnersInv, Begun
    <3>3. Fresh(jobs[At(mt.nextJobID)])
      BY <2>1, <2>5 DEF Staged
    <3>4. QED
      BY <1>5, <3>1, <3>2, <3>3
  <2>6. QED
    BY <2>2, <2>3, <2>4, <2>5 DEF Staged, At
<1>7. Hashing'
  <2> SUFFICES ASSUME Sound' PROVE Turns' /\ Hashed'
    BY DEF Hashing
  <2>1. Sound
    BY <1>3 DEF Sound
  <2>2. Turns /\ Hashed
    BY <2>1 DEF Flow, Hashing
  <2>3. Turns'
    BY <2>2 DEF Turns, Active
  <2>4. Hashed'
    <3> DEFINE q == At(serial.nextJobID)
    <3>1. (At(serial.nextJobID))' = q
      BY DEF At
    <3>2. q \in Nat \ {0}
      <4>1. mt.doneJobID <= serial.nextJobID /\ mt.doneJobID \in Nat
        BY <2>2, RunningIs DEF Hashed
      <4>2. serial.nextJobID - mt.doneJobID + 1 \in Nat \ {0}
        BY ONLY <4>1, serial.nextJobID \in Nat
      <4>3. QED
        BY <4>2 DEF At
    <3>3. \A i \in Nat \ {0} : Start(jobs', Reached, i) = Start(jobs, Reached, i)
      <4>1. \A i \in 1 .. Len(jobs) : Same(jobs[i], jobs'[i])
        BY <1>3
      <4>2. QED
        BY <1>1, <4>1, StartSame
    <3>4. serial.hashed = UpTo(Start(jobs, Reached, q) - 1)
      BY <2>2 DEF Hashed, UpTo
    <3> HIDE DEF q
    <3>5. serial'.hashed = UpTo(Start(jobs', Reached', q) - 1)
      BY <3>2, <3>3, <3>4
    <3>6. \A i \in 1 .. Len(jobs') : jobs'[i].jobID >= serial'.nextJobID => jobs'[i].consumed = 0
      BY <1>3, <2>2 DEF Hashed, Same
    <3>7. mt'.doneJobID <= serial'.nextJobID /\ serial'.nextJobID <= mt'.doneJobID + Len(jobs')
      BY <2>2 DEF Hashed
    <3>8. QED
      BY <3>1, <3>5, <3>6, <3>7 DEF Hashed, UpTo
  <2>5. QED
    BY <2>3, <2>4
<1>8. Reached' \in Nat /\ Reached' <= fed' /\ \A i \in 1 .. Len(jobs') : TextOf(jobs'[i], fed')
  BY <1>3 DEF Flow
<1>9. QED
  BY <1>4, <1>6, <1>7, <1>8 DEF Flow

LEMMA FlushKeptFrame ==
  ASSUME InputInv, OwnersInv, FrameInv, Flush, NEW out, NEW n, NEW j, Flushes(out, n, j), Say(mt, [jobs EXCEPT ![1] = j])
  PROVE  FrameInv'
<1>1. /\ Streaming /\ main.at = "flush" /\ FirstPosted /\ Len(jobs) \in Nat /\ Len(jobs) > 0 /\ IsJob(jobs[1])
      /\ UNCHANGED <<serial, queue, worker, inBuff, fed, frames>>
      /\ Same(jobs[1], j) /\ j.consumed = jobs[1].consumed /\ ~jobs[1].error /\ j.error = jobs[1].error /\ j.out = out
      /\ ~Complete(jobs[1]) => j.out = jobs[1].out /\ j.frameChecksumNeeded = jobs[1].frameChecksumNeeded
      /\ TextOf(j, fed)
      /\ Reads(output', 0, fed) /\ Len(output') <= fed + 3 /\ Len(output') = Base(j) + j.dstFlushed
  BY FlushPart
<1>2. /\ Running /\ Flow /\ serial.nextJobID \in Nat /\ IsMt(mt)
      /\ \A i \in 1 .. Len(jobs) : i = Len(jobs) => (jobs[i].lastJob <=> mt.frameEnded)
      /\ \A i \in 2 .. Len(jobs) : jobs[i].dstFlushed = 0
  BY <1>1, StreamingIs, RunningIs DEF FrameInv, OutputInv
<1> DEFINE js == [jobs EXCEPT ![1] = j]
<1>3. Len(js) = Len(jobs) /\ js[1] = j /\ \A i \in 2 .. Len(jobs) : js[i] = jobs[i]
  <2>1. js = [i \in DOMAIN jobs |-> js[i]] /\ \A i \in DOMAIN jobs : js[i] = IF i = 1 THEN j ELSE jobs[i]
    OBVIOUS
  <2>2. IsSequence(jobs)
    BY <1>2, RunningIs
  <2> HIDE DEF js
  <2>3. Len(js) = Len(jobs) /\ DOMAIN jobs = 1 .. Len(jobs)
    BY ONLY <2>1, <2>2, SequenceSet
  <2>4. 1 \in 1 .. Len(jobs) /\ \A i \in 2 .. Len(jobs) : i \in 1 .. Len(jobs) /\ i # 1
    BY ONLY <1>1
  <2>5. QED
    BY ONLY <2>1, <2>3, <2>4
<1>4. Say(mt, js)
  OBVIOUS
<1> HIDE DEF js
<1>5. js # <<>>
  BY <1>1, <1>3, EmptySequence
<1>6. \A i \in 1 .. Len(js) : i = Len(js) => (js[i].lastJob <=> mt.frameEnded)
  <2>1. \A i \in 1 .. Len(jobs) : i = 1 \/ i \in 2 .. Len(jobs)
    BY ONLY <1>1
  <2>2. j.lastJob = jobs[1].lastJob
    BY <1>1 DEF Same
  <2>3. QED
    BY <1>2, <1>3, <2>1, <2>2
<1>7. ASSUME mt'.doneJobID = mt.doneJobID, mt'.nextJobID = mt.nextJobID, mt'.jobReady = mt.jobReady,
             jobs' = js, Reached' = Reached
      PROVE  Flow'
  <2>1. Len(jobs') = Len(jobs) /\ jobs'[1] = j /\ \A i \in 2 .. Len(jobs) : jobs'[i] = jobs[i]
    BY <1>3, <1>7
  <2>2. QED
    BY <1>1, <1>2, <1>7, <2>1, FlushKeptFlow
<1>8. \A i \in 2 .. Len(js) : js[i].dstFlushed = 0
  BY <1>2, <1>3
<1>9. Len(output') = Base(js[1]) + js[1].dstFlushed
  BY <1>1, <1>3
<1>10. QED
  BY <1>1, <1>2, <1>4, <1>5, <1>6, <1>7, <1>8, <1>9, SayFrame

(* The first job, which is not the last of the frame, is freed. *)
LEMMA FlushPoppedFlow ==
  ASSUME InputInv, OwnersInv, Running, Streaming, Flow, serial.nextJobID \in Nat, Len(jobs) > 0,
         Complete(jobs[1]), ~jobs[1].error, ~jobs[1].lastJob,
         Len(jobs') = Len(jobs) - 1, \A i \in 1 .. Len(jobs) - 1 : jobs'[i] = jobs[i + 1],
         UNCHANGED <<serial, queue, worker, fed>>, Reached' = Reached,
         mt'.doneJobID = mt.doneJobID + 1, mt'.nextJobID = mt.nextJobID, mt'.jobReady = mt.jobReady
  PROVE  Flow'
<1> DEFINE l == Len(jobs)
<1>1. /\ l \in Nat /\ (mt.jobReady => At(mt.nextJobID) = l) /\ mt.doneJobID \in Nat /\ mt.nextJobID \in Nat
      /\ \A i \in 1 .. l : IsJob(jobs[i]) /\ jobs[i].jobID = mt.doneJobID + i - 1 /\ jobs[i].jobID \in Nat
  BY RunningIs
<1>2. Len(jobs') = l - 1 /\ (\A i \in 1 .. l - 1 : jobs'[i] = jobs[i + 1]) /\ l > 0
  OBVIOUS
<1>3. /\ Chain(jobs, Reached, fed) /\ Reached \in Nat /\ Reached <= fed /\ Staged /\ Hashing
      /\ \A i \in 1 .. l : TextOf(jobs[i], fed)
  BY DEF Flow
<1> HIDE DEF l
<1>4. \A i \in 1 .. l - 1 : i + 1 \in 1 .. l /\ i + 1 + 1 = i + 2
  BY ONLY <1>1
<1>5. \A i \in Nat \ {0} : Start(jobs', Reached, i) = Start(jobs, Reached, i + 1)
  <2> SUFFICES ASSUME NEW i \in Nat \ {0} PROVE Start(jobs', Reached, i) = Start(jobs, Reached, i + 1)
    OBVIOUS
  <2>1. i <= l - 1 <=> i + 1 <= l
    BY ONLY <1>1, i \in Nat \ {0}
  <2>2. i <= l - 1 => i \in 1 .. l - 1
    BY ONLY <1>1, i \in Nat \ {0}
  <2>3. Start(jobs', Reached, i) = IF i <= l - 1 THEN jobs'[i].from ELSE Reached + 1
    BY <1>2 DEF Start
  <2>4. Start(jobs, Reached, i + 1) = IF i + 1 <= l THEN jobs[i + 1].from ELSE Reached + 1
    BY DEF Start, l
  <2>5. QED
    BY ONLY <1>2, <2>1, <2>2, <2>3, <2>4
<1>6. Chain(jobs', Reached, fed)
  <2> SUFFICES ASSUME NEW i \in 1 .. l - 1
               PROVE  /\ 1 <= jobs'[i].from
                      /\ jobs'[i].from + jobs'[i].src.size = Start(jobs', Reached, i + 1)
                      /\ jobs'[i].from + jobs'[i].src.size <= Reached + 1
                      /\ jobs'[i].jobID = 0 => jobs'[i].from = 1
                      /\ jobs'[i].lastJob => i = Len(jobs') /\ jobs'[i].from + jobs'[i].src.size = fed + 1
                      /\ jobs'[i].src.size > 0 \/ jobs'[i].lastJob
    BY <1>2 DEF Chain
  <2>1. i + 1 \in 1 .. l /\ i + 1 \in Nat \ {0} /\ (i + 1 = l => i = l - 1)
    BY ONLY <1>1, i \in 1 .. l - 1
  <2>2. jobs'[i] = jobs[i + 1]
    BY <1>2
  <2>3. Start(jobs', Reached, i + 1) = Start(jobs, Reached, i + 1 + 1)
    BY <1>5, <2>1
  <2>4. /\ 1 <= jobs[i + 1].from
        /\ jobs[i + 1].from + jobs[i + 1].src.size = Start(jobs, Reached, i + 1 + 1)
        /\ jobs[i + 1].from + jobs[i + 1].src.size <= Reached + 1
        /\ jobs[i + 1].jobID = 0 => jobs[i + 1].from = 1
        /\ jobs[i + 1].lastJob => i + 1 = l /\ jobs[i + 1].from + jobs[i + 1].src.size = fed + 1
        /\ jobs[i + 1].src.size > 0 \/ jobs[i + 1].lastJob
    BY <1>3, <2>1 DEF Chain, l
  <2>5. QED
    BY ONLY <1>2, <2>1, <2>2, <2>3, <2>4
<1>7. \A i \in 1 .. l - 1 : TextOf(jobs'[i], fed)
  BY <1>2, <1>3, <1>4
<1>8. ASSUME NEW x \in Int, At(x) \in 1 .. l, ~Complete(jobs[At(x)])
      PROVE  jobs'[x - mt'.doneJobID + 1] = jobs[At(x)]
  <2>1. PICK i : i = x - mt'.doneJobID + 1
    OBVIOUS
  <2>2. PICK d \in Nat : d = mt.doneJobID
    BY ONLY <1>1
  <2>3. PICK p \in 1 .. l : p = At(x)
    BY <1>8
  <2>4. p # 1
    BY <1>8, <2>3
  <2>5. p = x - d + 1
    BY <2>2, <2>3 DEF At
  <2>6. mt'.doneJobID = d + 1
    BY ONLY <2>2, mt'.doneJobID = mt.doneJobID + 1
  <2>7. i = x - (d + 1) + 1
    BY ONLY <2>1, <2>6
  <2>8. i \in 1 .. l - 1 /\ i + 1 = p
    BY ONLY <1>1, <2>4, <2>5, <2>7, p \in 1 .. l, d \in Nat, x \in Int
  <2>9. QED
    BY ONLY <1>2, <2>1, <2>3, <2>8
<1>9. Staged'
  <2>1. Active' = Active
    BY DEF Active
  <2>2. ASSUME NEW w \in Active PROVE Stage(worker[w].at, jobs'[worker[w].jobID - mt'.doneJobID + 1])
    <3>1. At(worker[w].jobID) \in 1 .. l /\ ~Complete(jobs[At(worker[w].jobID)]) /\ worker[w].jobID \in Int
      BY HandsApart DEF l
    <3>2. Stage(worker[w].at, jobs[At(worker[w].jobID)])
      BY <1>3 DEF Staged
    <3>3. QED
      BY <1>8, <3>1, <3>2
  <2>3. ASSUME queue # None PROVE Fresh(jobs'[queue.jobID - mt'.doneJobID + 1])
    <3>1. At(queue.jobID) \in 1 .. l /\ ~Complete(jobs[At(queue.jobID)]) /\ queue.jobID \in Int
      BY <2>3 DEF OwnersInv, Owners, InHand, l
    <3>2. Fresh(jobs[At(queue.jobID)])
      BY <1>3, <2>3 DEF Staged
    <3>3. QED
      BY <1>8, <3>1, <3>2
  <2>4. ASSUME mt.jobReady PROVE Fresh(jobs'[mt.nextJobID - mt'.doneJobID + 1])
    <3>1. At(mt.nextJobID) = l /\ l \in 1 .. l /\ mt.nextJobID \in Int
      BY <1>1, <1>2, <2>4
    <3>2. ~Complete(jobs[l])
      BY <2>4 DEF OwnersInv, Begun, l
    <3>3. Fresh(jobs[At(mt.nextJobID)])
      BY <1>3, <2>4 DEF Staged
    <3>4. QED
      BY <1>8, <3>1, <3>2, <3>3
  <2>5. QED
    BY <2>1, <2>2, <2>3, <2>4 DEF Staged, At
<1>10. Hashing'
  <2> SUFFICES ASSUME Sound' PROVE Turns' /\ Hashed'
    BY DEF Hashing
  <2>1. Sound
    <3>1. \A i \in 1 .. l - 1 : ~jobs'[i].error
      BY <1>2 DEF Sound
    <3>2. \A i \in 1 .. l : i = 1 \/ (i - 1 \in 1 .. l - 1 /\ i - 1 + 1 = i)
      BY ONLY <1>1
    <3>3. \A i \in 1 .. l : ~jobs[i].error
      BY <1>2, <3>1, <3>2
    <3>4. QED
      BY <3>3 DEF Sound, l
  <2>2. Turns /\ Hashed
    BY <1>3, <2>1 DEF Hashing
  <2>3. Turns'
    BY <2>2 DEF Turns, Active
  <2>4. /\ mt.doneJobID <= serial.nextJobID /\ serial.nextJobID <= mt.doneJobID + l
        /\ \A i \in 1 .. l : jobs[i].jobID >= serial.nextJobID => jobs[i].consumed = 0
    BY <2>2 DEF Hashed, l
  <2>5. mt.doneJobID + 1 <= serial.nextJobID
    <3>1. 1 \in 1 .. l
      BY ONLY <1>1, <1>2
    <3>2. jobs[1].jobID = mt.doneJobID + 1 - 1 /\ jobs[1].src.size \in Int /\ jobs[1].consumed \in Int
      BY <1>1, <3>1, JobParts
    <3>3. jobs[1].src.size > 0
      BY <1>3, <3>1 DEF Chain, l
    <3>4. jobs[1].consumed # 0
      <4>1. jobs[1].consumed >= jobs[1].src.size
        BY DEF Complete
      <4>2. QED
        BY ONLY <3>2, <3>3, <4>1
    <3>5. ~(jobs[1].jobID >= serial.nextJobID)
      BY <2>4, <3>1, <3>4
    <3>6. QED
      BY ONLY <1>1, <3>2, <3>5, serial.nextJobID \in Nat
  <2> DEFINE q == At(serial.nextJobID)
  <2>6. q - 1 \in Nat \ {0} /\ q - 1 + 1 = q
    <3>1. q = serial.nextJobID - mt.doneJobID + 1
      BY DEF At
    <3> HIDE DEF q
    <3>2. QED
      BY ONLY <1>1, <2>5, <3>1, serial.nextJobID \in Nat
  <2>7. (At(serial.nextJobID))' = q - 1
    <3>1. PICK d \in Nat : d = mt.doneJobID
      BY ONLY <1>1
    <3>2. PICK s \in Nat : s = serial.nextJobID
      OBVIOUS
    <3>3. q = s - d + 1
      BY <3>1, <3>2 DEF At
    <3>4. s - (d + 1) + 1 = q - 1
      BY ONLY <3>3, d \in Nat, s \in Nat
    <3>5. serial'.nextJobID = s /\ mt'.doneJobID = d + 1
      BY <3>1, <3>2
    <3>6. (At(serial.nextJobID))' = s - (d + 1) + 1
      BY <3>5 DEF At
    <3>7. QED
      BY ONLY <3>4, <3>6
  <2>8. serial.hashed = UpTo(Start(jobs, Reached, q) - 1)
    BY <2>2 DEF Hashed, UpTo
  <2> HIDE DEF q
  <2>9. serial'.hashed = UpTo(Start(jobs', Reached', q - 1) - 1)
    <3>1. Start(jobs', Reached, q - 1) = Start(jobs, Reached, q)
      BY <1>5, <2>6
    <3>2. QED
      BY <2>8, <3>1
  <2>10. mt'.doneJobID <= serial'.nextJobID /\ serial'.nextJobID <= mt'.doneJobID + Len(jobs')
    <3>1. PICK d \in Nat : d = mt.doneJobID
      BY ONLY <1>1
    <3>2. PICK s \in Nat : s = serial.nextJobID
      OBVIOUS
    <3>3. d + 1 <= s /\ s <= d + l
      BY ONLY <2>4, <2>5, <3>1, <3>2
    <3>4. s <= d + 1 + (l - 1)
      BY ONLY <1>1, <3>3, d \in Nat, s \in Nat
    <3>5. mt'.doneJobID = d + 1 /\ serial'.nextJobID = s /\ Len(jobs') = l - 1
      BY <1>2, <3>1, <3>2
    <3>6. QED
      BY ONLY <3>3, <3>4, <3>5
  <2>11. \A i \in 1 .. Len(jobs') : jobs'[i].jobID >= serial'.nextJobID => jobs'[i].consumed = 0
    BY <1>2, <1>4, <2>4
  <2>12. Hashed'
    BY <2>7, <2>9, <2>10, <2>11 DEF Hashed, UpTo
  <2>13. QED
    BY <2>3, <2>12
<1>11. Reached' \in Nat /\ Reached' <= fed' /\ Chain(jobs', Reached', fed') /\ \A i \in 1 .. Len(jobs') : TextOf(jobs'[i], fed')
  BY <1>2, <1>3, <1>6, <1>7
<1>12. QED
  BY <1>9, <1>10, <1>11 DEF Flow

(* The first job is flushed to its end, and freed. *)
LEMMA FlushPoppedFrame ==
  ASSUME InputInv, OwnersInv, FrameInv, Flush, NEW out, NEW n, NEW j, Flushes(out, n, j),
         out # <<>>, Complete(j), j.dstFlushed = Len(out), NEW m, Say(m, Tail(jobs)),
         IsMt(m), m.doneJobID = mt.doneJobID + 1, m.nextJobID = mt.nextJobID, m.jobReady = mt.jobReady,
         m.frameEnded = mt.frameEnded
  PROVE  FrameInv'
<1>1. /\ Streaming /\ main.at = "flush" /\ FirstPosted /\ Len(jobs) \in Nat /\ Len(jobs) > 0 /\ IsJob(jobs[1])
      /\ UNCHANGED <<serial, queue, worker, inBuff, fed, frames>>
      /\ Same(jobs[1], j) /\ j.consumed = jobs[1].consumed /\ ~jobs[1].error /\ j.error = jobs[1].error /\ j.out = out
      /\ (Complete(jobs[1]) => ~j.frameChecksumNeeded)
      /\ ~j.user /\ TextOf(j, fed)
      /\ Reads(output', 0, fed) /\ Len(output') <= fed + 3 /\ Len(output') = Base(j) + j.dstFlushed
  BY FlushPart
<1>2. /\ Running /\ Flow /\ serial.nextJobID \in Nat /\ Written
      /\ \A i \in 1 .. Len(jobs) : i = Len(jobs) => (jobs[i].lastJob <=> mt.frameEnded)
      /\ \A i \in 2 .. Len(jobs) : jobs[i].dstFlushed = 0
  BY <1>1, StreamingIs DEF FrameInv, OutputInv
<1>3. /\ IsMt(mt) /\ fed \in Nat /\ mt.doneJobID \in Nat /\ mt.nextJobID \in Nat /\ IsSequence(jobs)
      /\ \A i \in 1 .. Len(jobs) : IsJob(jobs[i]) /\ jobs[i].jobID = mt.doneJobID + i - 1 /\ jobs[i].jobID \in Nat
  BY <1>2, RunningIs
<1>4. /\ IsMt(m) /\ m.doneJobID = mt.doneJobID + 1 /\ m.nextJobID = mt.nextJobID /\ m.jobReady = mt.jobReady
      /\ m.frameEnded = mt.frameEnded
  OBVIOUS
<1> DEFINE l == Len(jobs)
           js == Tail(jobs)
<1>5. Len(js) = l - 1 /\ \A i \in 1 .. l - 1 : js[i] = jobs[i + 1]
  BY <1>1, <1>3, SequenceTail
<1>6. l \in Nat /\ l > 0 /\ Say(m, js)
  BY <1>1
<1>7. js = <<>> <=> l = 1
  <2>1. IsSequence(js)
    BY <1>1, <1>3, SequenceTail
  <2>2. js = <<>> <=> Len(js) = 0
    BY <2>1, EmptySequence
  <2>3. QED
    BY ONLY <1>5, <1>6, <2>2
<1>8. /\ Reached \in Nat /\ Chain(jobs, Reached, fed)
  BY <1>2 DEF Flow
<1> DEFINE f == jobs[1]
<1>9. /\ 1 <= f.from /\ f.from + f.src.size = Start(jobs, Reached, 1 + 1)
      /\ (f.jobID = 0 => f.from = 1)
      /\ (f.lastJob => l = 1 /\ f.from + f.src.size = fed + 1)
  <2>1. 1 \in 1 .. Len(jobs)
    BY <1>1
  <2>2. QED
    BY <1>8, <2>1 DEF Chain
<1>10. Complete(f)
  BY <1>1 DEF Complete, Same
<1>11. IsJob(j)
  <2>1. PICK y, z, x : j = [f EXCEPT !.out = x, !.dstFlushed = y, !.frameChecksumNeeded = z]
    <3>1. f = First
      BY DEF First
    <3>2. QED
      BY Zenon, <3>1 DEF Flushes
  <2>2. IsJob(f)
    BY <1>1
  <2> HIDE DEF f
  <2>3. QED
    BY ONLY <2>1, <2>2 DEF IsJob, Has, JobFields
<1>12. /\ j.from \in Int /\ j.src.size \in Int /\ HeadLen(j) \in {0, 1} /\ EndLen(j) \in {0, 1, 2}
       /\ Base(j) = j.from - HeadLen(j) /\ Whole(j) = HeadLen(j) + j.src.size + EndLen(j)
  BY <1>11, JobParts
<1>13. Len(output') = j.from + j.src.size + EndLen(j)
  <2>1. Len(j.out) = Whole(j) /\ j.dstFlushed = Whole(j)
    BY <1>1 DEF TextOf
  <2>2. PICK h \in Int, e \in Int : h = HeadLen(j) /\ e = EndLen(j)
    BY ONLY <1>12
  <2>3. Base(j) + Whole(j) = j.from + j.src.size + e
    BY ONLY <1>12, <2>2, h \in Int, e \in Int
  <2>4. QED
    BY ONLY <1>1, <2>1, <2>2, <2>3
<1>14. EndLen(j) = IF f.lastJob THEN 2 ELSE 0
  <2>1. j.lastJob = f.lastJob
    BY <1>1 DEF Same
  <2>2. ~j.frameChecksumNeeded /\ ~j.user
    BY <1>1, <1>10
  <2>3. QED
    BY ONLY <2>1, <2>2 DEF EndLen
<1>15. j.from = f.from /\ j.src = f.src
  BY <1>1 DEF Same
<1> HIDE DEF js, f, l
<1>16. js = <<>> => (f.lastJob <=> mt.frameEnded)
  <2>1. 1 \in 1 .. Len(jobs) /\ (js = <<>> => 1 = Len(jobs))
    BY ONLY <1>6, <1>7 DEF l
  <2>2. QED
    BY <1>2, <2>1 DEF f
<1>17. js # <<>> => ~f.lastJob
  BY ONLY <1>7, <1>9
<1>18. js = <<>> /\ mt.frameEnded => Len(output') = fed + 3
  <2> SUFFICES ASSUME js = <<>>, mt.frameEnded PROVE Len(output') = fed + 3
    OBVIOUS
  <2>1. f.lastJob
    BY <1>16
  <2>2. f.from + f.src.size = fed + 1 /\ Len(output') = f.from + f.src.size + 2
    BY ONLY <1>9, <1>13, <1>14, <1>15, <2>1
  <2>3. QED
    BY ONLY <1>3, <2>2
<1>19. js = <<>> /\ ~mt.frameEnded => Len(output') = Reached + 1 - (IF mt.nextJobID = 0 THEN 1 ELSE 0)
  <2> SUFFICES ASSUME js = <<>>, ~mt.frameEnded PROVE Len(output') = Reached + 1 - (IF mt.nextJobID = 0 THEN 1 ELSE 0)
    OBVIOUS
  <2>1. ~f.lastJob
    BY <1>16
  <2>2. Start(jobs, Reached, 1 + 1) = Reached + 1
    <3>1. ~(1 + 1 <= Len(jobs))
      <4>1. l = 1
        BY <1>7
      <4>2. QED
        BY ONLY <4>1 DEF l
    <3>2. QED
      BY ONLY <3>1 DEF Start
  <2>3. Len(output') = f.from + f.src.size + 0
    BY ONLY <1>13, <1>14, <1>15, <2>1
  <2>4. mt.nextJobID # 0
    <3>1. mt.doneJobID < mt.nextJobID
      BY <1>1 DEF FirstPosted
    <3>2. QED
      BY ONLY <1>3, <3>1
  <2>5. Len(output') = Reached + 1 + 0
    BY ONLY <1>9, <2>2, <2>3
  <2>6. QED
    BY ONLY <1>8, <2>4, <2>5
<1>20. js # <<>> => Len(output') = Base(js[1]) + js[1].dstFlushed
  <2> SUFFICES ASSUME js # <<>> PROVE Len(output') = Base(js[1]) + js[1].dstFlushed
    OBVIOUS
  <2>1. l > 1 /\ 1 \in 1 .. l - 1 /\ 2 \in 2 .. l /\ 2 \in 1 .. l
    BY ONLY <1>6, <1>7, js # <<>>
  <2>2. js[1] = jobs[2]
    BY ONLY <1>5, <2>1
  <2>3. jobs[2].dstFlushed = 0
    BY <1>2, <2>1 DEF l
  <2>4. Start(jobs, Reached, 1 + 1) = jobs[2].from
    <3>1. 1 + 1 <= Len(jobs)
      BY ONLY <1>6, <2>1 DEF l
    <3>2. QED
      BY ONLY <3>1 DEF Start
  <2>5. IsJob(jobs[2]) /\ jobs[2].jobID = mt.doneJobID + 2 - 1
    BY <1>3, <2>1 DEF l
  <2>6. jobs[2].jobID # 0
    BY ONLY <1>3, <2>5
  <2>7. HeadLen(jobs[2]) = 0
    BY ONLY <2>6 DEF HeadLen
  <2>8. Base(jobs[2]) = jobs[2].from - HeadLen(jobs[2]) /\ jobs[2].from \in Int
    BY <2>5, JobParts
  <2>9. Len(output') = f.from + f.src.size + 0
    BY ONLY <1>13, <1>14, <1>15, <1>17, js # <<>>
  <2>10. Len(output') = jobs[2].from + 0
    BY ONLY <1>9, <2>4, <2>9
  <2>11. QED
    BY ONLY <2>2, <2>3, <2>7, <2>8, <2>10
<1>21. \A i \in 1 .. Len(js) : i = Len(js) => (js[i].lastJob <=> mt.frameEnded)
  <2> SUFFICES ASSUME NEW i \in 1 .. l - 1, i = l - 1 PROVE js[i].lastJob <=> mt.frameEnded
    BY <1>5
  <2>1. i + 1 \in 1 .. l /\ i + 1 = l
    BY ONLY <1>6, i \in 1 .. l - 1, i = l - 1
  <2>2. jobs[i + 1].lastJob <=> mt.frameEnded
    BY <1>2, <2>1 DEF l
  <2>3. QED
    BY ONLY <1>5, <2>2, i \in 1 .. l - 1
<1>22. \A i \in 2 .. Len(js) : js[i].dstFlushed = 0
  <2> SUFFICES ASSUME NEW i \in 2 .. l - 1 PROVE js[i].dstFlushed = 0
    BY <1>5
  <2>1. i + 1 \in 2 .. l /\ i \in 1 .. l - 1
    BY ONLY <1>6, i \in 2 .. l - 1
  <2>2. jobs[i + 1].dstFlushed = 0
    BY <1>2, <2>1 DEF l
  <2>3. QED
    BY ONLY <1>5, <2>1, <2>2
<1>23. ASSUME js # <<>> \/ ~mt.frameEnded,
              mt'.doneJobID = m.doneJobID, mt'.nextJobID = m.nextJobID, mt'.jobReady = m.jobReady,
              jobs' = js, Reached' = Reached
       PROVE  Flow'
  <2>1. ~f.lastJob
    BY <1>16, <1>17, <1>23
  <2>2. Len(jobs') = Len(jobs) - 1 /\ \A i \in 1 .. Len(jobs) - 1 : jobs'[i] = jobs[i + 1]
    BY <1>5, <1>23 DEF l
  <2>3. ~jobs[1].lastJob /\ Complete(jobs[1])
    BY <1>10, <2>1 DEF f
  <2>4. /\ mt'.doneJobID = mt.doneJobID + 1 /\ mt'.nextJobID = mt.nextJobID /\ mt'.jobReady = mt.jobReady
        /\ UNCHANGED <<serial, queue, worker, fed>>
    BY <1>1, <1>4, <1>23
  <2>5. QED
    BY <1>1, <1>2, <1>23, <2>2, <2>3, <2>4, FlushPoppedFlow
<1>24. QED
  BY <1>1, <1>4, <1>6, <1>18, <1>19, <1>20, <1>21, <1>22, <1>23, SayFrame

LEMMA FlushFrame ==
  ASSUME InputInv, OwnersInv, FrameInv, Flush
  PROVE  FrameInv'
<1>1. PICK out, n, j : Flushes(out, n, j)
  BY FlushIs
<1>2. CASE out # <<>> /\ Complete(j) /\ j.dstFlushed = Len(out)
  <2>1. PICK m : m = [mt EXCEPT !.doneJobID = @ + 1]
    OBVIOUS
  <2>2. Say(m, Tail(jobs))
    BY <1>1, <1>2, <2>1 DEF Flushes
  <2>3. IsMt(mt)
    BY DEF InputInv, Shapes
  <2>4. /\ IsMt(m) /\ m.doneJobID = mt.doneJobID + 1 /\ m.nextJobID = mt.nextJobID /\ m.jobReady = mt.jobReady
        /\ m.frameEnded = mt.frameEnded
    BY ONLY <2>1, <2>3, MtDone
  <2>5. QED
    BY <1>1, <1>2, <2>2, <2>4, FlushPoppedFrame
<1>3. CASE ~(out # <<>> /\ Complete(j) /\ j.dstFlushed = Len(out))
  <2>1. Say(mt, [jobs EXCEPT ![1] = j])
    BY <1>1, <1>3 DEF Flushes
  <2>2. QED
    BY <1>1, <2>1, FlushKeptFrame
<1>4. QED
  BY <1>2, <1>3

(* Beginning a frame and giving one up. *)
LEMMA SetupFrame ==
  ASSUME InputInv, OwnersInv, FrameInv, (\E n \in bound.workers : InitCStream(n)) \/ WaitForJob \/ ReleaseAll \/ FlushFails
  PROVE  FrameInv'
<1>1. IsMain(main)
  BY DEF InputInv, Shapes
<1>2. UNCHANGED <<serial, fed, output, frames>>
  BY DEF InitCStream, WaitForJob, ReleaseAll, FlushFails, shared
<1>3. /\ main'.at \in {"reset", "restart", "drain"} \/ (main'.at = "out" /\ main'.said = "error")
  <2>1. CASE \E n \in bound.workers : InitCStream(n)
    <3>1. \E v \in {"reset", "restart"} : main' = [main EXCEPT !.at = v]
      BY <2>1 DEF InitCStream
    <3>2. QED
      BY <1>1, <3>1 DEF IsMain, Has, MainFields
  <2>2. CASE WaitForJob
    BY <2>2 DEF WaitForJob, Draining
  <2>3. CASE ReleaseAll
    <3>1. main' = [main EXCEPT !.at = "reset"] \/ main' = [main EXCEPT !.at = "out", !.said = "error"]
      BY <2>3 DEF ReleaseAll
    <3>2. QED
      BY <1>1, <3>1 DEF IsMain, Has, MainFields
  <2>4. CASE FlushFails
    <3>1. main' = [main EXCEPT !.at = "drain"]
      BY <2>4 DEF FlushFails
    <3>2. QED
      BY <1>1, <3>1 DEF IsMain, Has, MainFields
  <2>5. QED
    BY <2>1, <2>2, <2>3, <2>4
<1>4. ~Running' /\ ~Streaming' /\ ~AtOnce' /\ ~(main'.said = "done" /\ main'.at = "out")
  BY <1>3 DEF Running, Streaming, AtOnce, InFrame
<1>5. QED
  BY <1>2, <1>4, StoppedFrame

(* Every step keeps the parts of the frame in order. *)
LEMMA StepFrame ==
  ASSUME InputInv, OwnersInv, FrameInv, Orderly, [Next]_vars
  PROVE  FrameInv'
<1>1. ASSUME NEW w \in Workers, Step(w) \/ Fails(w) PROVE FrameInv'
  BY <1>1, WorkerFrame
<1>2. CASE Inside
  <2>1. CASE FlushWait \/ CollectWait
    BY <2>1, RestFrame DEF FlushWait, CollectWait
  <2>2. CASE FlushFails \/ WaitForJob \/ ReleaseAll
    BY <2>2, SetupFrame
  <2>3. QED
    BY <1>2, <2>1, <2>2, ResetFrame, FlushFrame, FlushNothingFrame, PostNextFrame, CollectFrame DEF Inside
<1>3. CASE Call
  <2>1. CASE \E n \in bound.workers : InitCStream(n)
    BY <2>1, SetupFrame
  <2>2. CASE \E n \in bound.offers \cup {main.left}, room \in bound.rooms : CompressAdvanced(n, room)
    BY <2>2, AdvancedFrame
  <2>3. CASE \E n \in bound.offers \cup {main.left}, room \in bound.rooms, op \in bound.orders : CompressStream(op, n, room)
    BY <2>3, CallsFrame
  <2>4. CASE \E op \in bound.orders, room \in bound.rooms : FlushStream(op, room)
    BY <2>4, CallsFrame
  <2>5. QED
    BY <1>3, <2>1, <2>2, <2>3, <2>4 DEF Call
<1>4. CASE SpuriousWakeup \/ UNCHANGED vars
  BY <1>4, RestFrame DEF SpuriousWakeup, vars, shared, buffers
<1>5. QED
  BY <1>1, <1>2, <1>3, <1>4 DEF Next

LEMMA FrameAtFirst ==
  ASSUME Init
  PROVE  FrameInv
<1>1. PICK b : main = Out(b)
  BY DEF Init
<1>2. main.at = "out" /\ main.said = "done"
  BY <1>1 DEF Out
<1>3. ~Running /\ ~Streaming /\ ~AtOnce
  BY <1>2 DEF Running, Streaming, AtOnce, InFrame
<1>4. frames = 0 /\ fed = 0 /\ output = <<>> /\ serial = [nextJobID |-> 0, hashed |-> <<>>]
  BY DEF Init
<1>5. serial.nextJobID \in Nat /\ Has(serial, {"nextJobID", "hashed"})
  BY <1>4 DEF Has
<1>6. Reads(output, 0, fed) /\ Len(output) = 0
  BY <1>4, ReadsEmpty
<1>7. Len(output) <= fed + 3
  BY ONLY <1>4, <1>6
<1>8. OutputInv
  BY <1>4, <1>5, <1>6, <1>7 DEF OutputInv
<1>9. QED
  BY <1>3, <1>8 DEF FrameInv, FlowInv, StreamFlow, PostFlow

(* The output is one frame of what has been fed, in order and with the     *)
(* checksum of all of it, whichever worker was first and however the       *)
(* caller cut and flushed; and "done" is said of a whole frame only.       *)
THEOREM FrameIsRight == Orderly => (Spec => []FrameIsWhatWasFed)
<1> SUFFICES ASSUME Orderly PROVE Spec => []FrameIsWhatWasFed
  OBVIOUS
<1>1. Spec => [](InputInv /\ OwnersInv)
  BY AlwaysOwned
<1>2. Init => FrameInv
  BY FrameAtFirst
<1>3. InputInv /\ OwnersInv /\ FrameInv /\ [Next]_vars => FrameInv'
  BY StepFrame
<1>4. ASSUME InputInv, FrameInv PROVE FrameIsWhatWasFed
  <2>1. fed \in Nat
    BY <1>4 DEF InputInv, Shapes
  <2>2. Reads(output, 0, fed) /\ Len(output) <= fed + 3
    BY <1>4 DEF FrameInv, OutputInv
  <2>3. IsPrefix(output, Frame(fed)) /\ (Len(output) = fed + 3 => output = Frame(fed))
    BY ONLY <2>1, <2>2, ReadsFrame
  <2>4. main.said = "done" /\ main.at = "out" /\ frames > 0 => Len(output) = fed + 3
    BY <1>4 DEF FrameInv, OutputInv
  <2>5. QED
    BY <2>3, <2>4 DEF FrameIsWhatWasFed
<1>5. QED
  BY <1>1, <1>2, <1>3, <1>4, PTL DEF Spec
=============================================================================
