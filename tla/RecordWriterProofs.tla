------------------------- MODULE RecordWriterProofs -------------------------
(***************************************************************************)
(* Theorems about RecordWriter, for every number of events, for plain and  *)
(* for compressed records, with every write allowed to fail and the        *)
(* process killed between any two calls.                                   *)
(*                                                                         *)
(* The layers below JsonlWriter return sets of outcomes.  The lemmas of    *)
(* the first half say what every outcome of each layer is like; the        *)
(* invariant of the second half only uses these.                           *)
(***************************************************************************)
EXTENDS RecordWriter, TLAPS, SequenceTheorems, FiniteSetTheorems

-----------------------------------------------------------------------------
(* What the layers preserve.                                               *)

Envelope == [seq : Nat, kind : Kinds]

(* A file that holds only these events, and ends of torn members.          *)
Files(events) ==
  [buffer : Seq(events), frame : Seq(events), disk : Seq(events \union {Torn})]

(* The order of what is to be read, whatever was torn in between.          *)
Before(a, b) == a # Torn /\ b # Torn => a.seq < b.seq
Rising(s) == \A k \in DOMAIN s : \A j \in 1 .. (k - 1) : Before(s[j], s[k])
AllBefore(s, t) == \A j \in DOMAIN s : \A k \in DOMAIN t : Before(s[j], t[k])
InOrder(file) ==
  /\ Rising(file.disk) /\ Rising(file.frame) /\ Rising(file.buffer)
  /\ AllBefore(file.disk, file.frame)
  /\ AllBefore(file.disk, file.buffer)
  /\ AllBefore(file.frame, file.buffer)

(* A plain record has no accumulator.                                      *)
Sound(file, events) ==
  /\ file \in Files(events)
  /\ InOrder(file)
  /\ ~compress => file.frame = << >>

Untorn(s) == \A k \in DOMAIN s : s[k] # Torn
Extends(s, t) == Len(s) <= Len(t) /\ \A k \in 1 .. Len(s) : t[k] = s[k]
Content(file) == file.disk \o file.frame \o file.buffer

(* Nothing but the disk holds anything.                                    *)
Settled(file) == file.buffer = << >> /\ file.frame = << >>

(* What a layer makes of a file: it never rewrites the disk nor reorders,  *)
(* and if it reports success it neither tears nor loses.                   *)
Outcome(file, events, r) ==
  /\ r.ok \in BOOLEAN
  /\ Sound(r.file, events)
  /\ Extends(file.disk, r.file.disk)
  /\ r.ok => /\ Content(r.file) = Content(file)
             /\ Untorn(file.disk) => Untorn(r.file.disk)

-----------------------------------------------------------------------------
(* Sequences.                                                              *)

(* A non-empty set of natural numbers has a least one.                     *)
LEMMA LeastNatural ==
  ASSUME NEW S \in SUBSET Nat, S # {}
  PROVE  Min(S) \in S /\ \A y \in S : Min(S) <= y
  <1> DEFINE T == {0 .. x : x \in S}
  <1>1. T \subseteq FiniteSubsetsOf(Nat)
    <2>1. SUFFICES ASSUME NEW x \in S PROVE 0 .. x \in FiniteSubsetsOf(Nat)
      OBVIOUS
    <2>2. 0 .. x \subseteq Nat /\ x \in Int /\ 0 \in Int
      OBVIOUS
    <2>3. IsFiniteSet(0 .. x)
      BY <2>2, FS_Interval, Zenon
    <2> QED BY <2>2, <2>3, Zenon DEF FiniteSubsetsOf
  <1>2. T # {}
    OBVIOUS
  <1>3. PICK t \in T : \A u \in T : ~ (<<u, t>> \in StrictSubsetOrdering(Nat))
    <2> HIDE DEF T
    <2> QED BY <1>1, <1>2, FS_StrictSubsetOrderingWellFounded, WFMin, Zenon
  <1>4. PICK x \in S : t = 0 .. x
    BY Zenon
  <1>5. ASSUME NEW y \in S, y < x PROVE FALSE
    <2>1. 0 .. y \in T /\ 0 .. y \in SUBSET Nat /\ 0 .. x \in SUBSET Nat
      OBVIOUS
    <2>2. 0 .. y \subseteq 0 .. x
      BY <1>5
    <2>3. 0 .. y # 0 .. x
      <3>1. x \in 0 .. x /\ x \notin 0 .. y
        BY <1>5
      <3> QED BY <3>1
    <2>4. <<0 .. y, 0 .. x>> \in StrictSubsetOrdering(Nat)
      BY <2>1, <2>2, <2>3, Zenon DEF StrictSubsetOrdering
    <2> QED BY <2>1, <2>4, <1>3, <1>4
  <1>6. \E z \in S : \A y \in S : z =< y
    BY <1>5
  <1> QED BY <1>6, Zenon DEF Min

LEMMA ConcatParts ==
  ASSUME NEW E, NEW s \in Seq(E), NEW t \in Seq(E)
  PROVE  /\ s \o t \in Seq(E)
         /\ Len(s \o t) = Len(s) + Len(t)
         /\ \A k \in DOMAIN (s \o t) :
              \/ k \in DOMAIN s /\ (s \o t)[k] = s[k]
              \/ k > Len(s) /\ k - Len(s) \in DOMAIN t /\ (s \o t)[k] = t[k - Len(s)]
         /\ Extends(s, s \o t)
  BY DEF Extends

LEMMA SuffixParts ==
  ASSUME NEW E, NEW s \in Seq(E), NEW n \in 0 .. Len(s)
  PROVE  /\ SubSeq(s, n + 1, Len(s)) \in Seq(E)
         /\ Len(SubSeq(s, n + 1, Len(s))) = Len(s) - n
         /\ \A k \in DOMAIN SubSeq(s, n + 1, Len(s)) :
              n + k \in DOMAIN s /\ SubSeq(s, n + 1, Len(s))[k] = s[n + k]
  OBVIOUS

LEMMA PrefixParts ==
  ASSUME NEW E, NEW s \in Seq(E), NEW n \in 0 .. Len(s)
  PROVE  /\ SubSeq(s, 1, n) \in Seq(E)
         /\ Len(SubSeq(s, 1, n)) = n
         /\ \A k \in DOMAIN SubSeq(s, 1, n) : k \in DOMAIN s /\ SubSeq(s, 1, n)[k] = s[k]
  OBVIOUS

LEMMA RisingConcat ==
  ASSUME NEW E, NEW s \in Seq(E), NEW t \in Seq(E),
         Rising(s), Rising(t), AllBefore(s, t)
  PROVE  Rising(s \o t)
  <1> SUFFICES ASSUME NEW k \in DOMAIN (s \o t), NEW j \in 1 .. (k - 1)
               PROVE  Before((s \o t)[j], (s \o t)[k])
    BY DEF Rising
  <1>1. k \in 1 .. (Len(s) + Len(t)) /\ j \in DOMAIN (s \o t) /\ j < k
    BY ConcatParts
  <1>2. CASE k \in DOMAIN s
    <2>1. j \in DOMAIN s /\ (s \o t)[j] = s[j] /\ (s \o t)[k] = s[k]
      BY <1>1, <1>2
    <2> QED BY <2>1, <1>2 DEF Rising
  <1>3. CASE k \notin DOMAIN s /\ j \in DOMAIN s
    <2>1. k - Len(s) \in DOMAIN t /\ (s \o t)[j] = s[j] /\ (s \o t)[k] = t[k - Len(s)]
      BY <1>1, <1>3, ConcatParts
    <2> QED BY <2>1, <1>3 DEF AllBefore
  <1>4. CASE k \notin DOMAIN s /\ j \notin DOMAIN s
    <2>1. /\ k - Len(s) \in DOMAIN t /\ j - Len(s) \in 1 .. (k - Len(s) - 1)
          /\ (s \o t)[j] = t[j - Len(s)] /\ (s \o t)[k] = t[k - Len(s)]
      BY <1>1, <1>4, ConcatParts
    <2> QED BY <2>1 DEF Rising
  <1> QED BY <1>2, <1>3, <1>4

LEMMA AllBeforeConcat ==
  ASSUME NEW E, NEW s \in Seq(E), NEW t \in Seq(E), NEW u \in Seq(E)
  PROVE  /\ AllBefore(s, u) /\ AllBefore(t, u) => AllBefore(s \o t, u)
         /\ AllBefore(u, s) /\ AllBefore(u, t) => AllBefore(u, s \o t)
  BY ConcatParts DEF AllBefore

LEMMA UntornConcat ==
  ASSUME NEW E, NEW s \in Seq(E), NEW t \in Seq(E), Untorn(s), Untorn(t)
  PROVE  Untorn(s \o t)
  BY ConcatParts DEF Untorn

LEMMA TearingParts ==
  ASSUME NEW E, NEW s \in Seq(E), Torn \in E
  PROVE  /\ Append(s, Torn) \in Seq(E)
         /\ Extends(s, Append(s, Torn))
         /\ Rising(s) => Rising(Append(s, Torn))
         /\ \A u \in Seq(E) : AllBefore(s, u) => AllBefore(Append(s, Torn), u)
  <1>1. Append(s, Torn) \in Seq(E) /\ Len(Append(s, Torn)) = Len(s) + 1
    OBVIOUS
  <1>2. \A k \in 1 .. Len(s) : Append(s, Torn)[k] = s[k]
    OBVIOUS
  <1>3. Append(s, Torn)[Len(s) + 1] = Torn
    OBVIOUS
  <1> DEFINE a == Append(s, Torn)
  <1> HIDE DEF a
  <1>4. \A k \in DOMAIN a : (k \in DOMAIN s /\ a[k] = s[k]) \/ a[k] = Torn
    BY <1>1, <1>2, <1>3 DEF a
  <1>5. Rising(s) => Rising(a)
    BY <1>1, <1>4 DEF Rising, Before, a
  <1>6. \A u \in Seq(E) : AllBefore(s, u) => AllBefore(a, u)
    BY <1>4 DEF AllBefore, Before
  <1> QED BY <1>1, <1>2, <1>5, <1>6 DEF a, Extends

LEMMA SuffixInOrder ==
  ASSUME NEW E, NEW s \in Seq(E), NEW n \in 0 .. Len(s), NEW d, AllBefore(d, s), Rising(s)
  PROVE  LET p == SubSeq(s, 1, n)  q == SubSeq(s, n + 1, Len(s))
         IN  /\ Rising(p) /\ Rising(q)
             /\ AllBefore(p, q) /\ AllBefore(d, p) /\ AllBefore(d, q)
  <1> DEFINE p == SubSeq(s, 1, n)
             q == SubSeq(s, n + 1, Len(s))
  <1>1. p \in Seq(E) /\ Len(p) = n /\ \A k \in DOMAIN p : k \in DOMAIN s /\ p[k] = s[k]
    BY PrefixParts
  <1>2. q \in Seq(E) /\ Len(q) = Len(s) - n
        /\ \A k \in DOMAIN q : n + k \in DOMAIN s /\ q[k] = s[n + k]
    BY SuffixParts
  <1> HIDE DEF p, q
  <1>3. Rising(p)
    BY <1>1 DEF Rising
  <1>4. Rising(q)
    <2> SUFFICES ASSUME NEW k \in DOMAIN q, NEW j \in 1 .. (k - 1)
                 PROVE  Before(q[j], q[k])
      BY DEF Rising
    <2>1. j \in DOMAIN q /\ n + k \in DOMAIN s /\ n + j \in 1 .. ((n + k) - 1)
      BY <1>2
    <2>2. q[k] = s[n + k] /\ q[j] = s[n + j]
      BY <2>1, <1>2
    <2>3. Before(s[n + j], s[n + k])
      BY <2>1 DEF Rising
    <2> QED BY <2>2, <2>3
  <1>5. AllBefore(p, q)
    <2> SUFFICES ASSUME NEW j \in DOMAIN p, NEW k \in DOMAIN q
                 PROVE  Before(p[j], q[k])
      BY DEF AllBefore
    <2>1. n + k \in DOMAIN s /\ j \in 1 .. ((n + k) - 1)
      BY <1>1, <1>2
    <2>2. p[j] = s[j] /\ q[k] = s[n + k]
      BY <1>1, <1>2
    <2>3. Before(s[j], s[n + k])
      BY <2>1 DEF Rising
    <2> QED BY <2>2, <2>3
  <1>6. AllBefore(d, p) /\ AllBefore(d, q)
    BY <1>1, <1>2 DEF AllBefore
  <1> QED BY <1>3, <1>4, <1>5, <1>6 DEF p, q

(* Appending an event is writing it behind the rest.                       *)
LEMMA AppendBehind ==
  ASSUME NEW E, NEW s \in Seq(E), NEW t \in Seq(E), NEW e \in E
  PROVE  s \o Append(t, e) = Append(s \o t, e)
  <1>1. Append(t, e) = t \o <<e>> /\ Append(s \o t, e) = (s \o t) \o <<e>>
    BY AppendIsConcat, ConcatProperties
  <1>2. <<e>> \in Seq(E)
    OBVIOUS
  <1> QED BY <1>1, <1>2, ConcatAssociative

LEMMA MoreEvents ==
  ASSUME NEW events, NEW more, events \subseteq more, NEW file \in Files(events)
  PROVE  file \in Files(more)
  <1>1. /\ file.buffer \in Seq(events) /\ file.frame \in Seq(events)
        /\ file.disk \in Seq(events \union {Torn})
    BY DEF Files
  <1>2. /\ file.buffer \in Seq(more) /\ file.frame \in Seq(more)
        /\ file.disk \in Seq(more \union {Torn})
    <2>1. events \union {Torn} \subseteq more \union {Torn}
      OBVIOUS
    <2> QED BY <1>1, <2>1, SeqMonotonic, Zenon
  <1> QED BY <1>2 DEF Files

(* The three parts of a file as sequences over one set.                    *)
LEMMA FileParts ==
  ASSUME NEW events, NEW file \in Files(events)
  PROVE  LET All == events \union {Torn}
         IN  /\ file.buffer \in Seq(All) /\ file.frame \in Seq(All) /\ file.disk \in Seq(All)
             /\ file.buffer \in Seq(events) /\ file.frame \in Seq(events)
             /\ file = [buffer |-> file.buffer, frame |-> file.frame, disk |-> file.disk]
             /\ Content(file) \in Seq(All)
  <1> DEFINE All == events \union {Torn}
  <1>1. /\ file.buffer \in Seq(events) /\ file.frame \in Seq(events) /\ file.disk \in Seq(All)
        /\ file = [buffer |-> file.buffer, frame |-> file.frame, disk |-> file.disk]
    BY DEF Files
  <1>2. events \subseteq All
    OBVIOUS
  <1>3. file.buffer \in Seq(All) /\ file.frame \in Seq(All)
    BY <1>1, <1>2, SeqMonotonic, Zenon
  <1> HIDE DEF All
  <1>4. Content(file) \in Seq(All)
    BY <1>1, <1>3, ConcatProperties DEF Content
  <1> QED BY <1>1, <1>3, <1>4 DEF All

-----------------------------------------------------------------------------
(* The outcomes of the layers.                                             *)

(* A member is written whole, or not, or torn; the accumulator is empty in *)
(* any case.                                                               *)
LEMMA EmitFrameOutcomes ==
  ASSUME NEW events, NEW file \in Files(events), NEW r \in EmitFrame(file)
  PROVE  /\ r.ok \in BOOLEAN
         /\ r.file \in Files(events)
         /\ r.file.buffer = file.buffer /\ r.file.frame = << >>
         /\ r.ok => r.file.disk = file.disk \o file.frame
         /\ ~r.ok => r.file.disk \in {file.disk, Append(file.disk, Torn)}
  <1> DEFINE All == events \union {Torn}
             whole == Held(file.buffer, << >>, file.disk \o file.frame)
             cleared == Held(file.buffer, << >>, file.disk)
             torn == Held(file.buffer, << >>, Append(file.disk, Torn))
  <1>1. /\ file.buffer \in Seq(events) /\ file.frame \in Seq(events)
        /\ file.frame \in Seq(All) /\ file.disk \in Seq(All)
    BY FileParts
  <1>2. file.disk \o << >> = file.disk /\ << >> \in Seq(events)
    BY <1>1, ConcatEmptySeq
  <1>3. file.disk \o file.frame \in Seq(All) /\ Append(file.disk, Torn) \in Seq(All)
    BY <1>1, ConcatProperties, AppendProperties
  <1>4. CASE file.frame = << >>
    <2>1. r = Ok(file)
      BY <1>4 DEF EmitFrame
    <2> QED BY <2>1, <1>2, <1>4 DEF Ok
  <1>5. CASE file.frame # << >>
    <2>1. r \in {Ok(whole), Failed(cleared), Failed(torn)}
      BY <1>5 DEF EmitFrame
    <2>2. cleared \in Files(events) /\ whole \in Files(events) /\ torn \in Files(events)
      BY <1>1, <1>2, <1>3 DEF Files, Held
    <2>3. CASE r = Ok(whole)
      BY <2>2, <2>3 DEF Ok, Held
    <2>4. CASE r = Failed(cleared)
      BY <2>2, <2>4 DEF Failed, Held
    <2>5. CASE r = Failed(torn)
      BY <2>2, <2>5 DEF Failed, Held
    <2> QED BY <2>1, <2>3, <2>4, <2>5
  <1> QED BY <1>4, <1>5

(* The BufWriter is empty after a success.  After a failure, a plain record *)
(* has a prefix of what was buffered on the disk and the rest still        *)
(* buffered; a compressed one has lost its accumulator and kept the buffer. *)
LEMMA SpillOutcomes ==
  ASSUME NEW events, NEW file \in Files(events), ~compress => file.frame = << >>,
         NEW r \in Spill(file)
  PROVE  /\ r.ok \in BOOLEAN
         /\ r.file \in Files(events)
         /\ ~compress => r.file.frame = << >>
         /\ r.ok => /\ r.file.buffer = << >>
                    /\ \/ r.file.frame = << >> /\ r.file.disk = Content(file)
                       \/ /\ r.file.frame = file.frame \o file.buffer
                          /\ r.file.disk = file.disk
         /\ ~r.ok =>
              \/ \E n \in 0 .. Len(file.buffer) :
                   /\ r.file.frame = << >> /\ file.frame = << >>
                   /\ r.file.disk = file.disk \o SubSeq(file.buffer, 1, n)
                   /\ r.file.buffer = SubSeq(file.buffer, n + 1, Len(file.buffer))
              \/ /\ r.file.frame = << >> /\ r.file.buffer = file.buffer
                 /\ r.file.disk \in {file.disk, Append(file.disk, Torn)}
  <1> DEFINE All == events \union {Torn}
             joined == file.frame \o file.buffer
  <1>1. /\ file.buffer \in Seq(events) /\ file.frame \in Seq(events)
        /\ file.buffer \in Seq(All) /\ file.frame \in Seq(All) /\ file.disk \in Seq(All)
    BY FileParts
  <1>2. << >> \in Seq(events) /\ joined \in Seq(events) /\ joined \in Seq(All)
    BY <1>1, ConcatProperties
  <1>3. Content(file) \in Seq(All) /\ Content(file) = file.disk \o joined
    <2>1. \A d, f, b \in Seq(All) : (d \o f) \o b = d \o (f \o b)
      <3> HIDE DEF All
      <3> QED BY ConcatAssociative
    <2> QED BY <1>1, <2>1, FileParts DEF Content
  <1>4. CASE file.buffer = << >>
    <2>1. r = Ok(file)
      BY <1>4 DEF Spill
    <2>2. joined = file.frame
      BY <1>4, <1>1, ConcatEmptySeq
    <2> QED BY <2>1, <2>2, <1>4 DEF Ok
  <1>5. CASE file.buffer # << >> /\ ~compress
    <2> DEFINE kept(n) == Held(SubSeq(file.buffer, n + 1, Len(file.buffer)), file.frame,
                               file.disk \o SubSeq(file.buffer, 1, n))
               written == Held(<< >>, file.frame, file.disk \o file.buffer)
    <2>1. \/ r = Ok(written)
          \/ \E n \in 0 .. (Len(file.buffer) - 1) : r = Failed(kept(n))
      BY <1>5, Zenon DEF Spill
    <2>2. CASE r = Ok(written)
      <3>1. joined = file.buffer
        BY <1>1, <1>5, ConcatEmptySeq
      <3>2. written \in Files(events)
        BY <1>1, <1>2, <1>3, <3>1 DEF Files, Held
      <3> QED BY <2>2, <3>1, <3>2, <1>3, <1>5 DEF Ok, Held
    <2>3. ASSUME NEW n \in 0 .. (Len(file.buffer) - 1), r = Failed(kept(n))
          PROVE  /\ ~r.ok /\ r.file \in Files(events) /\ r.file.frame = << >>
                 /\ n \in 0 .. Len(file.buffer)
                 /\ r.file.disk = file.disk \o SubSeq(file.buffer, 1, n)
                 /\ r.file.buffer = SubSeq(file.buffer, n + 1, Len(file.buffer))
      <3>1. n \in 0 .. Len(file.buffer)
        BY <1>1
      <3>2. SubSeq(file.buffer, n + 1, Len(file.buffer)) \in Seq(events)
        BY <1>1, <3>1, SuffixParts
      <3>3. file.disk \o SubSeq(file.buffer, 1, n) \in Seq(All)
        BY <1>1, <3>1, PrefixParts, ConcatProperties
      <3>4. kept(n) \in Files(events)
        BY <1>1, <3>2, <3>3 DEF Files, Held
      <3> QED BY <2>3, <3>1, <3>4, <1>5 DEF Failed, Held
    <2>4. CASE \E n \in 0 .. (Len(file.buffer) - 1) : r = Failed(kept(n))
      <3>1. PICK n \in 0 .. (Len(file.buffer) - 1) : r = Failed(kept(n))
        BY <2>4
      <3>2. r.ok = FALSE
        BY <3>1 DEF Failed
      <3> HIDE DEF kept
      <3> QED BY <3>1, <3>2, <2>3, <1>5
    <2> HIDE DEF kept, written
    <2> QED BY <2>1, <2>2, <2>4
  <1>6. CASE file.buffer # << >> /\ compress
    <2> DEFINE full == Held(file.buffer, joined, file.disk)
    <2>1. \/ r = Ok(Held(<< >>, joined, file.disk))
          \/ \E q \in EmitFrame(full) :
               r = IF q.ok THEN Ok(Held(<< >>, q.file.frame, q.file.disk)) ELSE q
      BY <1>6, Zenon DEF Spill
    <2>2. full \in Files(events)
      BY <1>1, <1>2 DEF Files, Held
    <2>3. CASE r = Ok(Held(<< >>, joined, file.disk))
      <3>1. Held(<< >>, joined, file.disk) \in Files(events)
        BY <1>1, <1>2 DEF Files, Held
      <3> QED BY <2>3, <3>1, <1>6 DEF Ok, Held
    <2>4. ASSUME NEW q \in EmitFrame(full),
                 r = IF q.ok THEN Ok(Held(<< >>, q.file.frame, q.file.disk)) ELSE q
          PROVE  /\ r.ok \in BOOLEAN /\ r.file \in Files(events) /\ r.file.frame = << >>
                 /\ r.ok => r.file.buffer = << >> /\ r.file.disk = Content(file)
                 /\ ~r.ok => /\ r.file.buffer = file.buffer
                             /\ r.file.disk \in {file.disk, Append(file.disk, Torn)}
      <3>1. /\ q.ok \in BOOLEAN /\ q.file \in Files(events)
            /\ q.file.buffer = full.buffer /\ q.file.frame = << >>
            /\ q.ok => q.file.disk = full.disk \o full.frame
            /\ ~q.ok => q.file.disk \in {full.disk, Append(full.disk, Torn)}
        BY <2>2, EmitFrameOutcomes
      <3>2. full.buffer = file.buffer /\ full.frame = joined /\ full.disk = file.disk
        BY DEF Held
      <3>3. CASE q.ok
        <4> HIDE DEF joined, full
        <4>1. r.file = Held(<< >>, << >>, file.disk \o joined)
          BY <2>4, <3>1, <3>2, <3>3 DEF Ok
        <4>2. Held(<< >>, << >>, file.disk \o joined) \in Files(events)
          BY <1>2, <1>3 DEF Held, Files
        <4>3. r.ok = TRUE
          BY <2>4, <3>3 DEF Ok
        <4>4. /\ r.file.buffer = << >> /\ r.file.frame = << >>
              /\ r.file.disk = file.disk \o joined
          BY <4>1 DEF Held
        <4> QED BY <4>1, <4>2, <4>3, <4>4, <1>3, <3>3
      <3>4. CASE ~q.ok
        <4>1. r = q
          BY <2>4, <3>4
        <4> QED BY <4>1, <3>1, <3>2, <3>4
      <3> QED BY <3>1, <3>3, <3>4
    <2> QED BY <2>1, <2>3, <2>4, <1>6
  <1> QED BY <1>4, <1>5, <1>6

-----------------------------------------------------------------------------
(* The outcomes of a layer that was given a sound file.                    *)

LEMMA EventsAreUntorn ==
  ASSUME NEW events \in SUBSET Envelope, NEW s \in Seq(events)
  PROVE  Untorn(s)
  <1>1. Torn \notin Envelope
    BY DEF Torn, Envelope, Kinds, BodyKinds, TerminalKinds
  <1>2. \A k \in DOMAIN s : s[k] \in events
    OBVIOUS
  <1> QED BY <1>1, <1>2 DEF Untorn

LEMMA EmptyInOrder ==
  ASSUME NEW s
  PROVE  Rising(<< >>) /\ AllBefore(<< >>, s) /\ AllBefore(s, << >>)
  BY DEF Rising, AllBefore

LEMMA ExtendsReflexive ==
  ASSUME NEW E, NEW s \in Seq(E)
  PROVE  Extends(s, s)
  BY DEF Extends

LEMMA ExtendsTransitive ==
  ASSUME NEW E, NEW s \in Seq(E), NEW t \in Seq(E), NEW u \in Seq(E),
         Extends(s, t), Extends(t, u)
  PROVE  Extends(s, u)
  BY DEF Extends

(* The shapes a sound file can be given: everything on the disk; the       *)
(* buffer joined to the accumulator; and the accumulator lost.             *)
LEMMA DrainedIsSound ==
  ASSUME NEW events, NEW file, Sound(file, events),
         NEW to \in Files(events), to.buffer = << >>, to.frame = << >>,
         to.disk = Content(file)
  PROVE  Sound(to, events) /\ Extends(file.disk, to.disk) /\ Content(to) = Content(file)
  <1> DEFINE All == events \union {Torn}
             d == file.disk
             f == file.frame
             b == file.buffer
  <1>1. d \in Seq(All) /\ f \in Seq(All) /\ b \in Seq(All)
    BY FileParts DEF Sound
  <1>2. /\ Rising(d) /\ Rising(f) /\ Rising(b)
        /\ AllBefore(d, f) /\ AllBefore(d, b) /\ AllBefore(f, b)
    BY DEF Sound, InOrder
  <1>3. Content(file) = (d \o f) \o b
    BY DEF Content
  <1> HIDE DEF All, d, f, b
  <1>4. d \o f \in Seq(All) /\ Rising(d \o f) /\ AllBefore(d \o f, b) /\ Extends(d, d \o f)
    BY <1>1, <1>2, ConcatParts, RisingConcat, AllBeforeConcat
  <1>5. /\ (d \o f) \o b \in Seq(All) /\ Rising((d \o f) \o b)
        /\ Extends(d \o f, (d \o f) \o b)
    BY <1>1, <1>2, <1>4, ConcatParts, RisingConcat
  <1>6. Extends(d, (d \o f) \o b)
    BY <1>1, <1>4, <1>5, ExtendsTransitive
  <1>7. InOrder(to)
    BY <1>3, <1>5, EmptyInOrder DEF InOrder
  <1>8. Content(to) = Content(file)
    <2>1. \A s \in Seq(All) : (s \o << >>) \o << >> = s
      BY ConcatEmptySeq
    <2> QED BY <2>1, <1>3, <1>5 DEF Content
  <1> QED BY <1>3, <1>6, <1>7, <1>8 DEF Sound, d

LEMMA JoinedIsSound ==
  ASSUME NEW events, NEW file, Sound(file, events),
         NEW to \in Files(events), to.buffer = << >>,
         to.frame = file.frame \o file.buffer, to.disk = file.disk,
         ~compress => to.frame = << >>
  PROVE  Sound(to, events) /\ Extends(file.disk, to.disk) /\ Content(to) = Content(file)
  <1> DEFINE All == events \union {Torn}
             d == file.disk
             f == file.frame
             b == file.buffer
  <1>1. d \in Seq(All) /\ f \in Seq(All) /\ b \in Seq(All)
    BY FileParts DEF Sound
  <1>2. /\ Rising(d) /\ Rising(f) /\ Rising(b)
        /\ AllBefore(d, f) /\ AllBefore(d, b) /\ AllBefore(f, b)
    BY DEF Sound, InOrder
  <1>3. /\ Content(file) = (d \o f) \o b
        /\ Content(to) = (d \o (f \o b)) \o << >>
        /\ to.disk = d /\ to.frame = f \o b
    BY DEF Content
  <1> HIDE DEF All, d, f, b
  <1>4. f \o b \in Seq(All) /\ Rising(f \o b) /\ AllBefore(d, f \o b)
    BY <1>1, <1>2, ConcatParts, RisingConcat, AllBeforeConcat
  <1>5. InOrder(to)
    BY <1>2, <1>3, <1>4, EmptyInOrder DEF InOrder
  <1>6. d \o (f \o b) \in Seq(All) /\ (d \o f) \o b = d \o (f \o b)
    BY <1>1, <1>4, ConcatParts, ConcatAssociative
  <1>7. Content(to) = Content(file)
    BY <1>3, <1>6, ConcatEmptySeq
  <1>8. Extends(d, to.disk)
    BY <1>1, <1>3, ExtendsReflexive
  <1> QED BY <1>5, <1>7, <1>8 DEF Sound, d

LEMMA LostIsSound ==
  ASSUME NEW events, NEW file, Sound(file, events),
         NEW to \in Files(events), to.buffer \in {file.buffer, << >>}, to.frame = << >>,
         to.disk \in {file.disk, Append(file.disk, Torn)}
  PROVE  Sound(to, events) /\ Extends(file.disk, to.disk)
  <1> DEFINE All == events \union {Torn}
             d == file.disk
             b == file.buffer
             t == Append(d, Torn)
  <1>1. d \in Seq(All) /\ b \in Seq(All) /\ Torn \in All
    BY FileParts DEF Sound
  <1>2. Rising(d) /\ Rising(b) /\ AllBefore(d, b)
    BY DEF Sound, InOrder
  <1>3. to.disk \in {d, t} /\ to.buffer \in {b, << >>}
    OBVIOUS
  <1> HIDE DEF All, d, b
  <1>4. Rising(t) /\ AllBefore(t, b) /\ Extends(d, t) /\ Extends(d, d)
    BY <1>1, <1>2, TearingParts, ExtendsReflexive
  <1> HIDE DEF t
  <1>5. InOrder(to)
    BY <1>2, <1>3, <1>4, EmptyInOrder DEF InOrder
  <1>6. Extends(d, to.disk)
    BY <1>3, <1>4
  <1> QED BY <1>5, <1>6 DEF Sound, d

LEMMA SplitIsSound ==
  ASSUME NEW events, NEW file, Sound(file, events),
         NEW n \in 0 .. Len(file.buffer),
         NEW to \in Files(events), to.frame = << >>, file.frame = << >>,
         to.disk = file.disk \o SubSeq(file.buffer, 1, n),
         to.buffer = SubSeq(file.buffer, n + 1, Len(file.buffer))
  PROVE  Sound(to, events) /\ Extends(file.disk, to.disk)
  <1> DEFINE All == events \union {Torn}
             d == file.disk
             b == file.buffer
             p == SubSeq(b, 1, n)
             q == SubSeq(b, n + 1, Len(b))
  <1>1. d \in Seq(All) /\ b \in Seq(All)
    BY FileParts DEF Sound
  <1>2. Rising(d) /\ Rising(b) /\ AllBefore(d, b)
    BY DEF Sound, InOrder
  <1>3. to.disk = d \o p /\ to.buffer = q /\ n \in 0 .. Len(b)
    OBVIOUS
  <1> HIDE DEF All, d, b
  <1>4. /\ Rising(p) /\ Rising(q) /\ AllBefore(p, q)
        /\ AllBefore(d, p) /\ AllBefore(d, q)
    BY <1>1, <1>2, <1>3, SuffixInOrder
  <1>5. p \in Seq(All) /\ q \in Seq(All)
    BY <1>1, <1>3, PrefixParts, SuffixParts
  <1> HIDE DEF p, q
  <1>6. Rising(d \o p) /\ AllBefore(d \o p, q) /\ Extends(d, d \o p)
    BY <1>1, <1>2, <1>4, <1>5, RisingConcat, AllBeforeConcat, ConcatParts
  <1>7. InOrder(to)
    BY <1>3, <1>4, <1>6, EmptyInOrder DEF InOrder
  <1> QED BY <1>3, <1>6, <1>7 DEF Sound, d

LEMMA WrittenIsSound ==
  ASSUME NEW events, NEW file, Sound(file, events),
         NEW to \in Files(events), to.buffer = file.buffer, to.frame = << >>,
         to.disk = file.disk \o file.frame
  PROVE  Sound(to, events) /\ Extends(file.disk, to.disk) /\ Content(to) = Content(file)
  <1> DEFINE All == events \union {Torn}
             d == file.disk
             f == file.frame
             b == file.buffer
  <1>1. d \in Seq(All) /\ f \in Seq(All) /\ b \in Seq(All)
    BY FileParts DEF Sound
  <1>2. /\ Rising(d) /\ Rising(f) /\ Rising(b)
        /\ AllBefore(d, f) /\ AllBefore(d, b) /\ AllBefore(f, b)
    BY DEF Sound, InOrder
  <1>3. /\ Content(file) = (d \o f) \o b
        /\ Content(to) = ((d \o f) \o << >>) \o b
        /\ to.disk = d \o f /\ to.buffer = b
    BY DEF Content
  <1> HIDE DEF All, d, f, b
  <1>4. d \o f \in Seq(All) /\ Rising(d \o f) /\ AllBefore(d \o f, b) /\ Extends(d, d \o f)
    BY <1>1, <1>2, ConcatParts, RisingConcat, AllBeforeConcat
  <1>5. InOrder(to)
    BY <1>2, <1>3, <1>4, EmptyInOrder DEF InOrder
  <1>6. Content(to) = Content(file)
    BY <1>3, <1>4, ConcatEmptySeq
  <1> QED BY <1>3, <1>4, <1>5, <1>6 DEF Sound, d

LEMMA UntornContent ==
  ASSUME NEW events \in SUBSET Envelope, NEW file \in Files(events), Untorn(file.disk)
  PROVE  Untorn(file.disk \o file.frame) /\ Untorn(Content(file))
  <1> DEFINE All == events \union {Torn}
  <1>1. /\ file.buffer \in Seq(All) /\ file.frame \in Seq(All) /\ file.disk \in Seq(All)
        /\ file.buffer \in Seq(events) /\ file.frame \in Seq(events)
    BY FileParts
  <1> HIDE DEF All
  <1>2. Untorn(file.buffer) /\ Untorn(file.frame)
    BY <1>1, EventsAreUntorn
  <1>3. Untorn(file.disk \o file.frame) /\ file.disk \o file.frame \in Seq(All)
    BY <1>1, <1>2, UntornConcat, ConcatProperties
  <1>4. Untorn((file.disk \o file.frame) \o file.buffer)
    BY <1>1, <1>2, <1>3, UntornConcat
  <1> QED BY <1>3, <1>4 DEF Content

LEMMA UnchangedOutcome ==
  ASSUME NEW events, NEW file, Sound(file, events)
  PROVE  Outcome(file, events, Ok(file))
  <1>1. Extends(file.disk, file.disk)
    BY FileParts, ExtendsReflexive DEF Sound
  <1> QED BY <1>1 DEF Outcome, Ok

(* GzFrames::emit_frame.                                                   *)
LEMMA EmitFrameKeeps ==
  ASSUME NEW events \in SUBSET Envelope, NEW file, Sound(file, events),
         NEW r \in EmitFrame(file)
  PROVE  Outcome(file, events, r) /\ r.file.buffer = file.buffer /\ r.file.frame = << >>
  <1>1. file \in Files(events)
    BY DEF Sound
  <1>2. /\ r.ok \in BOOLEAN
        /\ r.file \in Files(events)
        /\ r.file.buffer = file.buffer /\ r.file.frame = << >>
        /\ r.ok => r.file.disk = file.disk \o file.frame
        /\ ~r.ok => r.file.disk \in {file.disk, Append(file.disk, Torn)}
    BY <1>1, EmitFrameOutcomes
  <1>3. CASE r.ok
    <2>1. /\ Sound(r.file, events) /\ Extends(file.disk, r.file.disk)
          /\ Content(r.file) = Content(file)
      BY <1>2, <1>3, WrittenIsSound
    <2>2. Untorn(file.disk) => Untorn(r.file.disk)
      BY <1>1, <1>2, <1>3, UntornContent
    <2> QED BY <1>2, <2>1, <2>2 DEF Outcome
  <1>4. CASE ~r.ok
    <2>1. Sound(r.file, events) /\ Extends(file.disk, r.file.disk)
      BY <1>2, <1>4, LostIsSound
    <2> QED BY <1>2, <1>4, <2>1 DEF Outcome
  <1> QED BY <1>2, <1>3, <1>4

LEMMA SpillKeeps ==
  ASSUME NEW events \in SUBSET Envelope, NEW file, Sound(file, events),
         NEW r \in Spill(file)
  PROVE  Outcome(file, events, r) /\ (r.ok => r.file.buffer = << >>)
  <1>1. file \in Files(events) /\ (~compress => file.frame = << >>)
    BY DEF Sound
  <1>2. /\ r.ok \in BOOLEAN
        /\ r.file \in Files(events)
        /\ ~compress => r.file.frame = << >>
        /\ r.ok => /\ r.file.buffer = << >>
                   /\ \/ r.file.frame = << >> /\ r.file.disk = Content(file)
                      \/ /\ r.file.frame = file.frame \o file.buffer
                         /\ r.file.disk = file.disk
        /\ ~r.ok =>
             \/ \E n \in 0 .. Len(file.buffer) :
                  /\ r.file.frame = << >> /\ file.frame = << >>
                  /\ r.file.disk = file.disk \o SubSeq(file.buffer, 1, n)
                  /\ r.file.buffer = SubSeq(file.buffer, n + 1, Len(file.buffer))
             \/ /\ r.file.frame = << >> /\ r.file.buffer = file.buffer
                /\ r.file.disk \in {file.disk, Append(file.disk, Torn)}
    BY <1>1, SpillOutcomes
  <1>3. CASE r.ok /\ r.file.frame = << >> /\ r.file.disk = Content(file)
    <2>1. /\ Sound(r.file, events) /\ Extends(file.disk, r.file.disk)
          /\ Content(r.file) = Content(file)
      BY <1>2, <1>3, DrainedIsSound
    <2>2. Untorn(file.disk) => Untorn(r.file.disk)
      BY <1>1, <1>3, UntornContent
    <2> QED BY <1>2, <2>1, <2>2 DEF Outcome
  <1>4. CASE r.ok /\ r.file.frame = file.frame \o file.buffer /\ r.file.disk = file.disk
    <2>1. /\ Sound(r.file, events) /\ Extends(file.disk, r.file.disk)
          /\ Content(r.file) = Content(file)
      BY <1>2, <1>4, JoinedIsSound
    <2> QED BY <1>2, <1>4, <2>1 DEF Outcome
  <1>5. CASE ~r.ok
    <2>1. CASE /\ r.file.frame = << >> /\ r.file.buffer = file.buffer
               /\ r.file.disk \in {file.disk, Append(file.disk, Torn)}
      <3>1. Sound(r.file, events) /\ Extends(file.disk, r.file.disk)
        BY <1>2, <2>1, LostIsSound
      <3> QED BY <1>2, <1>5, <3>1 DEF Outcome
    <2>2. CASE \E n \in 0 .. Len(file.buffer) :
                 /\ r.file.frame = << >> /\ file.frame = << >>
                 /\ r.file.disk = file.disk \o SubSeq(file.buffer, 1, n)
                 /\ r.file.buffer = SubSeq(file.buffer, n + 1, Len(file.buffer))
      <3>1. Sound(r.file, events) /\ Extends(file.disk, r.file.disk)
        BY <1>2, <2>2, SplitIsSound
      <3> QED BY <1>2, <1>5, <3>1 DEF Outcome
    <2> QED BY <1>2, <1>5, <2>1, <2>2
  <1> QED BY <1>2, <1>3, <1>4, <1>5

(* Two layers, one after the other.                                        *)
LEMMA OutcomeChain ==
  ASSUME NEW events, NEW file, Sound(file, events),
         NEW q, Outcome(file, events, q), q.ok, NEW r, Outcome(q.file, events, r)
  PROVE  Outcome(file, events, r)
  <1> DEFINE All == events \union {Torn}
  <1>1. Sound(q.file, events) /\ Sound(r.file, events)
    BY DEF Outcome
  <1>2. file.disk \in Seq(All) /\ q.file.disk \in Seq(All) /\ r.file.disk \in Seq(All)
    BY <1>1, FileParts DEF Sound
  <1>3. Extends(file.disk, q.file.disk) /\ Extends(q.file.disk, r.file.disk)
    BY DEF Outcome
  <1> HIDE DEF All
  <1>4. Extends(file.disk, r.file.disk)
    BY <1>2, <1>3, ExtendsTransitive
  <1> QED BY <1>1, <1>4 DEF Outcome

(* A flush that succeeds leaves nothing behind.                            *)
LEMMA FlushKeeps ==
  ASSUME NEW events \in SUBSET Envelope, NEW file, Sound(file, events),
         NEW r \in Flush(file)
  PROVE  Outcome(file, events, r) /\ (r.ok => Settled(r.file))
  <1>1. PICK q \in Spill(file) : r \in IF q.ok /\ compress THEN EmitFrame(q.file) ELSE {q}
    BY Zenon DEF Flush
  <1>2. Outcome(file, events, q) /\ (q.ok => q.file.buffer = << >>)
    BY SpillKeeps
  <1>3. CASE q.ok /\ compress
    <2>1. Sound(q.file, events)
      BY <1>2 DEF Outcome
    <2>2. /\ Outcome(q.file, events, r)
          /\ r.file.buffer = q.file.buffer /\ r.file.frame = << >>
      BY <1>1, <1>3, <2>1, EmitFrameKeeps
    <2>3. Outcome(file, events, r)
      BY <1>2, <1>3, <2>2, OutcomeChain
    <2> QED BY <1>2, <1>3, <2>2, <2>3 DEF Settled
  <1>4. CASE ~(q.ok /\ compress)
    <2>1. r = q
      BY <1>1, <1>4
    <2>2. r.ok => ~compress /\ q.ok
      BY <1>4, <2>1
    <2>3. r.ok => r.file.frame = << >>
      BY <1>2, <2>1, <2>2 DEF Outcome, Sound
    <2> QED BY <1>2, <2>1, <2>3 DEF Settled
  <1> QED BY <1>3, <1>4

(* Dropping the writer may lose what it holds, but reorders nothing.       *)
LEMMA DropKeeps ==
  ASSUME NEW events \in SUBSET Envelope, NEW file, Sound(file, events),
         NEW r \in DropFile(file)
  PROVE  Sound(r.file, events) /\ Extends(file.disk, r.file.disk)
  <1> DEFINE All == events \union {Torn}
  <1>1. PICK q \in Spill(file) : r \in IF compress THEN EmitFrame(q.file) ELSE {q}
    BY Zenon DEF DropFile
  <1>2. Sound(q.file, events) /\ Extends(file.disk, q.file.disk)
    BY SpillKeeps DEF Outcome
  <1>3. CASE compress
    <2>1. Sound(r.file, events) /\ Extends(q.file.disk, r.file.disk)
      BY <1>1, <1>2, <1>3, EmitFrameKeeps DEF Outcome
    <2>2. file.disk \in Seq(All) /\ q.file.disk \in Seq(All) /\ r.file.disk \in Seq(All)
      BY <1>2, <2>1, FileParts DEF Sound
    <2> HIDE DEF All
    <2> QED BY <1>2, <2>1, <2>2, ExtendsTransitive
  <1>4. CASE ~compress
    <2>1. r = q
      BY <1>1, <1>4
    <2> QED BY <1>2, <2>1
  <1> QED BY <1>3, <1>4

(* A file with nothing in memory is flushed and dropped as it is.          *)
LEMMA SettledStays ==
  ASSUME NEW file, Settled(file)
  PROVE  Flush(file) = {Ok(file)} /\ DropFile(file) = {Ok(file)}
  <1>1. Spill(file) = {Ok(file)} /\ EmitFrame(file) = {Ok(file)}
    BY DEF Settled, Spill, EmitFrame
  <1>2. Ok(file).ok = TRUE /\ Ok(file).file = file
    BY DEF Ok
  <1> QED BY <1>1, <1>2, Zenon DEF Flush, DropFile

-----------------------------------------------------------------------------
(* JsonlWriter::emit: an event numbered above all others is appended.      *)

Behind(s, event) == Append(s, event)
Newest(event, events) == event \in Envelope /\ \A e \in events : e.seq < event.seq

LineOutcome(file, events, event, r) ==
  LET more == events \union {event}
  IN  /\ r.ok \in BOOLEAN
      /\ Sound(r.file, more)
      /\ Extends(file.disk, r.file.disk)
      /\ r.ok => /\ Content(r.file) = Behind(Content(file), event)
                 /\ Untorn(file.disk) => Untorn(r.file.disk)

LEMMA AppendInOrder ==
  ASSUME NEW events \in SUBSET Envelope, NEW event, Newest(event, events),
         NEW b \in Seq(events), Rising(b), NEW s \in Seq(events \union {Torn})
  PROVE  /\ Append(b, event) \in Seq(events \union {event})
         /\ Rising(Append(b, event))
         /\ AllBefore(s, b) => AllBefore(s, Append(b, event))
  <1> DEFINE more == events \union {event}
             a == Append(b, event)
  <1>1. b \in Seq(more) /\ event \in more
    BY SeqMonotonic
  <1>2. /\ a \in Seq(more) /\ Len(a) = Len(b) + 1 /\ a[Len(b) + 1] = event
        /\ \A k \in 1 .. Len(b) : a[k] = b[k]
    <2> HIDE DEF more
    <2> QED BY <1>1, AppendProperties
  <1> HIDE DEF more, a
  <1>3. \A k \in DOMAIN a : (k \in DOMAIN b /\ a[k] = b[k]) \/ (k = Len(b) + 1 /\ a[k] = event)
    BY <1>2
  <1>4. \A x \in events \union {Torn} : Before(x, event)
    BY DEF Newest, Before
  <1>5. Rising(a)
    <2> SUFFICES ASSUME NEW k \in DOMAIN a, NEW j \in 1 .. (k - 1)
                 PROVE  Before(a[j], a[k])
      BY DEF Rising
    <2>1. j \in DOMAIN b /\ a[j] = b[j] /\ b[j] \in events
      BY <1>2
    <2>2. CASE k \in DOMAIN b /\ a[k] = b[k]
      BY <2>1, <2>2 DEF Rising
    <2>3. CASE a[k] = event
      BY <2>1, <2>3, <1>4
    <2> QED BY <1>3, <2>2, <2>3
  <1>6. AllBefore(s, b) => AllBefore(s, a)
    <2> SUFFICES ASSUME AllBefore(s, b), NEW j \in DOMAIN s, NEW k \in DOMAIN a
                 PROVE  Before(s[j], a[k])
      BY DEF AllBefore
    <2>1. s[j] \in events \union {Torn}
      OBVIOUS
    <2>2. CASE k \in DOMAIN b /\ a[k] = b[k]
      BY <2>2 DEF AllBefore
    <2>3. CASE a[k] = event
      BY <2>1, <2>3, <1>4
    <2> QED BY <1>3, <2>2, <2>3
  <1> QED BY <1>2, <1>5, <1>6 DEF a, more

LEMMA LineAppended ==
  ASSUME NEW events \in SUBSET Envelope, NEW event, Newest(event, events),
         NEW file, Sound(file, events),
         NEW to, to = Held(Append(file.buffer, event), file.frame, file.disk)
  PROVE  /\ Sound(to, events \union {event})
         /\ Content(to) = Behind(Content(file), event)
         /\ to.disk = file.disk
  <1> DEFINE All == events \union {Torn}
             more == events \union {event}
             d == file.disk
             f == file.frame
             b == file.buffer
  <1>1. /\ d \in Seq(All) /\ f \in Seq(All) /\ b \in Seq(events) /\ b \in Seq(All)
        /\ f \in Seq(events)
    BY FileParts DEF Sound
  <1>2. /\ Rising(d) /\ Rising(f) /\ Rising(b)
        /\ AllBefore(d, f) /\ AllBefore(d, b) /\ AllBefore(f, b)
        /\ ~compress => f = << >>
    BY DEF Sound, InOrder
  <1>3. /\ Content(file) = (d \o f) \o b
        /\ Content(to) = (d \o f) \o Append(b, event)
        /\ to.disk = d /\ to.frame = f /\ to.buffer = Append(b, event)
    BY DEF Content, Held
  <1>4. /\ f \in Seq(more) /\ d \in Seq(more \union {Torn})
        /\ to = [buffer |-> Append(b, event), frame |-> f, disk |-> d]
    <2>1. events \subseteq more /\ All \subseteq more \union {Torn}
      OBVIOUS
    <2> HIDE DEF more, All
    <2> QED BY <1>1, <2>1, SeqMonotonic DEF Held
  <1> HIDE DEF d, f, b
  <1>5. /\ Append(b, event) \in Seq(more) /\ Rising(Append(b, event))
        /\ AllBefore(d, Append(b, event)) /\ AllBefore(f, Append(b, event))
    BY <1>1, <1>2, AppendInOrder
  <1>6. InOrder(to)
    BY <1>2, <1>3, <1>5 DEF InOrder
  <1>7. to \in Files(more)
    BY <1>4, <1>5 DEF Files
  <1>8. Content(to) = Behind(Content(file), event)
    <2> DEFINE Wide == more \union {Torn}
    <2>1. All \subseteq Wide /\ event \in Wide
      OBVIOUS
    <2> HIDE DEF All, Wide
    <2>2. d \in Seq(Wide) /\ f \in Seq(Wide) /\ b \in Seq(Wide)
      BY <1>1, <2>1, SeqMonotonic
    <2>3. d \o f \in Seq(Wide)
      BY <2>2, ConcatProperties
    <2> QED BY <1>3, <2>1, <2>2, <2>3, AppendBehind DEF Behind
  <1> QED BY <1>2, <1>3, <1>6, <1>7, <1>8 DEF Sound, d, f, b

LEMMA SoundWithMore ==
  ASSUME NEW events, NEW event, NEW file, Sound(file, events)
  PROVE  Sound(file, events \union {event})
  BY MoreEvents DEF Sound

LEMMA WriteLineKeeps ==
  ASSUME NEW events \in SUBSET Envelope, NEW event, Newest(event, events),
         NEW file, Sound(file, events), NEW r \in WriteLine(file, event)
  PROVE  LineOutcome(file, events, event, r)
  <1>1. PICK q \in Spill(file) \union {Ok(file)} :
          r = IF q.ok THEN Ok(Held(Append(q.file.buffer, event), q.file.frame, q.file.disk))
                      ELSE q
    BY Zenon DEF WriteLine
  <1>2. Outcome(file, events, q)
    BY <1>1, SpillKeeps, UnchangedOutcome
  <1>3. Sound(q.file, events)
    BY <1>2 DEF Outcome
  <1>4. CASE q.ok
    <2>1. /\ r.file = Held(Append(q.file.buffer, event), q.file.frame, q.file.disk)
          /\ r.ok = TRUE
      BY <1>1, <1>4 DEF Ok
    <2>2. /\ Sound(r.file, events \union {event})
          /\ Content(r.file) = Behind(Content(q.file), event)
          /\ r.file.disk = q.file.disk
      BY <1>3, <2>1, LineAppended
    <2> QED BY <1>2, <1>4, <2>1, <2>2 DEF LineOutcome, Outcome
  <1>5. CASE ~q.ok
    <2>1. r = q
      BY <1>1, <1>5
    <2>2. Sound(q.file, events \union {event})
      BY <1>3, SoundWithMore
    <2> QED BY <1>2, <1>5, <2>1, <2>2 DEF LineOutcome, Outcome
  <1> QED BY <1>4, <1>5

(* What emit returns: the event is the last of the content, and behind an  *)
(* event that is critical nothing is left in memory.                       *)
LEMMA EmitLineKeeps ==
  ASSUME NEW events \in SUBSET Envelope, NEW event, Newest(event, events),
         NEW file, Sound(file, events), NEW r \in EmitLine(file, event)
  PROVE  /\ LineOutcome(file, events, event, r)
         /\ r.ok /\ event.kind \in Critical => Settled(r.file)
  <1> DEFINE more == events \union {event}
  <1>1. PICK q \in WriteLine(file, event) :
          r \in IF ~q.ok THEN {q}
                ELSE IF event.kind \in Critical THEN Flush(q.file)
                ELSE {q} \union Flush(q.file)
    BY Zenon DEF EmitLine
  <1>2. LineOutcome(file, events, event, q)
    BY WriteLineKeeps
  <1>3. more \in SUBSET Envelope
    BY DEF Newest
  <1>4. Sound(q.file, more)
    BY <1>2 DEF LineOutcome
  <1>5. CASE r = q /\ (q.ok => event.kind \notin Critical)
    BY <1>2, <1>5
  <1>6. CASE q.ok /\ r \in Flush(q.file)
    <2>1. Outcome(q.file, more, r) /\ (r.ok => Settled(r.file))
      BY <1>3, <1>4, <1>6, FlushKeeps
    <2>2. /\ r.ok \in BOOLEAN /\ Sound(r.file, more) /\ Sound(file, more)
          /\ Extends(file.disk, q.file.disk) /\ Extends(q.file.disk, r.file.disk)
      BY <1>2, <2>1, SoundWithMore DEF Outcome, LineOutcome
    <2>3. Extends(file.disk, r.file.disk)
      <3> DEFINE All == more \union {Torn}
      <3>1. file.disk \in Seq(All) /\ q.file.disk \in Seq(All) /\ r.file.disk \in Seq(All)
        BY <1>4, <2>2, FileParts DEF Sound
      <3> HIDE DEF All
      <3> QED BY <2>2, <3>1, ExtendsTransitive
    <2> QED BY <1>2, <1>6, <2>1, <2>2, <2>3 DEF Outcome, LineOutcome
  <1>7. (r = q /\ (q.ok => event.kind \notin Critical)) \/ (q.ok /\ r \in Flush(q.file))
    BY <1>1, <1>2 DEF LineOutcome
  <1> QED BY <1>5, <1>6, <1>7

-----------------------------------------------------------------------------
(* The inductive invariant.                                                *)

Open == {"header", "body", "terminal"}
Closed == {"finalize", "exited", "killed"}

(* The events there can be: a terminal one only once the record is closed, *)
(* under the label that was chosen, and above all others.                  *)
Emitted ==
  {e \in [seq : 0 .. (seq - 1), kind : Kinds] :
     e.kind \in TerminalKinds =>
       phase \in Closed /\ e.kind = termination /\ e.seq = seq - 1}

(* The scalars, and how far the sequence number can be in each phase.      *)
Scalars ==
  /\ compress \in BOOLEAN
  /\ phase \in Open \union Closed
  /\ seq \in 0 .. (MaxEvents + 1)
  /\ terminalWritten \in BOOLEAN
  /\ writerError \in BOOLEAN
  /\ termination \in TerminalKinds \union {"none"}
  /\ terminalOk \in BOOLEAN
  /\ name \in {"partial", "final"}
  /\ exit \in {-1, 0, 2, 3, 130}
Phases ==
  /\ phase = "header" => seq < 2
  /\ phase \in Open => seq <= MaxEvents
  /\ phase \in {"terminal", "finalize"} => termination \in TerminalKinds
  /\ terminalOk = terminalWritten

(* Wherever an event is, it is in order, and nothing is there that was not *)
(* emitted.                                                                *)
FileIsSound == Sound(File, Emitted) /\ acked \subseteq Emitted

(* An acknowledged event is on the disk, with no torn member before it.    *)
Firm(event, s) == \E k \in DOMAIN s : s[k] = event /\ \A j \in 1 .. k : s[j] # Torn
AckedIsFirm == \A event \in acked : Firm(event, disk)

(* Until a write fails, nothing is missing and nothing is torn.            *)
Counted(s, n) == Len(s) = n /\ \A k \in 1 .. n : s[k].seq = k - 1
WholeUntilFailure ==
  phase \in Open /\ ~writerError => Untorn(disk) /\ Counted(Content(File), seq)

(* Behind a terminal event that was written, nothing is in memory.         *)
EndsWithTerminal == disk # << >> /\ disk[Len(disk)] = [seq |-> seq - 1, kind |-> termination]
ClosedWhole ==
  phase = "finalize" /\ terminalOk =>
    /\ Settled(File) /\ EndsWithTerminal
    /\ ~writerError => Untorn(disk) /\ Counted(disk, seq)

ExitedWhole == phase = "exited" /\ exit # 3 => Untorn(disk) /\ Counted(disk, seq)
NamedWhole == name = "final" => phase = "exited" /\ EndsWithTerminal

WInv ==
  /\ Scalars
  /\ Phases
  /\ FileIsSound
  /\ AckedIsFirm
  /\ WholeUntilFailure
  /\ ClosedWhole
  /\ ExitedWhole
  /\ NamedWhole

-----------------------------------------------------------------------------
(* The steps on the file.                                                  *)

LEMMA EmittedIsEnvelopes ==
  ASSUME seq \in Nat
  PROVE  Emitted \in SUBSET Envelope /\ \A e \in Emitted : e.seq < seq
  BY DEF Emitted, Envelope

(* What is acknowledged stays acknowledged while the disk grows.           *)
LEMMA FirmExtends ==
  ASSUME NEW E, NEW s \in Seq(E), NEW t \in Seq(E), Extends(s, t), NEW event, Firm(event, s)
  PROVE  Firm(event, t)
  <1>1. PICK k \in DOMAIN s : s[k] = event /\ \A j \in 1 .. k : s[j] # Torn
    BY DEF Firm
  <1>2. k \in DOMAIN t /\ t[k] = event
    BY <1>1 DEF Extends
  <1>3. \A j \in 1 .. k : t[j] # Torn
    BY <1>1 DEF Extends
  <1> QED BY <1>2, <1>3 DEF Firm

LEMMA LastIsFirm ==
  ASSUME NEW E, NEW s \in Seq(E), s # << >>, Untorn(s)
  PROVE  Firm(s[Len(s)], s)
  <1>1. Len(s) \in DOMAIN s
    BY EmptySeq
  <1> QED BY <1>1 DEF Firm, Untorn

LEMMA SettledContent ==
  ASSUME NEW events, NEW file \in Files(events), Settled(file)
  PROVE  Content(file) = file.disk
  <1> DEFINE All == events \union {Torn}
  <1>1. file.disk \in Seq(All)
    BY FileParts
  <1> HIDE DEF All
  <1>2. (file.disk \o << >>) \o << >> = file.disk
    BY <1>1, ConcatEmptySeq
  <1> QED BY <1>2 DEF Content, Settled

(* One emit, whoever calls it.                                             *)
LEMMA EmitStep ==
  ASSUME Scalars, FileIsSound, WholeUntilFailure, phase \in Open,
         NEW kind \in Kinds, NEW r \in EmitLine(File, Event(kind))
  PROVE  /\ r.ok \in BOOLEAN
         /\ Sound(r.file, Emitted \union {Event(kind)})
         /\ Extends(disk, r.file.disk)
         /\ r.ok /\ ~writerError => Untorn(r.file.disk) /\ Counted(Content(r.file), seq + 1)
         /\ r.ok /\ kind \in Critical => /\ Settled(r.file)
                                         /\ r.file.disk = Content(r.file)
                                         /\ r.file.disk # << >>
                                         /\ r.file.disk[Len(r.file.disk)] = Event(kind)
  <1> DEFINE event == Event(kind)
             more == Emitted \union {event}
             All == Emitted \union {Torn}
             Wide == more \union {Torn}
  <1>1. seq \in Nat /\ Emitted \in SUBSET Envelope /\ \A e \in Emitted : e.seq < seq
    BY EmittedIsEnvelopes DEF Scalars
  <1>2. event \in Envelope /\ event.seq = seq /\ event.kind = kind
    BY <1>1 DEF Event, Envelope
  <1>3. Newest(event, Emitted)
    BY <1>1, <1>2 DEF Newest
  <1>4. Sound(File, Emitted) /\ File.disk = disk
    BY DEF FileIsSound, File, Held
  <1>5. /\ LineOutcome(File, Emitted, event, r)
        /\ r.ok /\ event.kind \in Critical => Settled(r.file)
    BY <1>1, <1>3, <1>4, EmitLineKeeps
  <1>6. /\ r.ok \in BOOLEAN /\ Sound(r.file, more) /\ Extends(disk, r.file.disk)
        /\ r.ok => Content(r.file) = Behind(Content(File), event)
        /\ r.ok => (Untorn(disk) => Untorn(r.file.disk))
    BY <1>4, <1>5 DEF LineOutcome
  <1>7. event \in Wide /\ All \subseteq Wide /\ Content(File) \in Seq(All)
    BY <1>4, FileParts DEF Sound
  <1> HIDE DEF event, more, All, Wide
  <1>8. Content(File) \in Seq(Wide)
    BY <1>7, SeqMonotonic
  <1>9. ASSUME r.ok
        PROVE  /\ Len(Content(r.file)) = Len(Content(File)) + 1
               /\ Content(r.file) # << >>
               /\ \A k \in 1 .. Len(Content(File)) : Content(r.file)[k] = Content(File)[k]
               /\ Content(r.file)[Len(Content(File)) + 1] = event
    <2>1. Content(r.file) = Append(Content(File), event)
      BY <1>6, <1>9 DEF Behind
    <2> QED BY <2>1, <1>7, <1>8, AppendProperties
  <1>10. ASSUME r.ok, ~writerError
         PROVE  Untorn(r.file.disk) /\ Counted(Content(r.file), seq + 1)
    <2>1. Untorn(disk) /\ Counted(Content(File), seq)
      BY <1>10 DEF WholeUntilFailure
    <2>2. Len(Content(r.file)) = seq + 1
      BY <2>1, <1>9, <1>10 DEF Counted
    <2>3. ASSUME NEW k \in 1 .. (seq + 1) PROVE Content(r.file)[k].seq = k - 1
      <3>1. CASE k \in 1 .. seq
        BY <3>1, <2>1, <1>9, <1>10 DEF Counted
      <3>2. CASE k = seq + 1
        BY <3>2, <2>1, <1>1, <1>2, <1>9, <1>10 DEF Counted
      <3> QED BY <3>1, <3>2, <1>1
    <2> QED BY <2>1, <2>2, <2>3, <1>6, <1>10 DEF Counted
  <1>11. ASSUME r.ok, kind \in Critical
         PROVE  /\ Settled(r.file) /\ r.file.disk = Content(r.file)
                /\ r.file.disk # << >>
                /\ r.file.disk[Len(r.file.disk)] = event
    <2>1. Settled(r.file) /\ r.file \in Files(more)
      BY <1>2, <1>5, <1>6, <1>11 DEF Sound
    <2>2. r.file.disk = Content(r.file)
      BY <2>1, SettledContent
    <2> QED BY <2>1, <2>2, <1>9, <1>11
  <1> QED BY <1>6, <1>10, <1>11 DEF event, more

(* What is acknowledged after it.                                          *)
LEMMA AcknowledgeStep ==
  ASSUME Scalars, FileIsSound, WholeUntilFailure, AckedIsFirm, phase \in Open,
         NEW kind \in Kinds, NEW r \in EmitLine(File, Event(kind)),
         Acknowledge(Event(kind), r.ok)
  PROVE  /\ acked' \subseteq Emitted \union {Event(kind)}
         /\ \A e \in acked' : Firm(e, r.file.disk)
  <1> DEFINE event == Event(kind)
             All == (Emitted \union {event}) \union {Torn}
  <1>1. /\ r.ok \in BOOLEAN
        /\ Sound(r.file, Emitted \union {event})
        /\ Extends(disk, r.file.disk)
        /\ r.ok /\ ~writerError => Untorn(r.file.disk)
        /\ r.ok /\ kind \in Critical => /\ r.file.disk # << >>
                                        /\ r.file.disk[Len(r.file.disk)] = event
    BY EmitStep
  <1>2. r.file.disk \in Seq(All)
    BY <1>1, FileParts DEF Sound
  <1>3. disk \in Seq(All)
    <2>1. disk \in Seq(Emitted \union {Torn})
      BY FileParts DEF FileIsSound, Sound, File, Held
    <2>2. Emitted \union {Torn} \subseteq All
      OBVIOUS
    <2> QED BY <2>1, <2>2, SeqMonotonic, Zenon
  <1> HIDE DEF All
  <1>4. \A e \in acked : Firm(e, r.file.disk)
    BY <1>1, <1>2, <1>3, FirmExtends DEF AckedIsFirm
  <1>5. event.kind = kind
    BY DEF Event
  <1>6. CASE r.ok /\ ~writerError /\ kind \in Essential
    <2>1. kind \in Critical
      BY <1>6 DEF Essential, Critical
    <2>2. Firm(event, r.file.disk)
      BY <1>1, <1>2, <1>6, <2>1, LastIsFirm
    <2>3. acked' = acked \union {event}
      BY <1>5, <1>6 DEF Acknowledge
    <2> QED BY <2>2, <2>3, <1>4 DEF FileIsSound
  <1>7. CASE ~(r.ok /\ ~writerError /\ kind \in Essential)
    <2>1. acked' = acked
      BY <1>5, <1>7 DEF Acknowledge
    <2> QED BY <2>1, <1>4 DEF FileIsSound
  <1> QED BY <1>6, <1>7

(* The file a step leaves, in terms of the next state.                     *)
LEMMA FileAfter ==
  ASSUME NEW events, NEW file, Sound(file, events), SetFile(file),
         compress' = compress, events \subseteq Emitted'
  PROVE  /\ Sound(File, Emitted)'
         /\ File' = file /\ disk' = file.disk
  <1>1. file \in Files(events) /\ file \in Files(Emitted')
    BY MoreEvents DEF Sound
  <1>2. File' = file
    BY <1>1, FileParts DEF File, Held, SetFile
  <1>3. Sound(File, Emitted)'
    BY <1>1, <1>2 DEF Sound, InOrder, Rising, AllBefore, Before
  <1> QED BY <1>2, <1>3 DEF SetFile

LEMMA EmittedGrows ==
  ASSUME seq \in Nat, phase \in Open, NEW kind \in Kinds, seq' = seq + 1,
         kind \in TerminalKinds => phase' \in Closed /\ kind = termination'
  PROVE  Emitted \union {Event(kind)} \subseteq Emitted'
  <1>1. phase \notin Closed
    BY DEF Open, Closed
  <1>2. ASSUME NEW e \in Emitted PROVE e \in Emitted'
    <2>1. e \in [seq : 0 .. (seq - 1), kind : Kinds] /\ e.kind \notin TerminalKinds
      BY <1>1 DEF Emitted
    <2>2. e \in [seq : 0 .. (seq' - 1), kind : Kinds]
      BY <2>1
    <2> QED BY <2>1, <2>2 DEF Emitted
  <1>3. Event(kind) \in Emitted'
    <2>1. /\ Event(kind) \in [seq : 0 .. (seq' - 1), kind : Kinds]
          /\ Event(kind).kind = kind /\ Event(kind).seq = seq' - 1
      BY DEF Event
    <2> QED BY <2>1 DEF Emitted
  <1> QED BY <1>2, <1>3

LEMMA EmittedStays ==
  ASSUME seq' = seq, phase \in Open \/ (phase' \in Closed /\ termination' = termination)
  PROVE  Emitted \subseteq Emitted'
  <1>1. Open \intersect Closed = {}
    BY DEF Open, Closed
  <1> QED BY <1>1 DEF Emitted

(* The file when the process ends: what is in memory is gone.              *)
LEMMA FileAtEnd ==
  ASSUME NEW events \in SUBSET Envelope, NEW file, Sound(file, events),
         NEW d \in DropFile(file)
  PROVE  /\ Sound(Held(<< >>, << >>, d.file.disk), events)
         /\ Extends(file.disk, d.file.disk)
  <1> DEFINE to == Held(<< >>, << >>, d.file.disk)
  <1>1. Sound(d.file, events) /\ Extends(file.disk, d.file.disk)
    BY DropKeeps
  <1>2. d.file.disk \in Seq(events \union {Torn})
    BY <1>1, FileParts DEF Sound
  <1>3. to \in Files(events) /\ to.buffer = << >> /\ to.frame = << >> /\ to.disk = d.file.disk
    BY <1>2 DEF Files, Held
  <1> HIDE DEF to
  <1>4. Sound(to, events)
    BY <1>1, <1>3, LostIsSound
  <1> QED BY <1>1, <1>4 DEF to

LEMMA InitWInv == Init => WInv
  <1> SUFFICES ASSUME Init PROVE WInv
    OBVIOUS
  <1> USE DEF Init
  <1>1. Scalars /\ Phases
    <2>1. seq \in 0 .. (MaxEvents + 1) /\ seq < 2 /\ seq <= MaxEvents
      BY MaxEventsAssumption
    <2>2. /\ phase \in Open /\ terminalOk = terminalWritten
          /\ phase \notin {"terminal", "finalize"}
      BY DEF Open
    <2>3. Scalars
      BY <2>1, <2>2 DEF Scalars
    <2> QED BY <2>1, <2>2, <2>3 DEF Phases
  <1>2. File = Held(<< >>, << >>, << >>)
    BY DEF File
  <1>3. /\ File \in Files(Emitted) /\ File.disk = << >> /\ File.frame = << >>
        /\ File.buffer = << >>
    BY <1>2 DEF Files, Held
  <1>4. FileIsSound
    BY <1>3, EmptyInOrder DEF FileIsSound, Sound, InOrder
  <1>5. Content(File) = << >>
    BY <1>3, SettledContent DEF Settled
  <1>6. AckedIsFirm /\ WholeUntilFailure
    BY <1>5 DEF AckedIsFirm, WholeUntilFailure, Untorn, Counted
  <1>7. ClosedWhole /\ ExitedWhole /\ NamedWhole
    BY DEF ClosedWhole, ExitedWhole, NamedWhole
  <1> QED BY <1>1, <1>4, <1>6, <1>7 DEF WInv

LEMMA EmitHeaderStep ==
  ASSUME WInv, EmitHeader
  PROVE  WInv'
  <1> DEFINE kind == IF seq = 0 THEN "scan_started" ELSE "scan_config"
  <1>1. /\ phase = "header" /\ seq' = seq + 1
        /\ UNCHANGED <<compress, terminalWritten, writerError, termination, terminalOk, name>>
    BY DEF EmitHeader
  <1>2. PICK r \in EmitLine(File, Event(kind)) :
          /\ Acknowledge(Event(kind), r.ok)
          /\ IF r.ok
               THEN /\ SetFile(r.file)
                    /\ phase' = IF seq = 0 THEN "header" ELSE "body"
                    /\ UNCHANGED exit
               ELSE /\ \E d \in DropFile(r.file) : SetFile(Held(<< >>, << >>, d.file.disk))
                    /\ phase' = "exited"
                    /\ exit' = 3
    BY DEF EmitHeader
  <1>3. Scalars /\ Phases /\ FileIsSound /\ AckedIsFirm /\ WholeUntilFailure /\ NamedWhole
    BY DEF WInv
  <1>4. kind \in Kinds \ TerminalKinds /\ phase \in Open
    BY <1>1 DEF Kinds, TerminalKinds, BodyKinds, Open
  <1> HIDE DEF kind
  <1>5. /\ r.ok \in BOOLEAN
        /\ Sound(r.file, Emitted \union {Event(kind)})
        /\ Extends(disk, r.file.disk)
        /\ r.ok /\ ~writerError => Untorn(r.file.disk) /\ Counted(Content(r.file), seq + 1)
    BY <1>2, <1>3, <1>4, EmitStep
  <1>6. /\ acked' \subseteq Emitted \union {Event(kind)}
        /\ \A e \in acked' : Firm(e, r.file.disk)
    BY <1>2, <1>3, <1>4, AcknowledgeStep
  <1>7. seq \in {0, 1} /\ seq \in Nat
    BY <1>1, <1>3 DEF Scalars, Phases
  <1>8. Emitted \union {Event(kind)} \subseteq Emitted'
    BY <1>1, <1>4, <1>7, EmittedGrows
  <1>9. name' = "partial"
    BY <1>1, <1>3 DEF NamedWhole, Scalars
  <1>10. CASE r.ok
    <2>1. SetFile(r.file) /\ exit' = exit /\ phase' = IF seq = 0 THEN "header" ELSE "body"
      BY <1>2, <1>10
    <2>2. Scalars' /\ Phases'
      BY <1>1, <1>3, <1>7, <2>1, MaxEventsAssumption DEF Scalars, Phases, Open, Closed
    <2>3. Sound(File, Emitted)' /\ File' = r.file /\ disk' = r.file.disk
      BY <1>1, <1>5, <1>8, <2>1, FileAfter
    <2>4. FileIsSound' /\ AckedIsFirm'
      BY <1>6, <1>8, <2>3 DEF FileIsSound, AckedIsFirm
    <2>5. WholeUntilFailure'
      BY <1>1, <1>5, <1>10, <2>3 DEF WholeUntilFailure, Content
    <2>6. ClosedWhole' /\ ExitedWhole' /\ NamedWhole'
      BY <1>9, <2>1 DEF ClosedWhole, ExitedWhole, NamedWhole
    <2> QED BY <2>2, <2>4, <2>5, <2>6 DEF WInv
  <1>11. CASE ~r.ok
    <2>1. PICK d \in DropFile(r.file) : SetFile(Held(<< >>, << >>, d.file.disk))
      BY <1>2, <1>11
    <2>2. phase' = "exited" /\ exit' = 3
      BY <1>2, <1>11
    <2> DEFINE to == Held(<< >>, << >>, d.file.disk)
               events == Emitted \union {Event(kind)}
    <2>3. events \in SUBSET Envelope
      BY <1>1, <1>4, <1>7, EmittedIsEnvelopes DEF Event, Envelope
    <2>4. Sound(to, events) /\ Extends(r.file.disk, d.file.disk) /\ to.disk = d.file.disk
      <3> HIDE DEF events
      <3> QED BY <1>5, <2>1, <2>3, FileAtEnd DEF Held, events
    <2>5. SetFile(to)
      BY <2>1
    <2>6. r.file.disk \in Seq(events \union {Torn}) /\ to.disk \in Seq(events \union {Torn})
      <3> HIDE DEF to
      <3> QED BY <1>5, <2>4, FileParts DEF Sound
    <2> HIDE DEF to
    <2>7. Sound(File, Emitted)' /\ disk' = to.disk
      BY <1>1, <1>8, <2>4, <2>5, FileAfter
    <2>8. \A e \in acked' : Firm(e, to.disk)
      <3> HIDE DEF events
      <3> QED BY <1>6, <2>4, <2>6, FirmExtends
    <2>9. FileIsSound' /\ AckedIsFirm'
      BY <1>6, <1>8, <2>7, <2>8 DEF FileIsSound, AckedIsFirm
    <2>10. Scalars' /\ Phases'
      BY <1>1, <1>3, <1>7, <2>2, MaxEventsAssumption DEF Scalars, Phases, Open, Closed
    <2>11. WholeUntilFailure' /\ ClosedWhole' /\ ExitedWhole' /\ NamedWhole'
      BY <1>9, <2>2 DEF WholeUntilFailure, ClosedWhole, ExitedWhole, NamedWhole, Open
    <2> QED BY <2>9, <2>10, <2>11 DEF WInv
  <1> QED BY <1>5, <1>10, <1>11

LEMMA EmitBodyStep ==
  ASSUME WInv, EmitBody
  PROVE  WInv'
  <1>1. /\ phase = "body" /\ ~writerError /\ seq < MaxEvents /\ seq' = seq + 1
        /\ UNCHANGED <<compress, phase, terminalWritten, termination, terminalOk, name, exit>>
    BY DEF EmitBody
  <1>0. PICK kind \in BodyKinds :
          \E r \in EmitLine(File, Event(kind)) :
            SetFile(r.file) /\ writerError' = ~r.ok /\ Acknowledge(Event(kind), r.ok)
    BY DEF EmitBody
  <1>2. PICK r \in EmitLine(File, Event(kind)) :
          SetFile(r.file) /\ writerError' = ~r.ok /\ Acknowledge(Event(kind), r.ok)
    BY <1>0
  <1>3. Scalars /\ Phases /\ FileIsSound /\ AckedIsFirm /\ WholeUntilFailure /\ NamedWhole
    BY DEF WInv
  <1>4. kind \in Kinds \ TerminalKinds /\ phase \in Open
    BY <1>1 DEF Kinds, TerminalKinds, BodyKinds, Open
  <1>5. /\ r.ok \in BOOLEAN
        /\ Sound(r.file, Emitted \union {Event(kind)})
        /\ Extends(disk, r.file.disk)
        /\ r.ok /\ ~writerError => Untorn(r.file.disk) /\ Counted(Content(r.file), seq + 1)
    BY <1>2, <1>3, <1>4, EmitStep
  <1>6. /\ acked' \subseteq Emitted \union {Event(kind)}
        /\ \A e \in acked' : Firm(e, r.file.disk)
    BY <1>2, <1>3, <1>4, AcknowledgeStep
  <1>7. seq \in Nat
    BY <1>3 DEF Scalars
  <1>8. Emitted \union {Event(kind)} \subseteq Emitted'
    BY <1>1, <1>4, <1>7, EmittedGrows
  <1>9. Sound(File, Emitted)' /\ File' = r.file /\ disk' = r.file.disk
    BY <1>1, <1>2, <1>5, <1>8, FileAfter
  <1>10. FileIsSound' /\ AckedIsFirm'
    BY <1>6, <1>8, <1>9 DEF FileIsSound, AckedIsFirm
  <1>11. WholeUntilFailure'
    BY <1>1, <1>2, <1>5, <1>9 DEF WholeUntilFailure, Content
  <1>12. Scalars' /\ Phases'
    BY <1>1, <1>2, <1>3, <1>5, MaxEventsAssumption DEF Scalars, Phases, Open, Closed
  <1>13. ClosedWhole' /\ ExitedWhole' /\ NamedWhole'
    BY <1>1, <1>3 DEF ClosedWhole, ExitedWhole, NamedWhole
  <1> QED BY <1>10, <1>11, <1>12, <1>13 DEF WInv

LEMMA ChooseTerminationStep ==
  ASSUME WInv, ChooseTermination
  PROVE  WInv'
  <1>1. /\ phase = "body" /\ phase' = "terminal" /\ termination' \in TerminalKinds
        /\ UNCHANGED <<compress, seq, buffer, frame, disk, terminalWritten, writerError,
                       terminalOk, name, exit, acked>>
    BY DEF ChooseTermination, TerminalKinds
  <1>2. Scalars /\ Phases /\ FileIsSound /\ AckedIsFirm /\ WholeUntilFailure /\ NamedWhole
    BY DEF WInv
  <1>3. Scalars' /\ Phases'
    BY <1>1, <1>2 DEF Scalars, Phases, Open, Closed
  <1>4. Emitted \subseteq Emitted'
    BY <1>1, EmittedStays DEF Open
  <1>5. Sound(File, Emitted) /\ SetFile(File) /\ File.disk = disk
    BY <1>1, <1>2 DEF FileIsSound, SetFile, File, Held
  <1>6. Sound(File, Emitted)' /\ File' = File
    BY <1>1, <1>4, <1>5, FileAfter
  <1>7. FileIsSound' /\ AckedIsFirm'
    BY <1>1, <1>2, <1>4, <1>6 DEF FileIsSound, AckedIsFirm
  <1>8. WholeUntilFailure'
    BY <1>1, <1>2, <1>6 DEF WholeUntilFailure, Content, Open
  <1>9. ClosedWhole' /\ ExitedWhole' /\ NamedWhole'
    BY <1>1, <1>2 DEF ClosedWhole, ExitedWhole, NamedWhole
  <1> QED BY <1>3, <1>7, <1>8, <1>9 DEF WInv

LEMMA EmitTerminalStep ==
  ASSUME WInv, EmitTerminal
  PROVE  WInv'
  <1>1. /\ phase = "terminal" /\ phase' = "finalize" /\ seq' = seq + 1
        /\ UNCHANGED <<compress, writerError, termination, name, exit>>
    BY DEF EmitTerminal
  <1>2. PICK r \in EmitLine(File, Event(termination)) :
          /\ SetFile(r.file) /\ terminalOk' = r.ok /\ terminalWritten' = r.ok
          /\ Acknowledge(Event(termination), r.ok)
    BY DEF EmitTerminal
  <1>3. Scalars /\ Phases /\ FileIsSound /\ AckedIsFirm /\ WholeUntilFailure /\ NamedWhole
    BY DEF WInv
  <1>4. termination \in TerminalKinds /\ phase \in Open /\ phase' \in Closed
    BY <1>1, <1>3 DEF Phases, Open, Closed
  <1>5. termination \in Kinds /\ termination \in Critical
    BY <1>4 DEF Kinds, TerminalKinds, Critical
  <1>6. /\ r.ok \in BOOLEAN
        /\ Sound(r.file, Emitted \union {Event(termination)})
        /\ Extends(disk, r.file.disk)
        /\ r.ok /\ ~writerError => Untorn(r.file.disk) /\ Counted(Content(r.file), seq + 1)
        /\ r.ok => /\ Settled(r.file)
                   /\ r.file.disk = Content(r.file)
                   /\ r.file.disk # << >>
                   /\ r.file.disk[Len(r.file.disk)] = Event(termination)
    BY <1>2, <1>3, <1>4, <1>5, EmitStep
  <1>7. /\ acked' \subseteq Emitted \union {Event(termination)}
        /\ \A e \in acked' : Firm(e, r.file.disk)
    BY <1>2, <1>3, <1>4, <1>5, AcknowledgeStep
  <1>8. seq \in Nat /\ seq <= MaxEvents /\ seq' - 1 = seq
    BY <1>1, <1>3, <1>4 DEF Scalars, Phases
  <1>9. Emitted \union {Event(termination)} \subseteq Emitted'
    BY <1>1, <1>4, <1>5, <1>8, EmittedGrows
  <1>10. Sound(File, Emitted)' /\ File' = r.file /\ disk' = r.file.disk
    BY <1>1, <1>2, <1>6, <1>9, FileAfter
  <1>11. FileIsSound' /\ AckedIsFirm'
    BY <1>7, <1>9, <1>10 DEF FileIsSound, AckedIsFirm
  <1>12. Scalars' /\ Phases'
    <2>1. seq' \in 0 .. (MaxEvents + 1)
      BY <1>1, <1>8, MaxEventsAssumption
    <2>2. phase' = "finalize" /\ phase' \notin Open
      BY <1>1 DEF Open
    <2>3. Scalars'
      BY <1>1, <1>2, <1>3, <1>4, <1>6, <2>1 DEF Scalars
    <2> QED BY <1>1, <1>2, <1>4, <2>2, <2>3 DEF Phases
  <1>13. WholeUntilFailure'
    BY <1>1 DEF WholeUntilFailure, Open
  <1>14. ClosedWhole'
    <2> SUFFICES ASSUME terminalOk'
                 PROVE  /\ Settled(File)' /\ EndsWithTerminal'
                        /\ (~writerError)' => Untorn(disk)' /\ Counted(disk, seq)'
      BY DEF ClosedWhole
    <2>1. r.ok
      BY <1>2
    <2>2. Settled(File)'
      BY <1>6, <1>10, <2>1 DEF Settled
    <2>3. EndsWithTerminal'
      <3>1. disk' # << >> /\ disk'[Len(disk')] = Event(termination)
        BY <1>6, <1>10, <2>1
      <3>2. Event(termination) = [seq |-> seq' - 1, kind |-> termination']
        BY <1>1, <1>8 DEF Event
      <3> QED BY <3>1, <3>2 DEF EndsWithTerminal
    <2>4. (~writerError)' => Untorn(disk') /\ Counted(disk', seq')
      BY <1>1, <1>6, <1>10, <2>1
    <2> QED BY <2>2, <2>3, <2>4 DEF Untorn, Counted
  <1>15. ExitedWhole' /\ NamedWhole'
    BY <1>1, <1>3 DEF ExitedWhole, NamedWhole
  <1> QED BY <1>11, <1>12, <1>13, <1>14, <1>15 DEF WInv

LEMMA FinalizeStep ==
  ASSUME WInv, Finalize
  PROVE  WInv'
  <1>1. /\ phase = "finalize" /\ phase' = "exited" /\ exit' = ExitCode
        /\ UNCHANGED <<compress, seq, terminalWritten, writerError, termination, terminalOk,
                       acked>>
    BY DEF Finalize
  <1>2. PICK r \in Flush(File) :
          \E d \in DropFile(r.file) :
            /\ SetFile(Held(<< >>, << >>, d.file.disk))
            /\ name' \in IF r.ok /\ terminalWritten
                           THEN {"final", "partial"} ELSE {"partial"}
    BY DEF Finalize
  <1>3. PICK d \in DropFile(r.file) :
          /\ SetFile(Held(<< >>, << >>, d.file.disk))
          /\ name' \in IF r.ok /\ terminalWritten THEN {"final", "partial"} ELSE {"partial"}
    BY <1>2
  <1>4. Scalars /\ Phases /\ FileIsSound /\ AckedIsFirm /\ ClosedWhole
    BY DEF WInv
  <1>5. Emitted \in SUBSET Envelope /\ Sound(File, Emitted) /\ File.disk = disk
    BY <1>4, EmittedIsEnvelopes DEF FileIsSound, File, Held, Scalars
  <1>6. Sound(r.file, Emitted) /\ Extends(disk, r.file.disk)
    BY <1>5, FlushKeeps DEF Outcome
  <1> DEFINE to == Held(<< >>, << >>, d.file.disk)
             All == Emitted \union {Torn}
  <1>7. Sound(to, Emitted) /\ Extends(r.file.disk, d.file.disk) /\ to.disk = d.file.disk
    BY <1>5, <1>6, FileAtEnd DEF Held
  <1>8. SetFile(to)
    BY <1>3
  <1> HIDE DEF to
  <1>9. disk \in Seq(All) /\ r.file.disk \in Seq(All) /\ to.disk \in Seq(All)
    BY <1>5, <1>6, <1>7, FileParts DEF Sound
  <1>10. Extends(disk, to.disk)
    <2> HIDE DEF All
    <2> QED BY <1>6, <1>7, <1>9, ExtendsTransitive
  <1>11. Emitted \subseteq Emitted'
    BY <1>1, EmittedStays DEF Closed
  <1>12. Sound(File, Emitted)' /\ disk' = to.disk
    BY <1>1, <1>7, <1>8, <1>11, FileAfter
  <1>13. \A e \in acked : Firm(e, to.disk)
    <2> HIDE DEF All
    <2> QED BY <1>4, <1>9, <1>10, FirmExtends DEF AckedIsFirm
  <1>14. FileIsSound' /\ AckedIsFirm'
    BY <1>1, <1>4, <1>11, <1>12, <1>13 DEF FileIsSound, AckedIsFirm
  <1>15. ASSUME terminalOk
         PROVE  disk' = disk /\ EndsWithTerminal /\ (~writerError => Untorn(disk) /\ Counted(disk, seq))
    <2>1. Settled(File) /\ EndsWithTerminal /\ (~writerError => Untorn(disk) /\ Counted(disk, seq))
      BY <1>1, <1>4, <1>15 DEF ClosedWhole
    <2>2. r = Ok(File)
      BY <1>2, <2>1, SettledStays
    <2>3. r.file = File
      BY <2>2 DEF Ok
    <2>4. d = Ok(File)
      BY <1>3, <2>1, <2>3, SettledStays
    <2>5. d.file.disk = disk
      BY <1>5, <2>4 DEF Ok
    <2> QED BY <1>7, <1>12, <2>1, <2>5
  <1>16. /\ ExitCode \in {0, 2, 3, 130}
         /\ ExitCode # 3 => ~writerError /\ terminalOk
    BY <1>1, <1>4 DEF ExitCode, Phases, TerminalKinds
  <1>17. ExitedWhole'
    <2> SUFFICES ASSUME exit' # 3
                 PROVE  Untorn(disk') /\ Counted(disk', seq')
      BY DEF ExitedWhole, Untorn, Counted
    <2> QED BY <1>1, <1>15, <1>16
  <1>18. NamedWhole'
    <2> SUFFICES ASSUME name' = "final"
                 PROVE  EndsWithTerminal'
      BY <1>1 DEF NamedWhole
    <2>1. terminalOk
      BY <1>3, <1>4 DEF Phases
    <2> QED BY <1>1, <1>15, <2>1 DEF EndsWithTerminal
  <1>19. Scalars' /\ Phases'
    <2>1. phase' \notin Open /\ phase' \notin {"terminal", "finalize"} /\ phase' # "header"
      BY <1>1 DEF Open
    <2>2. name' \in {"partial", "final"} /\ exit' \in {-1, 0, 2, 3, 130} /\ phase' \in Closed
      BY <1>1, <1>3, <1>16 DEF Closed
    <2>3. Scalars'
      BY <1>1, <1>4, <2>2 DEF Scalars
    <2> QED BY <1>1, <1>4, <2>1, <2>3 DEF Phases
  <1>20. WholeUntilFailure' /\ ClosedWhole'
    BY <1>1 DEF WholeUntilFailure, ClosedWhole, Open
  <1> QED BY <1>14, <1>17, <1>18, <1>19, <1>20 DEF WInv

LEMMA KillStep ==
  ASSUME WInv, Kill
  PROVE  WInv'
  <1>1. /\ phase \notin {"exited", "killed"} /\ phase' = "killed"
        /\ disk' \in {disk, Append(disk, Torn)} /\ buffer' = << >> /\ frame' = << >>
        /\ UNCHANGED <<compress, seq, terminalWritten, writerError, termination, terminalOk,
                       name, exit, acked>>
    BY DEF Kill
  <1>2. Scalars /\ Phases /\ FileIsSound /\ AckedIsFirm /\ NamedWhole
    BY DEF WInv
  <1> DEFINE to == Held(<< >>, << >>, disk')
             All == Emitted \union {Torn}
  <1>3. Sound(File, Emitted) /\ File.disk = disk
    BY <1>2 DEF FileIsSound, File, Held
  <1>4. disk \in Seq(All)
    BY <1>3, FileParts DEF Sound
  <1>5. disk' \in Seq(All)
    <2>1. Torn \in All
      OBVIOUS
    <2> HIDE DEF All
    <2> QED BY <1>1, <1>4, <2>1, AppendProperties
  <1>6. /\ to \in Files(Emitted) /\ to.buffer = << >> /\ to.frame = << >>
        /\ to.disk \in {File.disk, Append(File.disk, Torn)} /\ to.disk = disk'
    BY <1>1, <1>3, <1>5 DEF Files, Held
  <1>7. SetFile(to)
    BY <1>1, <1>6 DEF SetFile
  <1> HIDE DEF to
  <1>8. Sound(to, Emitted) /\ Extends(disk, to.disk)
    BY <1>3, <1>6, LostIsSound
  <1>9. Emitted \subseteq Emitted'
    BY <1>1, EmittedStays DEF Closed
  <1>10. Sound(File, Emitted)'
    BY <1>1, <1>7, <1>8, <1>9, FileAfter
  <1>11. \A e \in acked : Firm(e, disk')
    <2> HIDE DEF All
    <2> QED BY <1>2, <1>4, <1>5, <1>6, <1>8, FirmExtends DEF AckedIsFirm
  <1>12. FileIsSound' /\ AckedIsFirm'
    BY <1>1, <1>2, <1>9, <1>10, <1>11 DEF FileIsSound, AckedIsFirm
  <1>13. Scalars' /\ Phases'
    BY <1>1, <1>2 DEF Scalars, Phases, Open, Closed
  <1>14. WholeUntilFailure' /\ ClosedWhole' /\ ExitedWhole' /\ NamedWhole'
    BY <1>1, <1>2 DEF WholeUntilFailure, ClosedWhole, ExitedWhole, NamedWhole, Open
  <1> QED BY <1>12, <1>13, <1>14 DEF WInv

LEMMA StutterStep ==
  ASSUME WInv, UNCHANGED vars
  PROVE  WInv'
  <1>1. /\ compress' = compress /\ phase' = phase /\ seq' = seq /\ buffer' = buffer
        /\ frame' = frame /\ disk' = disk /\ terminalWritten' = terminalWritten
        /\ writerError' = writerError /\ termination' = termination
        /\ terminalOk' = terminalOk /\ name' = name /\ exit' = exit /\ acked' = acked
    BY DEF vars
  <1>2. File' = File /\ Emitted' = Emitted
    BY <1>1 DEF File, Held, Emitted
  <1>3. Scalars' /\ Phases'
    BY <1>1 DEF WInv, Scalars, Phases
  <1>4. FileIsSound'
    BY <1>1, <1>2 DEF WInv, FileIsSound, Sound, InOrder, Rising, AllBefore, Before
  <1>5. AckedIsFirm' /\ WholeUntilFailure'
    BY <1>1, <1>2 DEF WInv, AckedIsFirm, WholeUntilFailure, Content, Untorn, Counted
  <1>6. ClosedWhole' /\ ExitedWhole' /\ NamedWhole'
    BY <1>1, <1>2 DEF WInv, ClosedWhole, ExitedWhole, NamedWhole, EndsWithTerminal,
                      Settled, Untorn, Counted
  <1> QED BY <1>3, <1>4, <1>5, <1>6 DEF WInv

LEMMA NextWInv == WInv /\ [Next]_vars => WInv'
  <1> SUFFICES ASSUME WInv, [Next]_vars PROVE WInv'
    OBVIOUS
  <1>1. CASE EmitHeader
    BY <1>1, EmitHeaderStep
  <1>2. CASE EmitBody
    BY <1>2, EmitBodyStep
  <1>3. CASE ChooseTermination
    BY <1>3, ChooseTerminationStep
  <1>4. CASE EmitTerminal
    BY <1>4, EmitTerminalStep
  <1>5. CASE Finalize
    BY <1>5, FinalizeStep
  <1>6. CASE Kill
    BY <1>6, KillStep
  <1>7. CASE UNCHANGED vars
    BY <1>7, StutterStep
  <1> QED BY <1>1, <1>2, <1>3, <1>4, <1>5, <1>6, <1>7 DEF Next, Over

LEMMA WriterInvariant == Spec => []WInv
  BY InitWInv, NextWInv, PTL DEF Spec

-----------------------------------------------------------------------------
(* What a reader gets: the longest prefix of the file with no torn member. *)

LEMMA ReadablePrefix ==
  ASSUME NEW E, disk \in Seq(E)
  PROVE  \E n \in 0 .. Len(disk) :
           /\ Len(Readable) = n
           /\ DOMAIN Readable = 1 .. n
           /\ \A k \in 1 .. n : Readable[k] = disk[k] /\ disk[k] # Torn
           /\ n < Len(disk) => disk[n + 1] = Torn
  <1> DEFINE I == {i \in 1 .. Len(disk) : disk[i] = Torn}
             cut == IF I # {} THEN Min(I) ELSE 0
  <1>1. Readable = IF cut = 0 THEN disk ELSE SubSeq(disk, 1, cut - 1)
    BY DEF Readable, SelectInSeq
  <1>2. Len(disk) \in Nat
    OBVIOUS
  <1>3. CASE I = {}
    <2>1. Readable = disk
      BY <1>1, <1>3
    <2>2. \A k \in 1 .. Len(disk) : disk[k] # Torn
      BY <1>3
    <2> QED BY <1>2, <2>1, <2>2
  <1>4. CASE I # {}
    <2>1. I \in SUBSET Nat
      OBVIOUS
    <2> DEFINE m == Min(I)
    <2>2. m \in I /\ \A y \in I : m <= y
      <3> HIDE DEF I
      <3> QED BY <1>4, <2>1, LeastNatural
    <2>3. cut = m
      BY <1>4
    <2> HIDE DEF m, cut
    <2>4. m \in 1 .. Len(disk) /\ disk[m] = Torn
      BY <2>2
    <2>5. Readable = SubSeq(disk, 1, m - 1) /\ m - 1 \in 0 .. Len(disk)
      BY <1>1, <2>3, <2>4
    <2>6. \A k \in 1 .. (m - 1) : disk[k] # Torn
      BY <2>2, <2>4
    <2>7. /\ Len(Readable) = m - 1 /\ DOMAIN Readable = 1 .. (m - 1)
          /\ \A k \in DOMAIN Readable : Readable[k] = disk[k]
      BY <2>5, PrefixParts
    <2> QED BY <2>4, <2>5, <2>6, <2>7
  <1> QED BY <1>3, <1>4

LEMMA ReadableWhole ==
  ASSUME NEW E, disk \in Seq(E), Untorn(disk)
  PROVE  Len(Readable) = Len(disk) /\ \A k \in 1 .. Len(disk) : Readable[k] = disk[k]
  <1>1. PICK n \in 0 .. Len(disk) :
          /\ Len(Readable) = n
          /\ \A k \in 1 .. n : Readable[k] = disk[k]
          /\ n < Len(disk) => disk[n + 1] = Torn
    BY ReadablePrefix
  <1>2. n = Len(disk)
    BY <1>1 DEF Untorn
  <1> QED BY <1>1, <1>2

(* A record is whole if its events are numbered from zero on.              *)
LEMMA CountedIsWhole ==
  ASSUME NEW s, DOMAIN s = 1 .. Len(s), Counted(s, seq)
  PROVE  Whole(s)
  BY DEF Counted, Whole, Numbers

LEMMA FileTypes == WInv => /\ disk \in Seq(Emitted \union {Torn})
                           /\ Content(File) \in Seq(Emitted \union {Torn})
                           /\ Rising(disk)
  BY FileParts DEF WInv, FileIsSound, Sound, InOrder, File, Held

LEMMA ReadableIsDurable == WInv => CriticalIsDurable
  <1> SUFFICES ASSUME WInv, NEW event \in acked
               PROVE  \E k \in DOMAIN Readable : Readable[k] = event
    BY DEF CriticalIsDurable
  <1>1. PICK k \in DOMAIN disk : disk[k] = event /\ \A j \in 1 .. k : disk[j] # Torn
    BY DEF WInv, AckedIsFirm, Firm
  <1>2. disk \in Seq(Emitted \union {Torn})
    BY FileTypes
  <1>3. PICK n \in 0 .. Len(disk) :
          /\ DOMAIN Readable = 1 .. n
          /\ \A i \in 1 .. n : Readable[i] = disk[i]
          /\ n < Len(disk) => disk[n + 1] = Torn
    BY <1>2, ReadablePrefix
  <1>4. k \in 1 .. Len(disk)
    BY <1>2
  <1>5. k <= n
    <2> SUFFICES ASSUME n < k PROVE FALSE
      BY <1>4
    <2>1. n < Len(disk) /\ n + 1 \in 1 .. k
      BY <1>4
    <2> QED BY <2>1, <1>1, <1>3
  <1> QED BY <1>1, <1>3, <1>4, <1>5

LEMMA ReadableIsOrdered == WInv => OrderedAndOnce
  <1> SUFFICES ASSUME WInv, NEW k \in DOMAIN Readable, NEW j \in 1 .. (k - 1)
               PROVE  /\ Readable[j].seq < Readable[k].seq
                      /\ Readable[j].kind \notin TerminalKinds
    BY DEF OrderedAndOnce
  <1>1. disk \in Seq(Emitted \union {Torn}) /\ Rising(disk)
    BY FileTypes
  <1>2. PICK n \in 0 .. Len(disk) :
          /\ DOMAIN Readable = 1 .. n
          /\ \A i \in 1 .. n : Readable[i] = disk[i] /\ disk[i] # Torn
    BY <1>1, ReadablePrefix
  <1>3. k \in DOMAIN disk /\ j \in DOMAIN disk /\ k \in 1 .. n /\ j \in 1 .. n
    BY <1>1, <1>2
  <1>4. /\ Readable[k] = disk[k] /\ disk[k] # Torn
        /\ Readable[j] = disk[j] /\ disk[j] # Torn
    BY <1>2, <1>3
  <1>5. disk[j].seq < disk[k].seq
    BY <1>1, <1>3, <1>4 DEF Rising, Before
  <1>6. disk[j] \in Emitted /\ disk[k] \in Emitted
    BY <1>1, <1>3, <1>4
  <1>7. seq \in Nat /\ disk[k].seq \in 0 .. (seq - 1) /\ disk[j].seq \in 0 .. (seq - 1)
    BY <1>6 DEF Emitted, WInv, Scalars
  <1>8. disk[j].kind \notin TerminalKinds
    <2> SUFFICES ASSUME disk[j].kind \in TerminalKinds PROVE FALSE
      OBVIOUS
    <2>1. disk[j].seq = seq - 1
      BY <1>6 DEF Emitted
    <2> QED BY <2>1, <1>5, <1>7
  <1> QED BY <1>4, <1>5, <1>8

LEMMA LossIsNoticed == WInv => NothingIsLostSilently
  <1> SUFFICES ASSUME WInv PROVE NothingIsLostSilently
    OBVIOUS
  <1>1. disk \in Seq(Emitted \union {Torn}) /\ Content(File) \in Seq(Emitted \union {Torn})
    BY FileTypes
  <1>2. Content(File) = disk \o frame \o buffer
    BY DEF Content, File, Held
  <1>3. ASSUME phase \in {"header", "body", "terminal"}, ~writerError
        PROVE  Whole(disk \o frame \o buffer)
    <2>1. Counted(Content(File), seq)
      BY <1>3 DEF WInv, WholeUntilFailure, Open
    <2>2. DOMAIN Content(File) = 1 .. Len(Content(File))
      BY <1>1
    <2>3. Whole(Content(File))
      BY <2>1, <2>2, CountedIsWhole
    <2> QED BY <2>3, <1>2
  <1>4. ASSUME phase = "exited", exit # 3
        PROVE  Whole(Readable)
    <2>1. Untorn(disk) /\ Counted(disk, seq)
      BY <1>4 DEF WInv, ExitedWhole
    <2>2. Len(Readable) = Len(disk) /\ \A k \in 1 .. Len(disk) : Readable[k] = disk[k]
      BY <1>1, <2>1, ReadableWhole
    <2>3. DOMAIN Readable = 1 .. Len(Readable)
      BY <1>1, ReadablePrefix
    <2>4. Counted(Readable, seq)
      BY <2>1, <2>2 DEF Counted
    <2> QED BY <2>3, <2>4, CountedIsWhole
  <1> QED BY <1>3, <1>4 DEF NothingIsLostSilently

-----------------------------------------------------------------------------
(* The theorems.                                                           *)

(* Whatever is written, in whatever layer it waits, the state of the       *)
(* writer is well-typed, and no event has a number that was not given out. *)
THEOREM WriterTypeCorrect == Spec => []TypeOK
  <1>1. WInv => TypeOK
    <2> SUFFICES ASSUME WInv PROVE TypeOK
      OBVIOUS
    <2> DEFINE Events == [seq : 0 .. (seq - 1), kind : Kinds]
    <2>1. Emitted \subseteq Events /\ Emitted \union {Torn} \subseteq Events \union {Torn}
      BY DEF Emitted
    <2>2. /\ buffer \in Seq(Emitted) /\ frame \in Seq(Emitted)
          /\ disk \in Seq(Emitted \union {Torn}) /\ acked \subseteq Emitted
      BY FileParts, FileTypes DEF WInv, FileIsSound, Sound, File, Held
    <2>3. /\ buffer \in Seq(Events) /\ frame \in Seq(Events)
          /\ disk \in Seq(Events \union {Torn}) /\ acked \subseteq Events
      <3> HIDE DEF Events
      <3> QED BY <2>1, <2>2, SeqMonotonic, Zenon
    <2> QED BY <2>3 DEF WInv, Scalars, TypeOK, Open, Closed
  <1> QED BY <1>1, WriterInvariant, PTL

(* An event other than a single row is readable from the file from the     *)
(* moment its emit returned Ok, for any number of events and failures: a   *)
(* kill at any later point does not lose it.                               *)
THEOREM CriticalSurvives == Spec => []CriticalIsDurable
  BY WriterInvariant, ReadableIsDurable, PTL

(* Whatever was refused, written again, torn or lost on the way, a reader  *)
(* of the record meets no event twice and none out of order, and nothing   *)
(* behind the terminal event.                                              *)
THEOREM RecordIsOrdered == Spec => []OrderedAndOnce
  BY WriterInvariant, ReadableIsOrdered, PTL

(* Until a write is reported to have failed every event is accounted for   *)
(* in the layers, and a process that exits with any code but 3 leaves them *)
(* all in the file.                                                        *)
THEOREM FailureIsReported == Spec => []NothingIsLostSilently
  BY WriterInvariant, LossIsNoticed, PTL

(* A record gets its final name only once its terminal event is its last.  *)
THEOREM FinalNameIsEarned == Spec => []FinalHasTerminal
  <1>1. WInv => FinalHasTerminal
    BY DEF WInv, NamedWhole, EndsWithTerminal, FinalHasTerminal, Last
  <1> QED BY <1>1, WriterInvariant, PTL

=============================================================================
