--------------------------- MODULE CallSetupProofs ---------------------------
(***************************************************************************)
(* Theorems of Identifiers, TtlPolicy and CallSetup.                       *)
(***************************************************************************)
EXTENDS CallSetup, SequenceTheorems, WellFoundedInduction, TLAPS

\* The least and the greatest of some indices.
LEMMA LeastIndex ==
    ASSUME NEW I, I \subseteq Nat, I # {}
    PROVE  Min(I) \in I /\ \A i \in I : Min(I) <= i
<1>1. \E x \in I : \A y \in I : ~(<<y, x>> \in OpToRel(<, Nat))
  BY NatLessThanWellFounded, WFMin
<1>2. PICK x \in I : \A y \in I : ~(<<y, x>> \in OpToRel(<, Nat))
  BY <1>1
<1>3. ASSUME NEW y \in I PROVE x <= y
  <2>1. x \in Nat /\ y \in Nat
    OBVIOUS
  <2>2. <<y, x>> \in Nat \X Nat /\ <<y, x>>[1] = y /\ <<y, x>>[2] = x
    BY <2>1
  <2>3. ~(y < x)
    BY <1>2, <2>2, ZenonT(30) DEF OpToRel
  <2> QED
    BY <2>1, <2>3
<1> QED
  BY <1>3 DEF Min

LEMMA GreatestIndex ==
    ASSUME NEW n \in Nat, NEW I, I \subseteq 1..n, I # {}
    PROVE  Max(I) \in I /\ \A i \in I : i <= Max(I)
<1> DEFINE Mirrored == {n - i : i \in I}
<1>1. Mirrored \subseteq Nat /\ Mirrored # {}
  <2>1. \A i \in I : n - i \in Nat
    OBVIOUS
  <2> QED
    BY <2>1
<1>2. PICK x \in Mirrored : \A y \in Mirrored : x <= y
  BY <1>1, LeastIndex
<1>3. PICK i \in I : x = n - i
  OBVIOUS
<1>4. \A j \in I : n - j \in Mirrored
  OBVIOUS
<1>5. \A j \in I : j <= i
  BY <1>2, <1>3, <1>4
<1> QED
  BY <1>5 DEF Max

------------------------------------------------------------------------------
(***************************************************************************)
(* Identifiers                                                             *)
(***************************************************************************)
Visible(text) == {i \in 1..Len(text) : text[i] # Blank}

LEMMA StripBlank ==
    ASSUME NEW text \in Seq(Characters), Visible(text) = {}
    PROVE  Strip(text) = <<>>
  BY DEF Strip, SelectInSeq, Visible

LEMMA StripVisible ==
    ASSUME NEW text \in Seq(Characters), Visible(text) # {}
    PROVE  \E first \in Visible(text), last \in Visible(text) :
               /\ \A i \in Visible(text) : first <= i /\ i <= last
               /\ Strip(text) = SubSeq(text, first, last)
<1> DEFINE I == Visible(text)
<1>1. I \subseteq Nat /\ I \subseteq 1..Len(text) /\ Len(text) \in Nat
  BY DEF Visible
<1>2. Min(I) \in I /\ \A i \in I : Min(I) <= i
  BY <1>1, LeastIndex
<1>3. Max(I) \in I /\ \A i \in I : i <= Max(I)
  BY <1>1, GreatestIndex
<1>4. Strip(text) = SubSeq(text, Min(I), Max(I))
  <2>1. Min(I) # 0
    BY <1>1, <1>2
  <2> QED
    BY <2>1 DEF Strip, SelectInSeq, SelectLastInSeq, Visible
<1> QED
  BY <1>2, <1>3, <1>4

LEMMA StripTyped ==
    ASSUME NEW text \in Seq(Characters)
    PROVE  /\ Strip(text) \in Seq(Characters)
           /\ ColonFree(Strip(text)) => ColonFree(text)
<1> USE IdentifiersAssumption
<1>1. CASE Visible(text) = {}
  <2>1. \A i \in 1..Len(text) : text[i] = Blank
    BY <1>1 DEF Visible
  <2>2. DOMAIN text = 1..Len(text)
    BY LenProperties
  <2>3. Strip(text) = <<>> /\ <<>> \in Seq(Characters)
    BY <1>1, StripBlank
  <2>4. ColonFree(text)
    BY <2>1, <2>2 DEF ColonFree
  <2> QED
    BY <2>3, <2>4
<1>2. CASE Visible(text) # {}
  <2>1. PICK first \in Visible(text), last \in Visible(text) :
            /\ \A i \in Visible(text) : first <= i /\ i <= last
            /\ Strip(text) = SubSeq(text, first, last)
    BY <1>2, StripVisible
  <2>2. first \in 1..Len(text) /\ last \in 1..Len(text) /\ first <= last /\ Len(text) \in Nat
    BY <2>1, LenProperties DEF Visible
  <2>3. /\ Strip(text) \in Seq(Characters)
        /\ Len(Strip(text)) = last - first + 1
        /\ \A i \in 1..(last - first + 1) : Strip(text)[i] = text[first + i - 1]
    <3>1. first \in Int /\ last \in Int /\ \A i \in first..last : text[i] \in Characters
      BY <2>2, LenProperties
    <3> QED
      BY <2>1, <2>2, <3>1, SubSeqProperties
  <2>4. ASSUME ColonFree(Strip(text)), NEW i \in DOMAIN text, text[i] = Colon
        PROVE  FALSE
    <3>1. i \in Visible(text) /\ i \in 1..Len(text)
      BY <2>4, LenProperties DEF Visible
    <3>2. i - first + 1 \in 1..(last - first + 1)
      BY <2>1, <2>2, <3>1
    <3>3. Strip(text)[i - first + 1] = Colon
      <4>1. first + (i - first + 1) - 1 = i
        BY <2>2, <3>1
      <4> QED
        BY <2>3, <2>4, <3>2, <4>1
    <3>4. i - first + 1 \in DOMAIN Strip(text)
      BY <2>3, <3>2, LenProperties
    <3> QED
      BY <2>4, <3>3, <3>4 DEF ColonFree
  <2> QED
    BY <2>3, <2>4 DEF ColonFree
<1> QED
  BY <1>1, <1>2

LEMMA StripIdempotent ==
    ASSUME NEW text \in Seq(Characters)
    PROVE  Strip(Strip(text)) = Strip(text)
<1>1. CASE Visible(text) = {}
  <2>1. Strip(text) = <<>> /\ <<>> \in Seq(Characters) /\ Visible(<<>>) = {}
    BY <1>1, StripBlank DEF Visible
  <2> QED
    BY <2>1, StripBlank
<1>2. CASE Visible(text) # {}
  <2>1. PICK first \in Visible(text), last \in Visible(text) :
            /\ \A i \in Visible(text) : first <= i /\ i <= last
            /\ Strip(text) = SubSeq(text, first, last)
    BY <1>2, StripVisible
  <2> DEFINE s == Strip(text)
             n == last - first + 1
  <2>2. first \in 1..Len(text) /\ last \in 1..Len(text) /\ first <= last /\ Len(text) \in Nat
    BY <2>1, LenProperties DEF Visible
  <2>3. /\ s \in Seq(Characters) /\ Len(s) = n
        /\ \A i \in 1..n : s[i] = text[first + i - 1]
    BY <2>1, <2>2, SubSeqProperties
  <2>4. 1 \in Visible(s) /\ n \in Visible(s)
    <3>1. first + 1 - 1 = first /\ first + n - 1 = last /\ 1 \in 1..n /\ n \in 1..n
      BY <2>2
    <3>2. s[1] = text[first] /\ s[n] = text[last]
      BY <2>3, <3>1
    <3>3. text[first] # Blank /\ text[last] # Blank
      BY DEF Visible
    <3> QED
      BY <2>3, <3>1, <3>2, <3>3 DEF Visible
  <2>5. PICK from \in Visible(s), to \in Visible(s) :
            /\ \A i \in Visible(s) : from <= i /\ i <= to
            /\ Strip(s) = SubSeq(s, from, to)
    <3> HIDE DEF s
    <3> QED
      BY <2>3, <2>4, StripVisible
  <2>6. from = 1 /\ to = n
    BY <2>2, <2>3, <2>4, <2>5 DEF Visible
  <2> QED
    BY <2>3, <2>5, <2>6, SubSeqFull
<1> QED
  BY <1>1, <1>2

LEMMA RedisKeyShape ==
    ASSUME NEW o \in Seq(Characters), NEW k \in Seq(Characters)
    PROVE  /\ RedisKey(o, k) \in Seq(Characters)
           /\ Len(RedisKey(o, k)) = Len(o) + 1 + Len(k)
           /\ \A i \in 1..Len(o) : RedisKey(o, k)[i] = o[i]
           /\ RedisKey(o, k)[Len(o) + 1] = Colon
           /\ \A i \in 1..Len(k) : RedisKey(o, k)[Len(o) + 1 + i] = k[i]
<1>1. <<Colon>> \in Seq(Characters) /\ Len(<<Colon>>) = 1 /\ <<Colon>>[1] = Colon
  BY IdentifiersAssumption
<1> DEFINE head == o \o <<Colon>>
<1>2. /\ head \in Seq(Characters) /\ Len(head) = Len(o) + 1
      /\ \A i \in 1..Len(o) : head[i] = o[i]
      /\ head[Len(o) + 1] = Colon
  BY <1>1, ConcatProperties, LenProperties
<1> HIDE DEF head
<1>3. /\ head \o k \in Seq(Characters) /\ Len(head \o k) = Len(o) + 1 + Len(k)
      /\ \A i \in 1..Len(o) + 1 : (head \o k)[i] = head[i]
      /\ \A i \in 1..Len(k) : (head \o k)[Len(o) + 1 + i] = k[i]
  <2>1. Len(o) \in Nat /\ Len(k) \in Nat
    BY LenProperties
  <2> QED
    BY <1>2, <2>1
<1>4. RedisKey(o, k) = head \o k
  BY DEF RedisKey, head
<1> QED
  BY <1>2, <1>3, <1>4, LenProperties

\* No two pairs of identifiers share a Redis key: it is enough that neither
\* operation has a colon in it (validate_no_colon, _make_key).
THEOREM KeysApart ==
    ASSUME NEW o \in Seq(Characters), NEW k \in Seq(Characters), ColonFree(o),
           NEW o2 \in Seq(Characters), NEW k2 \in Seq(Characters), ColonFree(o2),
           RedisKey(o, k) = RedisKey(o2, k2)
    PROVE  o = o2 /\ k = k2
<1> DEFINE r  == RedisKey(o, k)
           r2 == RedisKey(o2, k2)
<1>1. Len(o) \in Nat /\ Len(o2) \in Nat /\ Len(k) \in Nat /\ Len(k2) \in Nat
  BY LenProperties
<1>2. /\ \A i \in 1..Len(o) : r[i] = o[i]
      /\ r[Len(o) + 1] = Colon
      /\ \A i \in 1..Len(k) : r[Len(o) + 1 + i] = k[i]
      /\ Len(r) = Len(o) + 1 + Len(k)
  BY RedisKeyShape
<1>a. /\ \A i \in 1..Len(o2) : r2[i] = o2[i]
      /\ r2[Len(o2) + 1] = Colon
      /\ \A i \in 1..Len(k2) : r2[Len(o2) + 1 + i] = k2[i]
      /\ Len(r2) = Len(o2) + 1 + Len(k2)
  BY RedisKeyShape
<1>b. r = r2
  OBVIOUS
<1> HIDE DEF r, r2
<1>3. /\ \A i \in 1..Len(o2) : r[i] = o2[i]
      /\ r[Len(o2) + 1] = Colon
      /\ \A i \in 1..Len(k2) : r[Len(o2) + 1 + i] = k2[i]
      /\ Len(r) = Len(o2) + 1 + Len(k2)
  BY <1>a, <1>b
<1>4. DOMAIN o = 1..Len(o) /\ DOMAIN o2 = 1..Len(o2)
  BY LenProperties
<1>5. Len(o) = Len(o2)
  <2>1. ~(Len(o) < Len(o2))
    <3>1. ASSUME Len(o) < Len(o2) PROVE FALSE
      <4>1. Len(o) + 1 \in 1..Len(o2)
        BY <1>1, <3>1
      <4> QED
        BY <1>2, <1>3, <1>4, <4>1 DEF ColonFree
    <3> QED
      BY <3>1
  <2>2. ~(Len(o2) < Len(o))
    <3>1. ASSUME Len(o2) < Len(o) PROVE FALSE
      <4>1. Len(o2) + 1 \in 1..Len(o)
        BY <1>1, <3>1
      <4> QED
        BY <1>2, <1>3, <1>4, <4>1 DEF ColonFree
    <3> QED
      BY <3>1
  <2> QED
    BY <1>1, <2>1, <2>2
<1>6. o = o2
  <2>1. \A i \in 1..Len(o) : o[i] = o2[i]
    BY <1>2, <1>3, <1>5
  <2> QED
    BY <1>5, <2>1, SeqEqual
<1>7. Len(k) = Len(k2) /\ \A i \in 1..Len(k) : k[i] = k2[i]
  BY <1>1, <1>2, <1>3, <1>5
<1> QED
  BY <1>6, <1>7, SeqEqual

LEMMA ValidIsColonFree ==
    ASSUME NEW o \in Seq(Characters), NEW k \in Seq(Characters), ValidIdentifiers(o, k)
    PROVE  /\ ColonFree(o) /\ ColonFree(Strip(o))
           /\ Strip(o) \in Seq(Characters) /\ Strip(k) \in Seq(Characters)
  BY StripTyped DEF ValidIdentifiers, Fits

\* A padded key, or operation, reads nothing at all: get() and delete() use it
\* with its blanks, and save() and replace() store under no such key (_make_key).
THEOREM PaddedReadsNothing ==
    ASSUME NEW o \in Seq(Characters), NEW k \in Seq(Characters), ValidIdentifiers(o, k),
           NEW o2 \in Seq(Characters), NEW k2 \in Seq(Characters), ValidIdentifiers(o2, k2),
           ReadKey(o, k) = WriteKey(o2, k2)
    PROVE  /\ ~IsPadded(o) /\ ~IsPadded(k)
           /\ Strip(o) = Strip(o2) /\ Strip(k) = Strip(k2)
<1>1. o = Strip(o2) /\ k = Strip(k2)
  BY ValidIsColonFree, KeysApart DEF ReadKey, WriteKey
<1>2. Strip(Strip(o2)) = Strip(o2) /\ Strip(Strip(k2)) = Strip(k2)
  BY StripIdempotent
<1> QED
  BY <1>1, <1>2 DEF IsPadded

------------------------------------------------------------------------------
(***************************************************************************)
(* TTLs                                                                    *)
(***************************************************************************)
\* A result of the default TTL is always accepted (IdempotencyDomainService.__init__).
THEOREM DefaultAccepted ==
    ASSUME NEW service \in Services, AcceptsService(service)
    PROVE  AcceptsTtl(service, ResultSeconds(service, NoTtl))
  BY DEF AcceptsService, AcceptsTtl, ResultSeconds

\* The EX of a key covers what is left of its record, with less than a second over.
LEMMA ExCovers ==
    ASSUME NEW seconds \in Int, NEW late \in Nat, Writable(seconds, late)
    PROVE  /\ ExSeconds(seconds, late) \in Nat \ {0}
           /\ ExSeconds(seconds, late) * TicksPerSecond >= Remaining(seconds, late)
           /\ (ExSeconds(seconds, late) - 1) * TicksPerSecond < Remaining(seconds, late)
<1> DEFINE left == seconds * TicksPerSecond - late
           t    == TicksPerSecond
           ex   == (left + t - 1) \div t
<1>1. t \in Nat \ {0} /\ left \in Nat \ {0}
  BY TtlAssumption DEF Writable, Remaining
<1> HIDE DEF left, t
<1>2. /\ ex \in Int /\ t * ex <= left + t - 1 /\ left + t - 1 < t * ex + t
  BY <1>1
<1> HIDE DEF ex
<1>3. ex * t = t * ex /\ (ex - 1) * t = t * ex - t /\ t * ex \in Int
  BY <1>1, <1>2
<1>4. ex * t >= left /\ (ex - 1) * t < left
  BY <1>1, <1>2, <1>3
<1>5. ex > 0
  <2>1. ASSUME ex <= 0 PROVE FALSE
    <3>1. t * ex <= 0
      BY <1>1, <1>2, <2>1
    <3> QED
      BY <1>1, <1>3, <1>4, <3>1
  <2> QED
    BY <1>2, <2>1
<1> QED
  BY <1>1, <1>2, <1>4, <1>5 DEF ex, left, t, ExSeconds, Remaining

\* Whole minutes of a minute at least are never more than was asked for, nor a
\* minute less.
LEMMA WholeMinutes ==
    ASSUME NEW operationTtl \in Int \union {NoTtl}, NEW ttl \in Int \union {NoTtl},
           EffectiveTtl(operationTtl, ttl) # NoTtl
    PROVE  LET asked   == EffectiveTtl(operationTtl, ttl)
               minutes == ResolvedMinutes(operationTtl, ttl)
           IN  /\ minutes \in Int /\ minutes # NoTtl
               /\ asked >= 60 => 60 * minutes <= asked /\ asked < 60 * minutes + 60
<1> DEFINE asked == EffectiveTtl(operationTtl, ttl)
<1>1. asked \in Int
  BY DEF EffectiveTtl
<1>2. ResolvedMinutes(operationTtl, ttl) = AtLeastOne(asked \div 60)
  BY DEF ResolvedMinutes
<1> HIDE DEF asked
<1>3. /\ asked \div 60 \in Int
      /\ 60 * (asked \div 60) <= asked /\ asked < 60 * (asked \div 60) + 60
  BY <1>1
<1>4. /\ AtLeastOne(asked \div 60) \in Int
      /\ asked >= 60 => AtLeastOne(asked \div 60) = asked \div 60
  BY <1>1, <1>3 DEF AtLeastOne
<1> QED
  BY <1>1, <1>2, <1>3, <1>4, TtlAssumption DEF asked

------------------------------------------------------------------------------
(***************************************************************************)
(* The calls                                                               *)
(***************************************************************************)
SetUp == setup \in Setups /\ AcceptsService(setup.service)

Identified ==
    \A c \in Calls : call[c].pc \notin {"called", "plain"} =>
        /\ call[c].key \in DOMAIN Text
        /\ call[c].fingerprint = FingerprintOf(Made(c))

Validated ==
    \A c \in Calls :
        call[c].pc \in {"running", "stored", "unstored", "replayed", "key_reuse"} => Valid(c)

\* Every result in Redis is under the key, with the fingerprint and with the TTL
\* of a call that is over.
Kept ==
    \A result \in stored :
        /\ call[result.by].pc = "stored"
        /\ result.key = WriteKey(OperationText(result.by), KeyText(result.by))
        /\ result.fingerprint = call[result.by].fingerprint

\* Whoever has an answer has it from a call that has started its action, for the
\* same request if it replays it and for another one if it is refused.
Started == {"running", "stored", "unstored"}
Answered ==
    \A c, d \in Calls : call[c].answer = d =>
        /\ call[c].pc \in {"replayed", "key_reuse"} /\ call[d].pc \in Started
        /\ SameTarget(c, d)
        /\ call[c].pc = "replayed" <=> SameArguments(c, d)

HasAnswer ==
    \A c \in Calls : call[c].pc \in {"replayed", "key_reuse"} => call[c].answer \in Calls

Inv == /\ SetUp /\ TypeOK /\ Identified /\ Validated /\ Kept /\ Answered /\ HasAnswer
       /\ TtlHonoured

LEMMA Texts ==
    ASSUME SetUp, TypeOK, NEW c \in Calls, call[c].key \in DOMAIN Text
    PROVE  OperationText(c) \in Seq(Characters) /\ KeyText(c) \in Seq(Characters)
  BY CallSetupAssumption DEF SetUp, OperationText, KeyText, Made

\* The invariant holds before any call has started.
LEMMA InvInit == Init => Inv
<1> SUFFICES ASSUME Init PROVE Inv
  OBVIOUS
<1>1. SetUp
  BY DEF Init, SetUp
<1>2. TypeOK
  <2>1. /\ Holding("called").pc \in Pcs
        /\ Holding("called") \in [pc : Pcs, key : DOMAIN Text \union {None},
                                  coordinator : Coordinators \union {None},
                                  fingerprint : Fingerprints, answer : Calls \union {None}]
    BY DEF Holding, Pcs, Fingerprints
  <2> QED
    BY <2>1 DEF Init, TypeOK
<1>3. \A c \in Calls : call[c].pc = "called" /\ call[c].answer = None
  BY DEF Init, Holding
<1>4. stored = {}
  BY DEF Init
<1>5. Identified /\ Validated /\ HasAnswer
  BY <1>3 DEF Identified, Validated, HasAnswer
<1>6. Kept /\ TtlHonoured
  BY <1>4 DEF Kept, TtlHonoured
<1>7. Answered
  BY <1>3, CallSetupAssumption DEF Answered
<1> QED
  BY <1>1, <1>2, <1>5, <1>6, <1>7 DEF Inv

\* What is computed from the arguments and the settings never changes.
LEMMA SetupOnly ==
    ASSUME UNCHANGED setup
    PROVE  \A c \in Calls :
               /\ Made(c)' = Made(c) /\ setup' = setup
               /\ Minutes(c)' = Minutes(c) /\ Seconds(c)' = Seconds(c)
               /\ \A d \in Calls : SameArguments(c, d)' = SameArguments(c, d)
<1>1. \A c \in Calls : Made(c)' = Made(c)
  BY DEF Made
<1>2. \A c \in Calls : Minutes(c)' = Minutes(c)
  BY <1>1 DEF Minutes
<1>3. \A c \in Calls : Seconds(c)' = Seconds(c)
  BY <1>2 DEF Seconds
<1>4. \A c, d \in Calls : SameArguments(c, d)' = SameArguments(c, d)
  BY <1>1 DEF SameArguments
<1> QED
  BY <1>1, <1>2, <1>3, <1>4

\* The results that are in Redis stay as they were stored.
LEMMA TtlStays ==
    ASSUME TtlHonoured, UNCHANGED <<setup, stored>>, \A result \in stored : result.by \in Calls
    PROVE  TtlHonoured'
  BY SetupOnly DEF TtlHonoured

\* An action of c leaves the other calls alone, and c its key unless it delegates.
LEMMA Stays ==
    ASSUME Inv, NEW c \in Calls, NEW pc \in Pcs, Goes(c, pc), UNCHANGED setup
    PROVE  /\ call' \in [Calls -> [pc : Pcs, key : DOMAIN Text \union {None},
                                   coordinator : Coordinators \union {None},
                                   fingerprint : Fingerprints', answer : Calls \union {None}]]
           /\ call'[c].pc = pc
           /\ \A d \in Calls : /\ d # c => call'[d] = call[d]
                               /\ call'[d].key = call[d].key
                               /\ call'[d].fingerprint = call[d].fingerprint
                               /\ call'[d].answer = call[d].answer
                               /\ Made(d)' = Made(d)
                               /\ OperationText(d)' = OperationText(d)
                               /\ KeyText(d)' = KeyText(d)
                               /\ Valid(d)' = Valid(d)
<1>1. \A d \in Calls : Made(d)' = Made(d)
  BY DEF Made
<1>2. Fingerprints' = Fingerprints
  BY <1>1 DEF Fingerprints
<1>3. /\ call \in [Calls -> [pc : Pcs, key : DOMAIN Text \union {None},
                             coordinator : Coordinators \union {None},
                             fingerprint : Fingerprints, answer : Calls \union {None}]]
      /\ call' = [call EXCEPT ![c].pc = pc]
  BY DEF Inv, TypeOK, Goes
<1>4. \A d \in Calls : /\ d # c => call'[d] = call[d]
                       /\ call'[d].key = call[d].key
                       /\ call'[d].fingerprint = call[d].fingerprint
                       /\ call'[d].answer = call[d].answer
  BY <1>3
<1>5. call'[c].pc = pc
  BY <1>3
<1>6. call' \in [Calls -> [pc : Pcs, key : DOMAIN Text \union {None},
                           coordinator : Coordinators \union {None},
                           fingerprint : Fingerprints, answer : Calls \union {None}]]
  BY <1>3
<1>7. \A d \in Calls : /\ OperationText(d)' = OperationText(d)
                       /\ KeyText(d)' = KeyText(d)
  BY <1>1, <1>4 DEF OperationText, KeyText
<1>8. \A d \in Calls : Valid(d)' = Valid(d)
  BY <1>7 DEF Valid
<1> QED
  BY <1>1, <1>2, <1>4, <1>5, <1>6, <1>7, <1>8

\* A step on which nothing is stored and no answer is found.
LEMMA GoingOn ==
    ASSUME Inv, NEW c \in Calls, NEW pc \in Pcs, Goes(c, pc), UNCHANGED <<setup, stored>>,
           call[c].pc # "stored", pc \notin {"replayed", "key_reuse"},
           call[c].pc \notin {"replayed", "key_reuse"},
           call[c].pc \in {"called", "plain"} => pc = "plain",
           call[c].pc # "unstored", pc # "stored",
           call[c].pc = "running" => pc = "unstored",
           pc \in {"running", "unstored"} => Valid(c)
    PROVE  Inv'
<1>1. /\ call' \in [Calls -> [pc : Pcs, key : DOMAIN Text \union {None},
                              coordinator : Coordinators \union {None},
                              fingerprint : Fingerprints', answer : Calls \union {None}]]
      /\ call'[c].pc = pc
      /\ \A d \in Calls : /\ d # c => call'[d] = call[d]
                          /\ call'[d].key = call[d].key
                          /\ call'[d].fingerprint = call[d].fingerprint
                          /\ call'[d].answer = call[d].answer
                          /\ Made(d)' = Made(d)
                          /\ OperationText(d)' = OperationText(d)
                          /\ KeyText(d)' = KeyText(d)
                          /\ Valid(d)' = Valid(d)
  BY Stays
<1>2. SetUp'
  BY DEF Inv, SetUp
<1>3. TypeOK'
  BY <1>1 DEF Inv, TypeOK
<1>4. Identified'
  <2> SUFFICES ASSUME NEW d \in Calls, call'[d].pc \notin {"called", "plain"}
               PROVE  /\ call'[d].key \in DOMAIN Text
                      /\ call'[d].fingerprint = FingerprintOf(Made(d)')
    BY DEF Identified
  <2>1. call[d].pc \notin {"called", "plain"}
    BY <1>1
  <2>2. call[d].key \in DOMAIN Text /\ call[d].fingerprint = FingerprintOf(Made(d))
    BY <2>1 DEF Inv, Identified
  <2> QED
    BY <1>1, <2>2
<1>5. Validated'
  BY <1>1 DEF Inv, Validated
<1>6. Kept'
  <2> SUFFICES ASSUME NEW result \in stored
               PROVE  /\ call'[result.by].pc = "stored"
                      /\ result.key = WriteKey(OperationText(result.by)', KeyText(result.by)')
                      /\ result.fingerprint = call'[result.by].fingerprint
    BY DEF Kept
  <2>1. /\ result.by \in Calls /\ call[result.by].pc = "stored"
        /\ result.key = WriteKey(OperationText(result.by), KeyText(result.by))
        /\ result.fingerprint = call[result.by].fingerprint
    BY DEF Inv, Kept, TypeOK
  <2> QED
    BY <1>1, <2>1
<1>7. Answered'
  <2> SUFFICES ASSUME NEW d \in Calls, NEW other \in Calls, call'[d].answer = other
               PROVE  /\ call'[d].pc \in {"replayed", "key_reuse"} /\ call'[other].pc \in Started
                      /\ Strip(OperationText(d)') = Strip(OperationText(other)')
                      /\ Strip(KeyText(d)') = Strip(KeyText(other)')
                      /\ call'[d].pc = "replayed" <=>
                            \A p \in FingerprintParams :
                                Bound(Made(d)', p) = Bound(Made(other)', p)
    BY DEF Answered, SameTarget, SameArguments
  <2>1. /\ call[d].pc \in {"replayed", "key_reuse"} /\ call[other].pc \in Started
        /\ Strip(OperationText(d)) = Strip(OperationText(other))
        /\ Strip(KeyText(d)) = Strip(KeyText(other))
        /\ call[d].pc = "replayed" <=>
              \A p \in FingerprintParams : Bound(Made(d), p) = Bound(Made(other), p)
    BY <1>1 DEF Inv, Answered, SameTarget, SameArguments
  <2>2. call'[d] = call[d] /\ call'[other].pc \in Started
    BY <1>1, <2>1 DEF Started
  <2> QED
    BY <1>1, <2>1, <2>2
<1>9. TtlHonoured'
  BY TtlStays DEF Inv, TypeOK
<1>h. HasAnswer'
  BY <1>1 DEF Inv, HasAnswer
<1> QED
  BY <1>2, <1>3, <1>4, <1>5, <1>6, <1>7, <1>9, <1>h DEF Inv

LEMMA DelegatesKeeps ==
    ASSUME Inv, NEW c \in Calls, Delegates(c)
    PROVE  Inv'
<1> DEFINE key == ResolvedKey(Made(c))
           coordinator == ResolvedCoordinator(Made(c))
           fingerprint == FingerprintOf(Made(c))
<1>1. /\ key \in DOMAIN Text \union {None} /\ key # None
      /\ coordinator \in Coordinators \union {None}
      /\ fingerprint \in Fingerprints
  BY CallSetupAssumption DEF Inv, SetUp, Made, Delegates, Fingerprints
<1>2. /\ UNCHANGED <<setup, stored>> /\ call[c].pc = "called"
      /\ call' = [call EXCEPT ![c] = [pc |-> "delegated", answer |-> None, key |-> key,
                                      coordinator |-> coordinator,
                                      fingerprint |-> fingerprint]]
  BY DEF Delegates
<1>3. \A d \in Calls : Made(d)' = Made(d)
  BY <1>2 DEF Made
<1>4. Fingerprints' = Fingerprints
  BY <1>3 DEF Fingerprints
<1>5. fingerprint = FingerprintOf(Made(c)')
  BY <1>3
<1> HIDE DEF key, coordinator, fingerprint
<1>6. /\ call \in [Calls -> [pc : Pcs, key : DOMAIN Text \union {None},
                             coordinator : Coordinators \union {None},
                             fingerprint : Fingerprints, answer : Calls \union {None}]]
      /\ "delegated" \in Pcs
  BY DEF Inv, TypeOK, Pcs
<1>7. /\ call'[c].pc = "delegated" /\ call'[c].key = key
      /\ call'[c].fingerprint = fingerprint /\ call'[c].answer = None
      /\ \A d \in Calls : d # c => call'[d] = call[d]
  BY <1>2, <1>6
<1>8. call' \in [Calls -> [pc : Pcs, key : DOMAIN Text \union {None},
                           coordinator : Coordinators \union {None},
                           fingerprint : Fingerprints, answer : Calls \union {None}]]
  BY <1>1, <1>2, <1>6
<1>9. \A d \in Calls : d # c => /\ OperationText(d)' = OperationText(d)
                                /\ KeyText(d)' = KeyText(d)
                                /\ Valid(d)' = Valid(d)
  BY <1>3, <1>7 DEF OperationText, KeyText, Valid
<1>10. SetUp' /\ TypeOK'
  BY <1>2, <1>4, <1>8 DEF Inv, SetUp, TypeOK
<1>11. Identified'
  <2> SUFFICES ASSUME NEW d \in Calls, call'[d].pc \notin {"called", "plain"}
               PROVE  /\ call'[d].key \in DOMAIN Text
                      /\ call'[d].fingerprint = FingerprintOf(Made(d)')
    BY DEF Identified
  <2>1. CASE d = c
    BY <1>1, <1>5, <1>7, <2>1
  <2>2. CASE d # c
    BY <1>3, <1>7, <2>2 DEF Inv, Identified
  <2> QED
    BY <2>1, <2>2
<1>12. Validated'
  BY <1>7, <1>9 DEF Inv, Validated
<1>13. Kept'
  <2> SUFFICES ASSUME NEW result \in stored
               PROVE  /\ call'[result.by].pc = "stored"
                      /\ result.key = WriteKey(OperationText(result.by)', KeyText(result.by)')
                      /\ result.fingerprint = call'[result.by].fingerprint
    BY <1>2 DEF Kept
  <2>1. /\ result.by \in Calls /\ call[result.by].pc = "stored"
        /\ result.key = WriteKey(OperationText(result.by), KeyText(result.by))
        /\ result.fingerprint = call[result.by].fingerprint
    BY DEF Inv, Kept, TypeOK
  <2>2. result.by # c
    BY <1>2, <2>1
  <2> QED
    BY <1>7, <1>9, <2>1, <2>2
<1>14. Answered'
  <2> SUFFICES ASSUME NEW d \in Calls, NEW other \in Calls, call'[d].answer = other
               PROVE  /\ call'[d].pc \in {"replayed", "key_reuse"} /\ call'[other].pc \in Started
                      /\ Strip(OperationText(d)') = Strip(OperationText(other)')
                      /\ Strip(KeyText(d)') = Strip(KeyText(other)')
                      /\ call'[d].pc = "replayed" <=>
                            \A p \in FingerprintParams :
                                Bound(Made(d)', p) = Bound(Made(other)', p)
    BY DEF Answered, SameTarget, SameArguments
  <2>1. d # c /\ call'[d] = call[d]
    BY <1>7, CallSetupAssumption
  <2>2. /\ call[d].pc \in {"replayed", "key_reuse"} /\ call[other].pc \in Started
        /\ Strip(OperationText(d)) = Strip(OperationText(other))
        /\ Strip(KeyText(d)) = Strip(KeyText(other))
        /\ call[d].pc = "replayed" <=>
              \A p \in FingerprintParams : Bound(Made(d), p) = Bound(Made(other), p)
    BY <2>1 DEF Inv, Answered, SameTarget, SameArguments
  <2>3. other # c /\ call'[other] = call[other]
    BY <1>2, <1>7, <2>2 DEF Started
  <2> QED
    BY <1>3, <1>9, <2>1, <2>2, <2>3
<1>16. TtlHonoured'
  BY <1>2, TtlStays DEF Inv, TypeOK
<1>h. HasAnswer'
  BY <1>7 DEF Inv, HasAnswer
<1> QED
  BY <1>10, <1>11, <1>12, <1>13, <1>14, <1>16, <1>h DEF Inv

\* A record that is found, a result or a reservation, is one of the same operation
\* and key, and it is refused exactly when its request had other arguments.
LEMMA FoundIsOurs ==
    ASSUME Inv, NEW c \in Calls, NEW result \in stored \union Reservations, Finds(c, result)
    PROVE  /\ result.by \in Calls /\ call[result.by].pc \in Started
           /\ SameTarget(c, result.by)
           /\ Disagree(result.fingerprint, call[c].fingerprint)
                 <=> ~SameArguments(c, result.by)
<1> DEFINE d == result.by
<1>1. /\ d \in Calls /\ call[d].pc \in {"running", "stored"}
      /\ result.key = WriteKey(OperationText(d), KeyText(d))
      /\ result.fingerprint = call[d].fingerprint
  <2>1. CASE result \in stored
    BY <2>1 DEF Inv, TypeOK, Kept
  <2>2. CASE result \in Reservations
    BY <2>2 DEF Reservations
  <2> QED
    BY <2>1, <2>2
<1>0. /\ Valid(c) /\ call[c].pc = "delegated"
      /\ result.key = ReadKey(OperationText(c), KeyText(c))
  BY DEF Finds, Attended, Under
<1>d. d = result.by
  OBVIOUS
<1> HIDE DEF d
<1>2. /\ call[c].key \in DOMAIN Text /\ call[c].fingerprint = FingerprintOf(Made(c))
      /\ call[d].key \in DOMAIN Text /\ call[d].fingerprint = FingerprintOf(Made(d))
      /\ Valid(d)
  BY <1>0, <1>1 DEF Inv, Identified, Validated
<1>3. SameTarget(c, d)
  <2>1. /\ OperationText(c) \in Seq(Characters) /\ KeyText(c) \in Seq(Characters)
        /\ OperationText(d) \in Seq(Characters) /\ KeyText(d) \in Seq(Characters)
    BY <1>1, <1>2, Texts DEF Inv
  <2>2. /\ ValidIdentifiers(OperationText(c), KeyText(c))
        /\ ValidIdentifiers(OperationText(d), KeyText(d))
        /\ ReadKey(OperationText(c), KeyText(c)) = WriteKey(OperationText(d), KeyText(d))
    BY <1>0, <1>1, <1>2 DEF Valid
  <2> DEFINE o == OperationText(c)
             k == KeyText(c)
             o2 == OperationText(d)
             k2 == KeyText(d)
  <2>3. o \in Seq(Characters) /\ k \in Seq(Characters) /\ ValidIdentifiers(o, k)
    BY <2>1, <2>2
  <2>4. o2 \in Seq(Characters) /\ k2 \in Seq(Characters) /\ ValidIdentifiers(o2, k2)
    BY <2>1, <2>2
  <2>5. ReadKey(o, k) = WriteKey(o2, k2)
    BY <2>2
  <2> HIDE DEF o, k, o2, k2
  <2>6. Strip(o) = Strip(o2) /\ Strip(k) = Strip(k2)
    BY <2>3, <2>4, <2>5, PaddedReadsNothing
  <2> QED
    BY <2>6 DEF SameTarget, o, k, o2, k2
<1>4. CASE FingerprintParams = {}
  <2>1. call[c].fingerprint = None /\ SameArguments(c, d)
    BY <1>2, <1>4 DEF FingerprintOf, SameArguments
  <2> QED
    BY <1>1, <1>3, <1>d, <2>1 DEF Disagree, Started
<1>5. CASE FingerprintParams # {}
  <2>1. FingerprintOf(Made(c)) # None /\ FingerprintOf(Made(d)) # None
    BY <1>1, <1>5, CallSetupAssumption DEF Inv, SetUp, Made
  <2>2. FingerprintOf(Made(c)) = FingerprintOf(Made(d)) <=> SameArguments(c, d)
    BY <1>5 DEF FingerprintOf, SameArguments
  <2> QED
    BY <1>1, <1>2, <1>3, <1>d, <2>1, <2>2 DEF Disagree, Started
<1> QED
  BY <1>4, <1>5

\* A record that is found, and the call it is replayed to or refused for.
LEMMA AnswersKeeps ==
    ASSUME Inv, NEW c \in Calls, NEW result \in stored \union Reservations, Finds(c, result),
           NEW pc \in {"replayed", "key_reuse"},
           pc = "key_reuse" <=> Disagree(result.fingerprint, call[c].fingerprint),
           call' = [call EXCEPT ![c].pc = pc, ![c].answer = result.by],
           UNCHANGED <<setup, stored>>
    PROVE  Inv'
<1>1. /\ call \in [Calls -> [pc : Pcs, key : DOMAIN Text \union {None},
                             coordinator : Coordinators \union {None},
                             fingerprint : Fingerprints, answer : Calls \union {None}]]
      /\ pc \in Pcs /\ result.by \in Calls
      /\ Valid(c) /\ call[c].pc = "delegated"
  BY FoundIsOurs DEF Inv, TypeOK, Pcs, Outcomes, Finds, Attended
<1>2. \A d \in Calls : Made(d)' = Made(d)
  BY DEF Made
<1>3. Fingerprints' = Fingerprints
  BY <1>2 DEF Fingerprints
<1>4. call' \in [Calls -> [pc : Pcs, key : DOMAIN Text \union {None},
                           coordinator : Coordinators \union {None},
                           fingerprint : Fingerprints, answer : Calls \union {None}]]
  BY <1>1
<1>5. /\ call'[c].pc = pc
      /\ \A d \in Calls : /\ d # c => call'[d] = call[d]
                          /\ call'[d].key = call[d].key
                          /\ call'[d].fingerprint = call[d].fingerprint
  BY <1>1
<1>6. \A d \in Calls : /\ OperationText(d)' = OperationText(d)
                       /\ KeyText(d)' = KeyText(d)
                       /\ Valid(d)' = Valid(d)
  BY <1>2, <1>5 DEF OperationText, KeyText, Valid
<1>7. SetUp' /\ TypeOK'
  BY <1>3, <1>4 DEF Inv, SetUp, TypeOK
<1>8. Identified'
  <2> SUFFICES ASSUME NEW d \in Calls, call'[d].pc \notin {"called", "plain"}
               PROVE  /\ call'[d].key \in DOMAIN Text
                      /\ call'[d].fingerprint = FingerprintOf(Made(d)')
    BY DEF Identified
  <2>1. call[d].pc \notin {"called", "plain"}
    BY <1>1, <1>5
  <2>2. call[d].key \in DOMAIN Text /\ call[d].fingerprint = FingerprintOf(Made(d))
    BY <2>1 DEF Inv, Identified
  <2> QED
    BY <1>2, <1>5, <2>2
<1>9. Validated'
  BY <1>1, <1>5, <1>6 DEF Inv, Validated
<1>10. Kept'
  <2> SUFFICES ASSUME NEW other \in stored
               PROVE  /\ call'[other.by].pc = "stored"
                      /\ other.key = WriteKey(OperationText(other.by)', KeyText(other.by)')
                      /\ other.fingerprint = call'[other.by].fingerprint
    BY DEF Kept
  <2>1. /\ other.by \in Calls /\ call[other.by].pc = "stored"
        /\ other.key = WriteKey(OperationText(other.by), KeyText(other.by))
        /\ other.fingerprint = call[other.by].fingerprint
    BY DEF Inv, Kept, TypeOK
  <2>2. other.by # c
    BY <1>1, <2>1
  <2> QED
    BY <1>5, <1>6, <2>1, <2>2
<1>11. Answered'
  <2> SUFFICES ASSUME NEW d \in Calls, NEW other \in Calls, call'[d].answer = other
               PROVE  /\ call'[d].pc \in {"replayed", "key_reuse"} /\ call'[other].pc \in Started
                      /\ Strip(OperationText(d)') = Strip(OperationText(other)')
                      /\ Strip(KeyText(d)') = Strip(KeyText(other)')
                      /\ call'[d].pc = "replayed" <=>
                            \A p \in FingerprintParams :
                                Bound(Made(d)', p) = Bound(Made(other)', p)
    BY DEF Answered, SameTarget, SameArguments
  <2>1. /\ call'[d].pc \in {"replayed", "key_reuse"} /\ call[other].pc \in Started
        /\ Strip(OperationText(d)) = Strip(OperationText(other))
        /\ Strip(KeyText(d)) = Strip(KeyText(other))
        /\ call'[d].pc = "replayed" <=>
              \A p \in FingerprintParams : Bound(Made(d), p) = Bound(Made(other), p)
    <3>1. CASE d = c
      <4>1. other = result.by /\ call'[d].pc = pc
        BY <1>1, <3>1
      <4>2. call[result.by].pc \in Started
        BY FoundIsOurs
      <4>3. /\ SameTarget(c, result.by)
            /\ pc = "replayed" <=> SameArguments(c, result.by)
        BY FoundIsOurs
      <4> QED
        BY <3>1, <4>1, <4>2, <4>3 DEF SameTarget, SameArguments
    <3>2. CASE d # c
      <4>1. call'[d] = call[d] /\ call[d].answer = other
        BY <1>5, <3>2
      <4>2. Answered
        BY DEF Inv
      <4> QED
        BY <4>1, <4>2 DEF Answered, SameTarget, SameArguments
    <3> QED
      BY <3>1, <3>2
  <2>2. other # c /\ call'[other] = call[other]
    BY <1>1, <1>5, <2>1 DEF Started
  <2> QED
    BY <1>2, <1>6, <2>1, <2>2
<1>13. TtlHonoured'
  BY TtlStays DEF Inv, TypeOK
<1>h. HasAnswer'
  BY <1>1, <1>5 DEF Inv, HasAnswer
<1> QED
  BY <1>7, <1>8, <1>9, <1>10, <1>11, <1>13, <1>h DEF Inv

\* The TTL a result is stored with is what TtlHonoured says of it.
LEMMA StoredTtl ==
    ASSUME SetUp, NEW c \in Calls, NEW late \in Delays,
           AcceptsTtl(setup.service, Seconds(c)), Writable(Seconds(c), late)
    PROVE  LET asked == EffectiveTtl(setup.operationTtls[Made(c).operation], Made(c).ttl)
               ex    == ExSeconds(Seconds(c), late)
               left  == Remaining(Seconds(c), late)
           IN  /\ Seconds(c) \in setup.service.min..setup.service.max
               /\ asked # NoTtl /\ asked >= 60 =>
                     Seconds(c) <= asked /\ asked < Seconds(c) + 60
               /\ ex > 0 /\ left > 0
               /\ ex * TicksPerSecond >= left /\ (ex - 1) * TicksPerSecond < left
<1> DEFINE operationTtl == setup.operationTtls[Made(c).operation]
           ttl   == Made(c).ttl
           asked == EffectiveTtl(operationTtl, ttl)
<1>1. /\ setup.service \in Services /\ late \in Nat
      /\ operationTtl \in Int \union {NoTtl} /\ ttl \in Int \union {NoTtl}
  BY CallSetupAssumption DEF SetUp, Made
<1>2. Seconds(c) \in setup.service.min..setup.service.max /\ Seconds(c) \in Int
  BY <1>1 DEF AcceptsTtl, Services
<1>3. ASSUME asked # NoTtl, asked >= 60
      PROVE  Seconds(c) <= asked /\ asked < Seconds(c) + 60
  <2> DEFINE minutes == ResolvedMinutes(operationTtl, ttl)
  <2>1. /\ minutes \in Int /\ minutes # NoTtl
        /\ 60 * minutes <= asked /\ asked < 60 * minutes + 60
    BY <1>1, <1>3, WholeMinutes
  <2>2. Seconds(c) = 60 * minutes
    BY <2>1 DEF Seconds, Minutes, ResultSeconds
  <2> QED
    BY <2>1, <2>2
<1>4. /\ ExSeconds(Seconds(c), late) \in Nat \ {0}
      /\ ExSeconds(Seconds(c), late) * TicksPerSecond >= Remaining(Seconds(c), late)
      /\ (ExSeconds(Seconds(c), late) - 1) * TicksPerSecond < Remaining(Seconds(c), late)
  BY <1>1, <1>2, ExCovers
<1>5. Remaining(Seconds(c), late) > 0
  BY DEF Writable
<1> QED
  BY <1>2, <1>3, <1>4, <1>5

LEMMA StoresKeeps ==
    ASSUME Inv, NEW c \in Calls, NEW late \in Delays, Stores(c, late)
    PROVE  Inv'
<1> DEFINE key == WriteKey(OperationText(c), KeyText(c))
           new == [key |-> key, by |-> c, fingerprint |-> call[c].fingerprint,
                   ex |-> ExSeconds(Seconds(c), late), left |-> Remaining(Seconds(c), late)]
<1>1. /\ call[c].pc = "running" /\ Goes(c, "stored") /\ UNCHANGED setup
      /\ AcceptsTtl(setup.service, Seconds(c)) /\ Writable(Seconds(c), late)
      /\ stored' \subseteq stored \union {new}
  BY DEF Stores
<1>2. "stored" \in Pcs
  BY DEF Pcs, Outcomes
<1>3. /\ call' \in [Calls -> [pc : Pcs, key : DOMAIN Text \union {None},
                              coordinator : Coordinators \union {None},
                              fingerprint : Fingerprints', answer : Calls \union {None}]]
      /\ call'[c].pc = "stored"
      /\ \A d \in Calls : /\ d # c => call'[d] = call[d]
                          /\ call'[d].key = call[d].key
                          /\ call'[d].fingerprint = call[d].fingerprint
                          /\ call'[d].answer = call[d].answer
                          /\ Made(d)' = Made(d)
                          /\ OperationText(d)' = OperationText(d)
                          /\ KeyText(d)' = KeyText(d)
                          /\ Valid(d)' = Valid(d)
  BY <1>1, <1>2, Stays
<1>4. /\ new.by = c /\ new.key = key /\ new.fingerprint = call[c].fingerprint
      /\ new.ex = ExSeconds(Seconds(c), late) /\ new.left = Remaining(Seconds(c), late)
  OBVIOUS
<1>5. SetUp
  BY DEF Inv
<1>6. stored' \subseteq stored \union {new}
  BY <1>1
<1>7. /\ Seconds(c) \in setup.service.min..setup.service.max
      /\ LET asked == EffectiveTtl(setup.operationTtls[Made(c).operation], Made(c).ttl)
         IN  asked # NoTtl /\ asked >= 60 =>
                 Seconds(c) <= asked /\ asked < Seconds(c) + 60
      /\ new.ex > 0 /\ new.left > 0
      /\ new.ex * TicksPerSecond >= new.left /\ (new.ex - 1) * TicksPerSecond < new.left
  BY <1>1, <1>4, <1>5, StoredTtl
<1> HIDE DEF new
<1>8. SetUp'
  BY <1>1, <1>5 DEF SetUp
<1>9. TypeOK'
  <2>1. \A result \in stored' : result.by \in Calls /\ result.ex > 0 /\ result.left > 0
    BY <1>4, <1>6, <1>7 DEF Inv, TypeOK
  <2> QED
    BY <1>3, <2>1 DEF TypeOK
<1>10. Identified'
  <2> SUFFICES ASSUME NEW d \in Calls, call'[d].pc \notin {"called", "plain"}
               PROVE  /\ call'[d].key \in DOMAIN Text
                      /\ call'[d].fingerprint = FingerprintOf(Made(d)')
    BY DEF Identified
  <2>1. call[d].pc \notin {"called", "plain"}
    BY <1>1, <1>3
  <2>2. call[d].key \in DOMAIN Text /\ call[d].fingerprint = FingerprintOf(Made(d))
    BY <2>1 DEF Inv, Identified
  <2> QED
    BY <1>3, <2>2
<1>11. Validated'
  BY <1>1, <1>3 DEF Inv, Validated
<1>12. Kept'
  <2> SUFFICES ASSUME NEW result \in stored'
               PROVE  /\ call'[result.by].pc = "stored"
                      /\ result.key = WriteKey(OperationText(result.by)', KeyText(result.by)')
                      /\ result.fingerprint = call'[result.by].fingerprint
    BY DEF Kept
  <2>1. CASE result \in stored
    <3>1. /\ result.by \in Calls /\ call[result.by].pc = "stored"
          /\ result.key = WriteKey(OperationText(result.by), KeyText(result.by))
          /\ result.fingerprint = call[result.by].fingerprint
      BY <2>1 DEF Inv, Kept, TypeOK
    <3> QED
      BY <1>3, <3>1
  <2>2. CASE result = new
    BY <1>3, <1>4, <2>2
  <2> QED
    BY <1>6, <2>1, <2>2
<1>13. Answered'
  <2> SUFFICES ASSUME NEW d \in Calls, NEW other \in Calls, call'[d].answer = other
               PROVE  /\ call'[d].pc \in {"replayed", "key_reuse"} /\ call'[other].pc \in Started
                      /\ Strip(OperationText(d)') = Strip(OperationText(other)')
                      /\ Strip(KeyText(d)') = Strip(KeyText(other)')
                      /\ call'[d].pc = "replayed" <=>
                            \A p \in FingerprintParams :
                                Bound(Made(d)', p) = Bound(Made(other)', p)
    BY DEF Answered, SameTarget, SameArguments
  <2>1. /\ call[d].pc \in {"replayed", "key_reuse"} /\ call[other].pc \in Started
        /\ Strip(OperationText(d)) = Strip(OperationText(other))
        /\ Strip(KeyText(d)) = Strip(KeyText(other))
        /\ call[d].pc = "replayed" <=>
              \A p \in FingerprintParams : Bound(Made(d), p) = Bound(Made(other), p)
    BY <1>3 DEF Inv, Answered, SameTarget, SameArguments
  <2>2. call'[d] = call[d] /\ call'[other].pc \in Started
    BY <1>1, <1>3, <2>1 DEF Started
  <2> QED
    BY <1>3, <2>1, <2>2
<1>15. TtlHonoured'
  <2>1. \A d \in Calls : Made(d)' = Made(d) /\ Seconds(d)' = Seconds(d) /\ setup' = setup
    BY <1>1, SetupOnly
  <2> SUFFICES ASSUME NEW result \in stored'
               PROVE  LET asked == EffectiveTtl(setup'.operationTtls[Made(result.by)'.operation],
                                                Made(result.by)'.ttl)
                      IN  /\ Seconds(result.by)' \in setup'.service.min..setup'.service.max
                          /\ asked # NoTtl /\ asked >= 60 =>
                                Seconds(result.by)' <= asked /\ asked < Seconds(result.by)' + 60
                          /\ result.ex * TicksPerSecond >= result.left
                          /\ (result.ex - 1) * TicksPerSecond < result.left
    BY DEF TtlHonoured
  <2>2. CASE result \in stored
    BY <2>1, <2>2 DEF Inv, TtlHonoured, TypeOK
  <2>3. CASE result = new
    BY <1>4, <1>7, <2>1, <2>3
  <2> QED
    BY <1>6, <2>2, <2>3
<1>h. HasAnswer'
  BY <1>1, <1>3 DEF Inv, HasAnswer
<1> QED
  BY <1>8, <1>9, <1>10, <1>11, <1>12, <1>13, <1>15, <1>h DEF Inv

LEMMA InvNext == Inv /\ [Next]_vars => Inv'
<1> SUFFICES ASSUME Inv, [Next]_vars PROVE Inv'
  OBVIOUS
<1>1. {"plain", "invalid", "in_progress", "running", "unstored"} \subseteq Pcs
  BY DEF Pcs, Outcomes
<1>2. ASSUME NEW c \in Calls, Unkeyed(c) PROVE Inv'
  BY <1>1, <1>2, GoingOn DEF Unkeyed
<1>3. ASSUME NEW c \in Calls, Unattended(c) PROVE Inv'
  BY <1>1, <1>3, GoingOn DEF Unattended
<1>4. ASSUME NEW c \in Calls, Delegates(c) PROVE Inv'
  BY <1>4, DelegatesKeeps
<1>5. ASSUME NEW c \in Calls, PassesThrough(c) PROVE Inv'
  BY <1>1, <1>5, GoingOn DEF PassesThrough
<1>6. ASSUME NEW c \in Calls, Refuses(c) PROVE Inv'
  BY <1>1, <1>6, GoingOn DEF Refuses, Attended
<1>7. ASSUME NEW c \in Calls, FindsNothing(c) PROVE Inv'
  BY <1>1, <1>7, GoingOn DEF FindsNothing, Attended
<1>r. ASSUME NEW c \in Calls, Reserves(c) PROVE Inv'
  BY <1>1, <1>r, GoingOn DEF Reserves, Attended
<1>t. ASSUME NEW c \in Calls, FindsTaken(c) PROVE Inv'
  BY <1>1, <1>t, GoingOn DEF FindsTaken, Attended
<1>8. ASSUME NEW c \in Calls, Replays(c) PROVE Inv'
  BY <1>8, AnswersKeeps DEF Replays, Agrees
<1>9. ASSUME NEW c \in Calls, RefusesReuse(c) PROVE Inv'
  BY <1>9, AnswersKeeps DEF RefusesReuse, Agrees
<1>10. ASSUME NEW c \in Calls, NEW late \in Delays, Stores(c, late) PROVE Inv'
  BY <1>10, StoresKeeps
<1>11. ASSUME NEW c \in Calls, NEW late \in Delays, CannotStore(c, late) PROVE Inv'
  <2>1. Valid(c)
    BY <1>11 DEF Inv, Validated, CannotStore
  <2> QED
    BY <1>1, <1>11, <2>1, GoingOn DEF CannotStore
<1>12. CASE UNCHANGED vars
  <2>1. UNCHANGED <<setup, call, stored>>
    BY <1>12 DEF vars
  <2>2. \A c \in Calls : Made(c)' = Made(c) /\ Minutes(c)' = Minutes(c)
    BY <2>1, SetupOnly
  <2>3. SetUp' /\ TypeOK' /\ Identified' /\ Validated' /\ Kept' /\ Answered'
    BY <2>1, <2>2 DEF Inv, SetUp, TypeOK, Identified, Validated, Kept, Answered, Made,
                      Fingerprints, Valid, OperationText, KeyText, SameTarget, SameArguments
  <2>4. TtlHonoured' /\ HasAnswer'
    BY <2>1, <2>2, TtlStays DEF Inv, TypeOK, HasAnswer
  <2> QED
    BY <2>3, <2>4 DEF Inv
<1> QED
  BY <1>2, <1>3, <1>4, <1>5, <1>6, <1>7, <1>r, <1>t, <1>8, <1>9, <1>10,
     <1>11, <1>12 DEF Next

------------------------------------------------------------------------------
(***************************************************************************)
(* The coordinator of a call                                               *)
(***************************************************************************)
LEMMA ValueIsNamed ==
    ASSUME NEW pairs \in NamedValues, NEW name, NEW otherwise
    PROVE  \/ ValueOf(pairs, name, otherwise) = otherwise
           \/ \E i \in DOMAIN pairs : ValueOf(pairs, name, otherwise) = pairs[i].value
<1> DEFINE I == {i \in 1..Len(pairs) : pairs[i].name = name}
<1>1. I \subseteq Nat /\ I \subseteq DOMAIN pairs
  BY LenProperties DEF NamedValues
<1>2. Named(pairs, name) = IF I # {} THEN Min(I) ELSE 0
  BY DEF Named, SelectInSeq
<1>3. I # {} => Min(I) \in I
  BY <1>1, LeastIndex
<1> HIDE DEF I
<1> QED
  BY <1>1, <1>2, <1>3 DEF ValueOf

LEMMA FirstIsFound ==
    ASSUME NEW pairs \in NamedValues
    PROVE  LET found == FirstCoordinator(Values(pairs))
           IN  \/ found = None /\ \A i \in DOMAIN pairs : pairs[i].value \notin Coordinators
               \/ found \in Coordinators /\ \E i \in DOMAIN pairs : found = pairs[i].value
<1> DEFINE values == Values(pairs)
           I == {i \in 1..Len(values) : values[i] \in Coordinators}
<1>1. /\ DOMAIN pairs = 1..Len(pairs) /\ Len(pairs) \in Nat
      /\ values = [i \in 1..Len(pairs) |-> pairs[i].value]
  BY LenProperties DEF NamedValues, Values
<1>2. Len(values) = Len(pairs) /\ \A i \in DOMAIN pairs : values[i] = pairs[i].value
  BY <1>1
<1>3. I \subseteq DOMAIN pairs /\ I \subseteq Nat
  BY <1>1, <1>2
<1>4. FirstCoordinator(values) =
          IF (IF I # {} THEN Min(I) ELSE 0) = 0 THEN None
                                                ELSE values[IF I # {} THEN Min(I) ELSE 0]
  BY DEF FirstCoordinator, SelectInSeq
<1>5. I # {} => Min(I) \in I /\ Min(I) # 0
  <2>1. 0 \notin I
    OBVIOUS
  <2> QED
    BY <1>3, <2>1, LeastIndex
<1>6. \A i \in DOMAIN pairs : i \in I <=> pairs[i].value \in Coordinators
  BY <1>1, <1>2
<1> HIDE DEF I, values
<1>7. CASE I = {}
  BY <1>4, <1>6, <1>7 DEF values
<1>8. CASE I # {}
  <2>1. FirstCoordinator(values) = values[Min(I)]
    BY <1>4, <1>5, <1>8
  <2>2. Min(I) \in DOMAIN pairs /\ pairs[Min(I)].value \in Coordinators
    BY <1>3, <1>5, <1>6, <1>8
  <2> QED
    BY <1>2, <2>1, <2>2 DEF values
<1> QED
  BY <1>7, <1>8

\* What a positional argument, or the object it is, has to offer.
Offers(arg) ==
    ({arg} \union {Attributes[arg][i].value : i \in DOMAIN Attributes[arg]})
    \intersect Coordinators

LEMMA CarriedIsFound ==
    ASSUME NEW arg \in DOMAIN Attributes
    PROVE  \/ Carried(arg) = None /\ Offers(arg) = {}
           \/ Carried(arg) # None /\ Carried(arg) \in Offers(arg)
<1>1. Attributes[arg] \in NamedValues /\ None \notin Coordinators
  BY CallSetupAssumption
<1>2. CASE arg \in Coordinators
  BY <1>1, <1>2 DEF Carried, Offers
<1>3. CASE arg \notin Coordinators
  <2>1. Carried(arg) = FirstCoordinator(Values(Attributes[arg]))
    BY <1>3 DEF Carried
  <2> QED
    BY <1>1, <1>3, <2>1, FirstIsFound DEF Offers
<1> QED
  BY <1>2, <1>3

LEMMA SearchedIsFound ==
    ASSUME NEW made, made.args \in Seq(DOMAIN Attributes)
    PROVE  \/ Searched(made) = None /\ \A i \in DOMAIN made.args : Offers(made.args[i]) = {}
           \/ /\ Searched(made) # None
              /\ \E i \in DOMAIN made.args : Searched(made) \in Offers(made.args[i])
<1> DEFINE I == {i \in 1..Len(made.args) : Carried(made.args[i]) # None}
<1>1. /\ DOMAIN made.args = 1..Len(made.args)
      /\ \A i \in DOMAIN made.args : made.args[i] \in DOMAIN Attributes
  BY LenProperties
<1>2. I \subseteq Nat /\ I \subseteq DOMAIN made.args
  BY <1>1
<1>3. Searched(made) =
          IF (IF I # {} THEN Min(I) ELSE 0) = 0
              THEN None ELSE Carried(made.args[IF I # {} THEN Min(I) ELSE 0])
  BY DEF Searched, SelectInSeq
<1>4. I # {} => Min(I) \in I /\ Min(I) # 0
  <2>1. 0 \notin I
    OBVIOUS
  <2> QED
    BY <1>2, <2>1, LeastIndex
<1>5. \A i \in DOMAIN made.args : i \in I <=> Carried(made.args[i]) # None
  BY <1>1
<1> HIDE DEF I
<1>6. CASE I = {}
  BY <1>1, <1>3, <1>5, <1>6, CarriedIsFound
<1>7. CASE I # {}
  <2>1. Searched(made) = Carried(made.args[Min(I)]) /\ Min(I) \in DOMAIN made.args
    BY <1>2, <1>3, <1>4, <1>7
  <2> QED
    BY <1>1, <1>4, <1>5, <1>7, <2>1, CarriedIsFound
<1> QED
  BY <1>6, <1>7

LEMMA ReachIs ==
    ASSUME NEW made
    PROVE  InReach(made) =
               ({made.kwargs[i].value : i \in DOMAIN made.kwargs} \intersect Coordinators)
               \union ({Offered[made.args[i]] : i \in DOMAIN made.args \intersect {1}}
                         \intersect Coordinators)
               \union UNION {Offers(made.args[i]) : i \in DOMAIN made.args}
  BY DEF InReach, Offers

\* The wrapper finds a coordinator if there is one in reach, and none but those.
LEMMA ResolvedIsInReach ==
    ASSUME SetUp, NEW c \in Calls
    PROVE  LET found == ResolvedCoordinator(Made(c))
           IN  \/ found = None /\ InReach(Made(c)) = {}
               \/ found # None /\ found \in InReach(Made(c))
<1> DEFINE made == Made(c)
<1>1. /\ made.args \in Seq(DOMAIN Attributes) /\ made.kwargs \in NamedValues
      /\ ResolvedCoordinator(made) \in Coordinators \union {None}
      /\ \A v \in DOMAIN Attributes : Attributes[v] \in NamedValues
      /\ None \notin Coordinators
  BY CallSetupAssumption DEF SetUp, Made
<1> HIDE DEF made
<1>2. \/ NamedCoordinator(made) = None
      \/ \E i \in DOMAIN made.kwargs : NamedCoordinator(made) = made.kwargs[i].value
      \/ \E i \in DOMAIN made.args \intersect {1} : NamedCoordinator(made) = Offered[made.args[i]]
  <2> DEFINE passed == ValueOf(made.kwargs, InfraParam, None)
  <2>1. passed = None \/ \E i \in DOMAIN made.kwargs : passed = made.kwargs[i].value
    BY <1>1, ValueIsNamed
  <2>2. CASE passed = None /\ made.args # <<>>
    <3>1. 1 \in DOMAIN made.args
      BY <1>1, <2>2
    <3>2. NamedCoordinator(made) = Offered[made.args[1]]
      BY <2>2 DEF NamedCoordinator
    <3> QED
      BY <3>1, <3>2
  <2>3. CASE ~(passed = None /\ made.args # <<>>)
    BY <2>1, <2>3 DEF NamedCoordinator
  <2> QED
    BY <2>2, <2>3
<1>3. CASE NamedCoordinator(made) # None
  <2>1. ResolvedCoordinator(made) = NamedCoordinator(made)
    BY <1>3 DEF ResolvedCoordinator, OrElse
  <2> QED
    BY <1>1, <1>2, <1>3, <2>1 DEF InReach, made
<1>4. CASE NamedCoordinator(made) = None
  <2> DEFINE first == FirstCoordinator(Values(made.kwargs))
  <2>1. ResolvedCoordinator(made) = IF first # None THEN first ELSE Searched(made)
    BY <1>4 DEF ResolvedCoordinator, OrElse
  <2>2. \/ first = None /\ \A i \in DOMAIN made.kwargs : made.kwargs[i].value \notin Coordinators
        \/ first \in Coordinators /\ \E i \in DOMAIN made.kwargs : first = made.kwargs[i].value
    BY <1>1, FirstIsFound
  <2>3. \/ Searched(made) = None /\ \A i \in DOMAIN made.args : Offers(made.args[i]) = {}
        \/ /\ Searched(made) # None
           /\ \E i \in DOMAIN made.args : Searched(made) \in Offers(made.args[i])
    BY <1>1, SearchedIsFound
  <2> HIDE DEF first
  <2>4. CASE first # None
    BY <1>1, <2>1, <2>2, <2>4 DEF InReach, made
  <2>5. CASE first = None /\ Searched(made) # None
    BY <2>1, <2>3, <2>5, ReachIs DEF made
  <2>6. CASE first = None /\ Searched(made) = None
    <3>1. \A i \in DOMAIN made.kwargs : made.kwargs[i].value \notin Coordinators
      BY <1>1, <2>2, <2>6
    <3>2. \A i \in DOMAIN made.args : Offers(made.args[i]) = {}
      BY <2>3, <2>6
    <3>3. \A i \in DOMAIN made.args \intersect {1} : Offered[made.args[i]] = None
      <4>1. 1 \in DOMAIN made.args => made.args # <<>>
        OBVIOUS
      <4> QED
        BY <1>4, <4>1 DEF NamedCoordinator
    <3>4. InReach(made) = {}
      BY <1>1, <3>1, <3>2, <3>3, ReachIs
    <3> QED
      BY <2>1, <2>6, <3>4 DEF made
  <2> QED
    BY <2>4, <2>5, <2>6
<1> QED
  BY <1>3, <1>4

\* Whoever coordinates a call is the coordinator that was found for it.
Delegated ==
    \A c \in Calls : call[c].pc = "delegated" =>
        call[c].coordinator = ResolvedCoordinator(Made(c)) /\ call[c].coordinator # None

LEMMA ProtectedInit == Init => Delegated /\ ProtectedIfPossible
  BY DEF Init, Holding, Delegated, ProtectedIfPossible

\* Nobody but c moves, and if c is run unprotected there is no helping it.
LEMMA ProtectedNext ==
    ASSUME Inv, Delegated, ProtectedIfPossible, [Next]_vars
    PROVE  Delegated' /\ ProtectedIfPossible'
<1> DEFINE Helpless(c) ==
        \/ Bound(Made(c), KeyParam) = None
        \/ InReach(Made(c)) = {}
        \/ ~(InReach(Made(c)) \subseteq Enabled)
<1>1. UNCHANGED setup
  BY DEF Next, vars, Unkeyed, Unattended, Delegates, PassesThrough, Refuses, Reserves,
         FindsNothing, FindsTaken, Replays, RefusesReuse, Stores, CannotStore
<1>2. \A d \in Calls : Made(d)' = Made(d)
  BY <1>1 DEF Made
<1>3. call \in [Calls -> [pc : Pcs, key : DOMAIN Text \union {None},
                          coordinator : Coordinators \union {None},
                          fingerprint : Fingerprints, answer : Calls \union {None}]]
  BY DEF Inv, TypeOK
<1>4. ASSUME NEW c \in Calls, call' = [call EXCEPT ![c] = call'[c]],
             call'[c].pc = "plain" => Helpless(c),
             call'[c].pc = "delegated" =>
                 /\ call'[c].coordinator = ResolvedCoordinator(Made(c))
                 /\ call'[c].coordinator # None
      PROVE  Delegated' /\ ProtectedIfPossible'
  <2>1. \A d \in Calls : d # c => call'[d] = call[d]
    BY <1>3, <1>4
  <2>2. Delegated'
    BY <1>2, <1>4, <2>1 DEF Delegated
  <2>3. ProtectedIfPossible'
    BY <1>2, <1>4, <2>1 DEF ProtectedIfPossible
  <2> QED
    BY <2>2, <2>3
<1>5. \A c \in Calls : ResolvedKey(Made(c)) = None => Helpless(c)
  BY CallSetupAssumption DEF ResolvedKey, Bound
<1>6. ASSUME NEW c \in Calls, Unkeyed(c) PROVE Delegated' /\ ProtectedIfPossible'
  BY <1>3, <1>4, <1>5, <1>6 DEF Unkeyed, Goes
<1>7. ASSUME NEW c \in Calls, Unattended(c) PROVE Delegated' /\ ProtectedIfPossible'
  <2>1. InReach(Made(c)) = {}
    BY <1>7, ResolvedIsInReach DEF Inv, Unattended
  <2> QED
    BY <1>3, <1>4, <1>7, <2>1 DEF Unattended, Goes
<1>8. ASSUME NEW c \in Calls, Delegates(c) PROVE Delegated' /\ ProtectedIfPossible'
  <2>1. /\ call'[c].pc = "delegated"
        /\ call'[c].coordinator = ResolvedCoordinator(Made(c))
        /\ call'[c].coordinator # None
        /\ call' = [call EXCEPT ![c] = call'[c]]
    BY <1>3, <1>8 DEF Delegates
  <2> QED
    BY <1>4, <2>1
<1>9. ASSUME NEW c \in Calls, PassesThrough(c) PROVE Delegated' /\ ProtectedIfPossible'
  <2>1. ResolvedCoordinator(Made(c)) \in InReach(Made(c)) \ Enabled
    BY <1>9, ResolvedIsInReach DEF Inv, Delegated, PassesThrough
  <2>2. Helpless(c)
    BY <2>1
  <2> QED
    BY <1>3, <1>4, <1>9, <2>2 DEF PassesThrough, Goes
<1>10. ASSUME NEW c \in Calls,
              \/ Refuses(c) \/ Reserves(c) \/ FindsNothing(c) \/ FindsTaken(c)
              \/ Replays(c) \/ RefusesReuse(c)
              \/ \E late \in Delays : Stores(c, late) \/ CannotStore(c, late)
       PROVE  Delegated' /\ ProtectedIfPossible'
  <2>1. /\ call' = [call EXCEPT ![c] = call'[c]]
        /\ call'[c].pc \notin {"plain", "delegated"}
    BY <1>3, <1>10 DEF Refuses, Reserves, FindsNothing, FindsTaken, Replays, RefusesReuse,
                       Stores, CannotStore, Goes
  <2> QED
    BY <1>4, <2>1
<1>11. CASE UNCHANGED vars
  BY <1>2, <1>11 DEF vars, Delegated, ProtectedIfPossible
<1> QED
  BY <1>6, <1>7, <1>8, <1>9, <1>10, <1>11 DEF Next

------------------------------------------------------------------------------
(***************************************************************************)
(* Theorems                                                                *)
(***************************************************************************)
LEMMA Always == Spec => []Inv
  BY InvInit, InvNext, PTL DEF Spec

\* The wrapper and coordinate() only ever go on with what the arguments hold.
THEOREM Typed == Spec => []TypeOK
<1>1. Inv => TypeOK
  BY DEF Inv
<1> QED
  BY <1>1, Always, PTL

\* No call is answered with, or refused for, what is stored for another operation
\* or another key, whatever the texts are (validate_no_colon, _make_key).
THEOREM OnlyTheOwnKey == Spec => []OwnKeyOnly
<1>1. Inv => OwnKeyOnly
  BY DEF Inv, TypeOK, Answered, OwnKeyOnly
<1> QED
  BY <1>1, Always, PTL

\* However arguments are passed, equal requests are replayed and different ones
\* refused (_fingerprint_resolver, _check_fingerprint).
THEOREM SameRequestAlways == Spec => []SameRequest
<1>1. Inv => SameRequest
  BY DEF Inv, Answered, HasAnswer, SameRequest
<1> QED
  BY <1>1, Always, PTL

\* Whatever the settings, a result of the default TTL is stored, unless this very
\* call took as long as that TTL to send it (__init__, create_record).
THEOREM DefaultAlwaysStorable == Spec => DefaultIsStorable
<1>1. ASSUME Inv, NEW c \in Calls, NEW late \in Delays, CannotStore(c, late),
             Minutes(c) = NoTtl
      PROVE  late >= 60 * setup.service.default * TicksPerSecond
  <2>1. setup.service \in Services /\ AcceptsService(setup.service) /\ late \in Nat
    BY <1>1, CallSetupAssumption DEF Inv, SetUp
  <2>2. Seconds(c) = 60 * setup.service.default /\ AcceptsTtl(setup.service, Seconds(c))
    BY <1>1, <2>1, DefaultAccepted DEF Seconds, ResultSeconds
  <2>3. ~(60 * setup.service.default * TicksPerSecond - late > 0)
    BY <1>1, <2>2 DEF CannotStore, Writable, Remaining
  <2>4. setup.service.default \in Int /\ TicksPerSecond \in Int
    BY <2>1, TtlAssumption DEF Services
  <2>5. 60 * setup.service.default * TicksPerSecond \in Int
    BY <2>4
  <2> QED
    BY <2>1, <2>3, <2>5
<1>2. Inv => \A c \in Calls, late \in Delays : CannotStore(c, late) =>
                 \/ Minutes(c) # NoTtl
                 \/ late >= 60 * setup.service.default * TicksPerSecond
  BY <1>1
<1> QED
  BY <1>2, Always, PTL DEF DefaultIsStorable

\* Whatever the settings and the clock, a stored result lives as long as was asked
\* for (_resolve_ttl_minutes, create_record, _prepare_write).
THEOREM TtlAlwaysHonoured == Spec => []TtlHonoured
<1>1. Inv => TtlHonoured
  BY DEF Inv
<1> QED
  BY <1>1, Always, PTL

\* With a key, and with nothing but coordinators that are switched on within reach
\* of the wrapper, the function is never run unprotected (_resolve_key,
\* _resolve_coordinator, coordinate).
THEOREM ProtectedAlways == Spec => []ProtectedIfPossible
<1>1. Init => Delegated /\ ProtectedIfPossible
  BY ProtectedInit
<1>2. Inv /\ (Delegated /\ ProtectedIfPossible) /\ [Next]_vars
        => (Delegated /\ ProtectedIfPossible)'
  BY ProtectedNext
<1> QED
  BY <1>1, <1>2, Always, PTL DEF Spec

\* A retry with no padding finds the result that is stored for it, and with a
\* reservation no retry runs the action again (_try_reserve, get, save).
THEOREM RetriesAlwaysFind == Spec => RetriesFindTheResult
<1>1. ASSUME Inv, NEW c \in Calls, NEW result \in stored, SameTarget(c, result.by)
      PROVE  /\ ~Reserves(c)
             /\ FindsNothing(c) \/ FindsTaken(c) =>
                   IsPadded(OperationText(c)) \/ IsPadded(KeyText(c))
  <2>1. result.key = WriteKey(OperationText(result.by), KeyText(result.by))
    BY <1>1 DEF Inv, Kept
  <2>2. WriteKey(OperationText(c), KeyText(c)) = result.key
    BY <1>1, <2>1 DEF WriteKey, SameTarget
  <2>3. ~Reserves(c)
    BY <2>2 DEF Reserves, Under
  <2>4. ASSUME ~IsPadded(OperationText(c)), ~IsPadded(KeyText(c))
        PROVE  ~FindsNothing(c) /\ ~FindsTaken(c)
    <3>1. ReadKey(OperationText(c), KeyText(c)) = result.key
      BY <2>2, <2>4 DEF ReadKey, WriteKey, IsPadded
    <3>2. result \in Under(ReadKey(OperationText(c), KeyText(c)))
      BY <3>1 DEF Under
    <3>3. ~FindsNothing(c)
      BY <3>2 DEF FindsNothing
    <3>4. ~FindsTaken(c)
      BY <3>2 DEF FindsTaken
    <3> QED
      BY <3>3, <3>4
  <2> QED
    BY <2>3, <2>4
<1>2. Inv => \A c \in Calls :
                 LET stands == \E result \in stored : SameTarget(c, result.by)
                 IN  /\ Reserves(c) => ~stands
                     /\ FindsNothing(c) \/ FindsTaken(c) =>
                           ~stands \/ IsPadded(OperationText(c)) \/ IsPadded(KeyText(c))
  BY <1>1
<1> QED
  BY <1>2, Always, PTL DEF RetriesFindTheResult
=============================================================================
