---------------------------- MODULE LogStoreProofs ----------------------------
(***************************************************************************)
(* Theorems about module LogStore, for any names, ids, lines and starts:   *)
(* what is on the disk, after whatever crashes, restarts and commands.     *)
(***************************************************************************)
EXTENDS LogStore, SequenceTheorems, TLAPS

(* The places of a sequence. *)
LEMMA DomainOfSeq ==
  ASSUME NEW S, NEW s \in Seq(S) PROVE DOMAIN s = 1..Len(s)
OBVIOUS

(* What stands at the places is the range. *)
LEMMA RangeIsImage ==
  ASSUME NEW s PROVE Range(s) = {s[i] : i \in DOMAIN s}
BY DEF Range

(* A name is in a sequence when it stands at one of its places. *)
LEMMA RangePlaces ==
  ASSUME NEW S, NEW s \in Seq(S)
  PROVE  /\ Range(s) \subseteq S
         /\ \A x : x \in Range(s) <=> (\E i \in 1..Len(s) : s[i] = x)
<1>1. \A i \in 1..Len(s) : s[i] \in S
  OBVIOUS
<1>2. Range(s) = {s[i] : i \in 1..Len(s)}
  BY DomainOfSeq, RangeIsImage
<1> QED BY <1>1, <1>2

(* A part of a sequence, with its places. *)
LEMMA Part ==
  ASSUME NEW S, NEW s \in Seq(S), NEW m \in 1..(Len(s) + 1),
         NEW n \in 0..Len(s), m <= n + 1
  PROVE  /\ SubSeq(s, m, n) \in Seq(S)
         /\ Len(SubSeq(s, m, n)) = n - m + 1
         /\ \A i \in 1..(n - m + 1) : SubSeq(s, m, n)[i] = s[m + i - 1]
<1>1. m \in Int /\ n \in Int /\ Len(s) \in Nat
  OBVIOUS
<1>2. \A i \in m..n : s[i] \in S
  BY <1>1
<1>3. /\ SubSeq(s, m, n) \in Seq(S)
      /\ Len(SubSeq(s, m, n)) = IF m <= n THEN n - m + 1 ELSE 0
      /\ \A i \in 1..(n - m + 1) : SubSeq(s, m, n)[i] = s[m + i - 1]
  BY <1>1, <1>2, SubSeqProperties
<1> QED BY <1>1, <1>3

(* InsertAt as a sequence of its places. *)
LEMMA InsertPlaces ==
  ASSUME NEW S, NEW s \in Seq(S), NEW x \in S, NEW p \in 1..(Len(s) + 1)
  PROVE  /\ InsertAt(s, p, x) \in Seq(S)
         /\ Len(InsertAt(s, p, x)) = Len(s) + 1
         /\ \A i \in 1..(Len(s) + 1) :
              InsertAt(s, p, x)[i] =
                IF i < p THEN s[i] ELSE IF i = p THEN x ELSE s[i - 1]
<1> DEFINE a == SubSeq(s, 1, p - 1)
           b == SubSeq(s, p, Len(s))
           c == a \o <<x>>
<1>0. Len(s) \in Nat /\ p \in Nat /\ 1 <= p /\ p <= Len(s) + 1
  OBVIOUS
<1>1. /\ a \in Seq(S) /\ Len(a) = p - 1
      /\ \A i \in 1..(p - 1) : a[i] = s[i]
  BY <1>0, Part
<1>2. /\ b \in Seq(S) /\ Len(b) = Len(s) - p + 1
      /\ \A i \in 1..(Len(s) - p + 1) : b[i] = s[p + i - 1]
  BY <1>0, Part
<1>3. InsertAt(s, p, x) = c \o b
  BY DEF InsertAt
<1> HIDE DEF a, b
<1>4. /\ c \in Seq(S) /\ Len(c) = p
      /\ \A i \in 1..p : c[i] = IF i < p THEN a[i] ELSE x
  BY <1>0, <1>1
<1> HIDE DEF c
<1>5. /\ c \o b \in Seq(S) /\ Len(c \o b) = Len(c) + Len(b)
      /\ \A i \in 1..(Len(c) + Len(b)) :
           (c \o b)[i] = IF i <= Len(c) THEN c[i] ELSE b[i - Len(c)]
  BY <1>2, <1>4, ConcatProperties
<1>6. /\ Len(c) + Len(b) = Len(s) + 1
      /\ \A i \in 1..(Len(s) + 1) :
           (c \o b)[i] = IF i <= p THEN c[i] ELSE b[i - p]
  <2>1. Len(c) + Len(b) = Len(s) + 1
    BY <1>0, <1>2, <1>4
  <2> QED BY <1>4, <1>5, <2>1
<1>7. \A i \in 1..(Len(s) + 1) :
        (c \o b)[i] = IF i < p THEN s[i] ELSE IF i = p THEN x ELSE s[i - 1]
  <2> SUFFICES ASSUME NEW i \in 1..(Len(s) + 1)
               PROVE  (c \o b)[i] = IF i < p THEN s[i]
                                    ELSE IF i = p THEN x ELSE s[i - 1]
    OBVIOUS
  <2>0. i \in Nat /\ 1 <= i /\ i <= Len(s) + 1
    BY <1>0
  <2>1. CASE i < p
    <3>1. i \in 1..(p - 1) /\ i \in 1..p /\ i <= p
      BY <1>0, <2>0, <2>1
    <3>2. (c \o b)[i] = c[i] /\ c[i] = a[i] /\ a[i] = s[i]
      BY <1>1, <1>4, <1>6, <2>1, <3>1
    <3> QED BY <2>1, <3>2
  <2>2. CASE i = p
    <3>1. i \in 1..p /\ i <= p /\ ~(i < p)
      BY <1>0, <2>0, <2>2
    <3>2. (c \o b)[i] = c[i] /\ c[i] = x
      BY <1>4, <1>6, <3>1
    <3> QED BY <2>2, <3>1, <3>2
  <2>3. CASE i > p
    <3>1. /\ ~(i <= p) /\ ~(i < p) /\ i # p
          /\ i - p \in 1..(Len(s) - p + 1) /\ p + (i - p) - 1 = i - 1
      BY <1>0, <2>0, <2>3
    <3>2. (c \o b)[i] = b[i - p]
      BY <1>6, <3>1
    <3>3. b[i - p] = s[p + (i - p) - 1]
      BY <1>2, <3>1
    <3> QED BY <3>1, <3>2, <3>3
  <2>4. i < p \/ i = p \/ i > p
    BY <1>0, <2>0
  <2> QED BY <2>1, <2>2, <2>3, <2>4, Zenon
<1> QED BY <1>3, <1>5, <1>6, <1>7

(* RemoveAt as a sequence of its places. *)
LEMMA RemovePlaces ==
  ASSUME NEW S, NEW s \in Seq(S), NEW k \in 1..Len(s)
  PROVE  /\ RemoveAt(s, k) \in Seq(S)
         /\ Len(RemoveAt(s, k)) = Len(s) - 1
         /\ \A i \in 1..(Len(s) - 1) :
              RemoveAt(s, k)[i] = IF i < k THEN s[i] ELSE s[i + 1]
<1> DEFINE a == SubSeq(s, 1, k - 1)
           b == SubSeq(s, k + 1, Len(s))
<1>0. Len(s) \in Nat /\ k \in Nat /\ 1 <= k /\ k <= Len(s)
  OBVIOUS
<1>1. /\ a \in Seq(S) /\ Len(a) = k - 1
      /\ \A i \in 1..(k - 1) : a[i] = s[i]
  BY <1>0, Part
<1>2. /\ b \in Seq(S) /\ Len(b) = Len(s) - k
      /\ \A i \in 1..(Len(s) - k) : b[i] = s[k + i]
  BY <1>0, Part
<1>3. RemoveAt(s, k) = a \o b
  BY DEF RemoveAt
<1> HIDE DEF a, b
<1>4. /\ a \o b \in Seq(S) /\ Len(a \o b) = Len(a) + Len(b)
      /\ \A i \in 1..(Len(a) + Len(b)) :
           (a \o b)[i] = IF i <= Len(a) THEN a[i] ELSE b[i - Len(a)]
  BY <1>1, <1>2, ConcatProperties
<1>5. Len(a) + Len(b) = Len(s) - 1
  BY <1>0, <1>1, <1>2
<1>6. ASSUME NEW i \in 1..(Len(s) - 1)
      PROVE  (a \o b)[i] = IF i < k THEN s[i] ELSE s[i + 1]
  <2>1. CASE i < k
    <3>1. i \in 1..(k - 1) /\ i <= Len(a)
      BY <1>0, <1>1, <2>1
    <3> QED BY <1>1, <1>4, <1>5, <2>1, <3>1
  <2>2. CASE i >= k
    <3>1. /\ ~(i <= Len(a)) /\ i - Len(a) \in 1..(Len(s) - k)
          /\ k + (i - Len(a)) = i + 1
      BY <1>0, <1>1, <2>2
    <3>2. (a \o b)[i] = b[i - Len(a)]
      BY <1>4, <1>5, <3>1
    <3>3. b[i - Len(a)] = s[k + (i - Len(a))]
      BY <1>2, <3>1
    <3>4. ~(i < k)
      BY <1>0, <2>2
    <3> QED BY <3>1, <3>2, <3>3, <3>4
  <2>3. i < k \/ i >= k
    BY <1>0
  <2> QED BY <2>1, <2>2, <2>3, Zenon
<1> QED BY <1>3, <1>4, <1>5, <1>6

(* A new name in a directory. *)
LEMMA InsertName ==
  ASSUME NEW S, NEW s \in Seq(S), IsInjective(s),
         NEW x \in S, x \notin Range(s), NEW p \in 1..(Len(s) + 1),
         NEW t, t = InsertAt(s, p, x)
  PROVE  /\ t \in Seq(S) /\ IsInjective(t)
         /\ Range(t) = Range(s) \union {x}
<1>0. /\ Len(s) \in Nat /\ p \in Nat /\ 1 <= p /\ p <= Len(s) + 1
      /\ DOMAIN s = 1..Len(s)
  BY DomainOfSeq
<1>1. /\ t \in Seq(S) /\ Len(t) = Len(s) + 1
      /\ \A i \in 1..(Len(s) + 1) :
           t[i] = IF i < p THEN s[i] ELSE IF i = p THEN x ELSE s[i - 1]
  BY InsertPlaces
<1>2. DOMAIN t = 1..(Len(s) + 1)
  BY <1>1, DomainOfSeq
<1>3. \A i \in 1..Len(s) : s[i] # x
  BY RangePlaces
<1>4. \A i, j \in 1..Len(s) : s[i] = s[j] => i = j
  BY <1>0 DEF IsInjective
<1>5. IsInjective(t)
  <2>1. SUFFICES ASSUME NEW i \in 1..(Len(s) + 1), NEW j \in 1..(Len(s) + 1),
                        t[i] = t[j]
                 PROVE  i = j
    BY <1>2 DEF IsInjective
  <2> DEFINE src(m) == IF m < p THEN m ELSE m - 1
  <2>2. ASSUME NEW m \in 1..(Len(s) + 1), m # p
        PROVE  src(m) \in 1..Len(s) /\ t[m] = s[src(m)]
    BY <1>0, <1>1, <2>2
  <2>3. t[p] = x
    BY <1>0, <1>1
  <2>4. CASE i = p /\ j = p
    BY <2>4
  <2>5. CASE i = p /\ j # p
    BY <1>3, <2>1, <2>2, <2>3, <2>5
  <2>6. CASE i # p /\ j = p
    BY <1>3, <2>1, <2>2, <2>3, <2>6
  <2>7. CASE i # p /\ j # p
    <3>1. src(i) = src(j)
      BY <1>4, <2>1, <2>2, <2>7
    <3> QED BY <1>0, <2>7, <3>1
  <2> QED BY <2>4, <2>5, <2>6, <2>7
<1>6. Range(t) = Range(s) \union {x}
  <2>1. ASSUME NEW y \in Range(t) PROVE y \in Range(s) \union {x}
    <3>1. PICK i \in 1..(Len(s) + 1) : t[i] = y
      BY <1>1, RangePlaces
    <3>2. CASE i < p
      BY <1>0, <1>1, <3>1, <3>2, RangePlaces
    <3>3. CASE i = p
      BY <1>0, <1>1, <3>1, <3>3
    <3>4. CASE i > p
      <4>1. i - 1 \in 1..Len(s) /\ t[i] = s[i - 1]
        BY <1>0, <1>1, <3>4
      <4> QED BY <3>1, <4>1, RangePlaces
    <3>5. i < p \/ i = p \/ i > p
      BY <1>0
    <3> QED BY <3>2, <3>3, <3>4, <3>5
  <2>2. x \in Range(t)
    <3>1. p \in 1..(Len(s) + 1) /\ t[p] = x
      BY <1>0, <1>1
    <3> QED BY <1>1, <3>1, RangePlaces
  <2>3. ASSUME NEW y \in Range(s) PROVE y \in Range(t)
    <3>1. PICK i \in 1..Len(s) : s[i] = y
      BY RangePlaces
    <3>2. CASE i < p
      <4>1. i \in 1..(Len(s) + 1) /\ t[i] = y
        BY <1>0, <1>1, <3>1, <3>2
      <4> QED BY <1>1, <4>1, RangePlaces
    <3>3. CASE i >= p
      <4>1. i + 1 \in 1..(Len(s) + 1) /\ t[i + 1] = y
        BY <1>0, <1>1, <3>1, <3>3
      <4> QED BY <1>1, <4>1, RangePlaces
    <3>4. i < p \/ i >= p
      BY <1>0
    <3> QED BY <3>2, <3>3, <3>4
  <2> QED BY <2>1, <2>2, <2>3
<1> QED BY <1>1, <1>5, <1>6

(* A name gone from a directory. *)
LEMMA RemoveName ==
  ASSUME NEW S, NEW s \in Seq(S), IsInjective(s),
         NEW k \in 1..Len(s), NEW t, t = RemoveAt(s, k)
  PROVE  /\ t \in Seq(S) /\ IsInjective(t)
         /\ Range(t) = Range(s) \ {s[k]}
<1>0. /\ Len(s) \in Nat /\ k \in Nat /\ 1 <= k /\ k <= Len(s)
      /\ DOMAIN s = 1..Len(s)
  BY DomainOfSeq
<1> DEFINE src(m) == IF m < k THEN m ELSE m + 1
<1>1. t \in Seq(S) /\ Len(t) = Len(s) - 1
  BY RemovePlaces
<1>2. ASSUME NEW m \in 1..(Len(s) - 1)
      PROVE  src(m) \in 1..Len(s) /\ src(m) # k /\ t[m] = s[src(m)]
  <2>1. t[m] = IF m < k THEN s[m] ELSE s[m + 1]
    BY RemovePlaces
  <2> QED BY <1>0, <2>1
<1>3. DOMAIN t = 1..(Len(s) - 1)
  BY <1>1, DomainOfSeq
<1>4. \A i, j \in 1..Len(s) : s[i] = s[j] => i = j
  BY <1>0 DEF IsInjective
<1>5. IsInjective(t)
  <2>1. SUFFICES ASSUME NEW i \in 1..(Len(s) - 1), NEW j \in 1..(Len(s) - 1),
                        t[i] = t[j]
                 PROVE  i = j
    BY <1>3 DEF IsInjective
  <2>2. src(i) = src(j)
    BY <1>2, <1>4, <2>1
  <2> QED BY <1>0, <2>2
<1>6. Range(t) = Range(s) \ {s[k]}
  <2>1. ASSUME NEW y \in Range(t) PROVE y \in Range(s) /\ y # s[k]
    <3>1. PICK i \in 1..(Len(s) - 1) : t[i] = y
      BY <1>1, RangePlaces
    <3>2. y = s[src(i)] /\ src(i) \in 1..Len(s) /\ src(i) # k
      BY <1>2, <3>1
    <3> HIDE DEF src
    <3> QED BY <1>0, <1>4, <3>2, RangePlaces
  <2>2. ASSUME NEW y \in Range(s), y # s[k] PROVE y \in Range(t)
    <3>1. PICK i \in 1..Len(s) : s[i] = y
      BY RangePlaces
    <3>2. CASE i < k
      <4>1. i \in 1..(Len(s) - 1) /\ src(i) = i
        BY <1>0, <3>2
      <4> QED BY <1>1, <1>2, <3>1, <4>1, RangePlaces
    <3>3. CASE i > k
      <4>1. i - 1 \in 1..(Len(s) - 1) /\ src(i - 1) = i
        BY <1>0, <3>3
      <4>2. t[i - 1] = y
        BY <1>2, <3>1, <4>1
      <4> QED BY <1>1, <4>1, <4>2, RangePlaces
    <3>4. i < k \/ i > k
      BY <1>0, <2>2, <3>1
    <3> QED BY <3>2, <3>3, <3>4
  <2> QED BY <2>1, <2>2
<1> QED BY <1>1, <1>5, <1>6

-----------------------------------------------------------------------------
(* AllBegin, as what can be completed. *)
Begins(s, t) == \E r \in Seq(Line) : s \o r = t

(* Sequences of lines, put together from three. *)
LEMMA LinesAssociate ==
  ASSUME NEW s \in Seq(Line), NEW t \in Seq(Line), NEW u \in Seq(Line)
  PROVE  t \o u \in Seq(Line) /\ (s \o t) \o u = s \o (t \o u)
OBVIOUS

(* A line at the end of two parts is one at the end of the second. *)
LEMMA LinesAppend ==
  ASSUME NEW s \in Seq(Line), NEW t \in Seq(Line), NEW x \in Line
  PROVE  s \o Append(t, x) = Append(s \o t, x)
OBVIOUS

(* Every sequence of lines is two parts. *)
LEMMA TwoParts ==
  ASSUME NEW s \in Seq(Line), NEW k \in 0..Len(s)
  PROVE  /\ SubSeq(s, 1, k) \in Seq(Line)
         /\ SubSeq(s, k + 1, Len(s)) \in Seq(Line)
         /\ SubSeq(s, 1, k) \o SubSeq(s, k + 1, Len(s)) = s
<1>0. Len(s) \in Nat /\ k \in Nat /\ k <= Len(s)
  OBVIOUS
<1>1. SubSeq(s, 1, k) \in Seq(Line) /\ SubSeq(s, k + 1, Len(s)) \in Seq(Line)
  BY <1>0, Part
<1>2. SubSeq(s, 1, k) \o SubSeq(s, k + 1, Len(s)) = SubSeq(s, 1, Len(s))
  <2>1. /\ 1 \in 1..(Len(s) + 1) /\ k \in (1 - 1)..Len(s)
        /\ Len(s) \in k..Len(s)
    BY <1>0
  <2> QED BY <2>1, ConcatAdjacentSubSeq
<1>3. SubSeq(s, 1, Len(s)) = s
  BY SubSeqFull
<1> QED BY <1>1, <1>2, <1>3

(* What can be completed to t is a prefix of it. *)
LEMMA BeginsIsPrefix ==
  ASSUME NEW s \in Seq(Line), NEW t \in Seq(Line), Begins(s, t)
  PROVE  IsPrefix(s, t)
<1>1. PICK r \in Seq(Line) : s \o r = t
  BY DEF Begins
<1>2. /\ Len(s) \in Nat /\ Len(r) \in Nat /\ Len(t) = Len(s) + Len(r)
  BY <1>1, ConcatProperties
<1>3. SubSeq(s, 1, Len(s)) = SubSeq(t, 1, Len(s))
  <2>1. CASE Len(s) = 0
    BY <2>1, SubSeqEmpty
  <2>2. CASE Len(s) # 0
    <3>1. 1 \in 1..Len(s) /\ Len(s) \in 1..Len(s)
      BY <1>2, <2>2
    <3> QED BY <1>1, <3>1, SubSeqOfConcat1
  <2> QED BY <2>1, <2>2
<1> QED BY <1>2, <1>3 DEF IsPrefix

(* Nothing begins everything. *)
LEMMA BeginsEmpty == ASSUME NEW t \in Seq(Line) PROVE Begins(<<>>, t)
BY ConcatEmptySeq DEF Begins

(* A text begins itself. *)
LEMMA BeginsItself == ASSUME NEW t \in Seq(Line) PROVE Begins(t, t)
<1>1. t \o <<>> = t /\ <<>> \in Seq(Line)
  BY ConcatEmptySeq
<1> QED BY <1>1 DEF Begins

(* A beginning stays one when lines are added. *)
LEMMA BeginsLonger ==
  ASSUME NEW s \in Seq(Line), NEW t \in Seq(Line), NEW x \in Line, Begins(s, t)
  PROVE  Begins(s, Append(t, x))
<1>1. PICK r \in Seq(Line) : s \o r = t
  BY DEF Begins
<1>2. Append(r, x) \in Seq(Line) /\ s \o Append(r, x) = Append(s \o r, x)
  OBVIOUS
<1> QED BY <1>1, <1>2 DEF Begins

(* A beginning stays one when its own end is cut off. *)
LEMMA BeginsShorter ==
  ASSUME NEW s \in Seq(Line), NEW t \in Seq(Line), Begins(s, t),
         NEW k \in 0..Len(s)
  PROVE  SubSeq(s, 1, k) \in Seq(Line) /\ Begins(SubSeq(s, 1, k), t)
<1>1. PICK r \in Seq(Line) : s \o r = t
  BY DEF Begins
<1>2. PICK a \in Seq(Line), b \in Seq(Line) :
        a = SubSeq(s, 1, k) /\ a \o b = s
  BY TwoParts
<1>3. b \o r \in Seq(Line) /\ (a \o b) \o r = a \o (b \o r)
  BY <1>1, <1>2, LinesAssociate
<1>4. a \in Seq(Line) /\ Begins(a, t)
  BY <1>1, <1>2, <1>3 DEF Begins
<1> QED BY <1>2, <1>4

-----------------------------------------------------------------------------
(* The types that need nothing else. *)
Texts ==
  /\ content \in [Name -> Seq(Line)] /\ written \in [Run -> Seq(Line)]
  /\ buffer \in Seq(Line) /\ lines \in 0..MaxLines

Flags == pathExists \in BOOLEAN /\ up \in BOOLEAN /\ linked \in BOOLEAN

(* A name is in the directory once. *)
Directory == files \in Seq(Name) /\ IsInjective(files) /\ listing \in Seq(Name)

(* What the last command took. *)
LastType ==
  /\ last \in [cmd : Command, id : Int, fresh : BOOLEAN,
               shown : Name \union {None}, file : Name \union {None}]
  /\ starts \in 0..MaxStarts

(* What is known of the runs: those to come have no file and wrote nothing.  *)
Runs ==
  /\ starts \in 0..MaxStarts
  /\ stamp \in [Run -> Name \union {None}]
  /\ clean \subseteq 1..starts
  /\ \A r \in Run : r > starts => stamp[r] = None /\ written[r] = <<>>

(* The file of a run: while it is linked it is in the directory, and once    *)
(* removed it does not come back; its run is not a finished one.             *)
Running ==
  /\ log_file \in Name \union {None}
  /\ ~up => log_file = None
  /\ log_file = None => ~linked
  /\ log_file # None => (linked <=> log_file \in Range(files))
  /\ up => starts \in Run /\ starts \notin clean
  /\ up => stamp[starts] = log_file

(* Every text begins what the last run under its name wrote, and with the    *)
(* buffer it is all of it.                                                   *)
AllBegin == \A r \in Run : LastUnderItsName(r) => Begins(content[stamp[r]], written[r])

Whole == linked => content[log_file] \o buffer = written[starts]

(* What a clean stop kept. *)
Kept ==
  \A r \in clean :
    LastUnderItsName(r) /\ stamp[r] \in Range(files) => content[stamp[r]] = written[r]

StoreInv ==
  /\ Texts /\ Flags /\ Directory /\ LastType /\ Runs
  /\ Running /\ AllBegin /\ Whole /\ Kept

-----------------------------------------------------------------------------
(* The directory has names in it. *)
LEMMA InjectiveRange ==
  ASSUME Directory PROVE Range(files) \subseteq Name
BY RangePlaces DEF Directory

(* The names of the runs that are last under them.                          *)
LEMMA LastRun ==
  ASSUME Runs, NEW r \in Run, LastUnderItsName(r)
  PROVE  r <= starts /\ stamp[r] \in Name /\ r \in Nat /\ starts \in Nat
<1>1. r \in Nat /\ starts \in Nat
  BY LogStoreAssumption DEF Run, Runs
<1> QED BY <1>1 DEF Runs, LastUnderItsName

(* The run under way is the last one under the name of its file, and the     *)
(* only one.                                                                 *)
LEMMA RunUnderWay ==
  ASSUME Runs, Running, log_file # None
  PROVE  /\ up /\ starts \in Run /\ starts \notin clean /\ log_file \in Name
         /\ stamp[starts] = log_file
         /\ LastUnderItsName(starts)
         /\ \A r \in Run : LastUnderItsName(r) /\ stamp[r] = log_file => r = starts
<1>1. /\ up /\ starts \in Run /\ starts \notin clean /\ log_file \in Name
      /\ stamp[starts] = log_file
  BY Zenon DEF Running
<1>2. LastUnderItsName(starts)
  BY <1>1 DEF Runs, LastUnderItsName
<1>3. ASSUME NEW r \in Run, LastUnderItsName(r), stamp[r] = log_file
      PROVE  r = starts
  <2>1. r <= starts /\ r \in Nat /\ starts \in Nat
    BY <1>3, LastRun
  <2>2. ~(starts > r)
    BY <1>1, <1>3 DEF LastUnderItsName
  <2> QED BY ONLY <2>1, <2>2
<1> QED BY <1>1, <1>2, <1>3

(* The invariant has the properties. *)
LEMMA StoreInvImplies ==
  ASSUME StoreInv PROVE DiskIsPrefix /\ CleanStopKeepsEverything
<1>0. MaxStarts \in Nat /\ starts \in Nat /\ starts <= MaxStarts /\ clean \subseteq Run
      /\ Runs
  BY LogStoreAssumption DEF StoreInv, Runs, Run
<1>1. TypeOK
  <2>1. linked => log_file \in Range(files)
    BY Zenon DEF StoreInv, Running
  <2>2. /\ content \in [Name -> Seq(Line)] /\ buffer \in Seq(Line)
        /\ written \in [Run -> Seq(Line)] /\ lines \in 0..MaxLines
    BY DEF StoreInv, Texts
  <2>3. log_file \in Name \union {None}
    BY DEF StoreInv, Running
  <2>4. stamp \in [Run -> Name \union {None}]
    BY DEF StoreInv, Runs
  <2> QED BY <1>0, <2>1, <2>2, <2>3, <2>4, Zenon
          DEF StoreInv, Flags, Directory, LastType, TypeOK
<1>2. ASSUME NEW r \in Run, LastUnderItsName(r)
      PROVE  IsPrefix(content[stamp[r]], written[r])
  <2>1. stamp[r] \in Name
    BY <1>0, <1>2, LastRun
  <2>2. /\ content[stamp[r]] \in Seq(Line) /\ written[r] \in Seq(Line)
        /\ Begins(content[stamp[r]], written[r])
    BY <1>2, <2>1 DEF StoreInv, Texts, AllBegin
  <2> QED BY <2>2, BeginsIsPrefix
<1>3. DiskIsPrefix
  BY <1>1, <1>2 DEF StoreInv, Whole, DiskIsPrefix
<1>4. CleanStopKeepsEverything
  <2> SUFFICES ASSUME NEW r \in clean, stamp[r] \in Range(files),
                      \A q \in r + 1 .. starts : stamp[q] # stamp[r]
               PROVE  content[stamp[r]] = written[r]
    BY DEF CleanStopKeepsEverything
  <2>1. r \in Run /\ stamp[r] \in Name /\ r \in Nat
    BY <1>0, InjectiveRange DEF StoreInv, Run
  <2>2. ASSUME NEW q \in Run, q > r PROVE stamp[q] # stamp[r]
    <3>1. CASE q > starts
      BY <1>0, <2>1, <2>2, <3>1, LogStoreAssumption DEF Runs
    <3>2. CASE q <= starts
      <4>1. q \in r + 1 .. starts
        BY <1>0, <2>1, <2>2, <3>2 DEF Run
      <4> QED BY <4>1
    <3> QED BY <1>0, <3>1, <3>2 DEF Run
  <2>3. LastUnderItsName(r)
    BY <2>1, <2>2, LogStoreAssumption DEF LastUnderItsName
  <2> QED BY <2>3 DEF StoreInv, Kept
<1> QED BY <1>3, <1>4

(* It holds at the first start. *)
LEMMA StoreInvInit == Init => StoreInv
<1> SUFFICES ASSUME Init PROVE StoreInv
  OBVIOUS
<1>1. Texts
  BY LogStoreAssumption DEF Init, Texts
<1>2. Flags
  BY Zenon DEF Init, Flags
<1>3. Directory
  BY DEF Init, Directory, IsInjective
<1>4. LastType
  <2>1. last = NoCommand /\ starts = 0
    BY DEF Init
  <2>2. starts \in 0..MaxStarts
    BY <2>1, LogStoreAssumption
  <2>3. last \in [cmd : Command, id : Int, fresh : BOOLEAN,
                  shown : Name \union {None}, file : Name \union {None}]
    BY <2>1 DEF NoCommand, Command
  <2> QED BY <2>2, <2>3 DEF LastType
<1>5. Running
  BY LogStoreAssumption DEF Init, Running
<1>6. AllBegin
  BY DEF Init, AllBegin, LastUnderItsName
<1>7. Whole /\ Kept
  BY DEF Init, Whole, Kept
<1>8. Runs
  BY LogStoreAssumption DEF Init, Runs, Run
<1> QED BY <1>1, <1>2, <1>3, <1>4, <1>5, <1>6, <1>7, <1>8 DEF StoreInv

-----------------------------------------------------------------------------
(* What a start does to the directory. *)
LEMMA OpenDirectory ==
  ASSUME Directory, NEW n \in Name, open(n)
  PROVE  /\ files' \in Seq(Name) /\ IsInjective(files')
         /\ Range(files') = Range(files) \union {n}
<1>1. CASE n \in Range(files)
  BY <1>1 DEF open, Directory
<1>2. CASE n \notin Range(files)
  <2>1. PICK i \in 0..Len(files) : files' = InsertAt(files, i + 1, n)
    BY <1>2 DEF open
  <2>2. i + 1 \in 1..(Len(files) + 1)
    BY DEF Directory
  <2> QED BY <1>2, <2>1, <2>2, InsertName DEF Directory
<1> QED BY <1>1, <1>2

(* A start makes its run the last under the name of its file, takes that     *)
(* from an earlier one, and leaves the others what they are.                 *)
LEMMA StartedRuns ==
  ASSUME Runs, written \in [Run -> Seq(Line)], NEW n \in Name,
         starts < MaxStarts, starts' = starts + 1, UNCHANGED <<written, clean>>,
         stamp' = [stamp EXCEPT ![starts'] = n] \/ stamp' = stamp
  PROVE  /\ Runs' /\ starts' \in Run /\ starts' \notin clean
         /\ written[starts'] = <<>>
         /\ stamp' = [stamp EXCEPT ![starts'] = n] =>
              /\ stamp'[starts'] = n
              /\ \A r \in Run : r # starts' /\ LastUnderItsName(r)' =>
                   stamp'[r] = stamp[r] /\ stamp[r] # n /\ LastUnderItsName(r)
<1>1. /\ starts \in Nat /\ MaxStarts \in Nat /\ starts' \in Run
      /\ starts' \in 0..MaxStarts
  BY LogStoreAssumption DEF Runs, Run
<1>2. stamp' \in [Run -> Name \union {None}]
  BY DEF Runs
<1>3. clean' \subseteq 1..starts' /\ starts' \notin clean
  BY <1>1 DEF Runs
<1>4. ASSUME NEW r \in Run, r > starts'
      PROVE  stamp'[r] = None /\ written'[r] = <<>>
  <2>1. r > starts /\ r # starts'
    BY <1>1, <1>4 DEF Run
  <2> QED BY <1>1, <2>1 DEF Runs
<1>5. written[starts'] = <<>>
  <2>1. starts' > starts
    BY <1>1
  <2> QED BY <1>1, <2>1 DEF Runs
<1>6. ASSUME stamp' = [stamp EXCEPT ![starts'] = n]
      PROVE  /\ stamp'[starts'] = n
             /\ \A r \in Run : r # starts' /\ LastUnderItsName(r)' =>
                  stamp'[r] = stamp[r] /\ stamp[r] # n /\ LastUnderItsName(r)
  <2>1. /\ stamp'[starts'] = n
        /\ \A r \in Run : r # starts' => stamp'[r] = stamp[r]
        /\ stamp[starts'] = None
    <3>1. starts' > starts
      BY <1>1
    <3> QED BY <1>1, <1>6, <3>1 DEF Runs
  <2>2. ASSUME NEW r \in Run, r # starts', LastUnderItsName(r)'
        PROVE  stamp[r] # n /\ LastUnderItsName(r)
    <3>1. /\ stamp'[r] = stamp[r] /\ stamp[r] # None
          /\ \A q \in Run : q > r => stamp'[q] # stamp'[r]
      BY <2>1, <2>2 DEF LastUnderItsName
    <3>2. ~(r > starts')
      <4>1. r > starts' => stamp'[r] = None
        BY <1>4
      <4> QED BY <3>1, <4>1
    <3>3. starts' > r
      BY <1>1, <2>2, <3>2 DEF Run
    <3>4. stamp[r] # n
      BY <1>1, <2>1, <3>1, <3>3
    <3>5. ASSUME NEW q \in Run, q > r PROVE stamp[q] # stamp[r]
      BY <2>1, <3>1, <3>5
    <3> QED BY <3>1, <3>4, <3>5 DEF LastUnderItsName
  <2> QED BY <2>1, <2>2
<1> QED BY <1>1, <1>2, <1>3, <1>4, <1>5, <1>6 DEF Runs

(* A start keeps the invariant: the log it opens is empty. *)
LEMMA LoggerStep ==
  ASSUME StoreInv, NEW n \in Name, Logger(n)
  PROVE  StoreInv'
<1>0. /\ Texts /\ Flags /\ Directory /\ LastType /\ Running /\ AllBegin
      /\ Whole /\ Kept /\ Runs /\ ~up /\ log_file = None /\ ~linked
  BY DEF StoreInv, Logger, Running
<1>1. CASE pathExists
  <2>1. /\ content' = [content EXCEPT ![n] = <<>>]
        /\ stamp' = [stamp EXCEPT ![starts'] = n]
        /\ log_file' = n /\ linked' = TRUE /\ up' = TRUE /\ buffer' = <<>>
        /\ open(n) /\ starts < MaxStarts /\ starts' = starts + 1
        /\ UNCHANGED <<pathExists, written, clean, listing, last, lines>>
    BY <1>1 DEF Logger, open
  <2>2. /\ files' \in Seq(Name) /\ IsInjective(files')
        /\ Range(files') = Range(files) \union {n}
    BY <1>0, <2>1, OpenDirectory
  <2>3. /\ <<>> \in Seq(Line)
        /\ \A m \in Name : content'[m] = IF m = n THEN <<>> ELSE content[m]
    BY <1>0, <2>1 DEF Texts
  <2>4. Texts'
    BY <1>0, <2>1, <2>3 DEF Texts
  <2>5. Flags'
    BY <1>0, <2>1, Zenon DEF Flags
  <2>6. Directory'
    BY <1>0, <2>1, <2>2 DEF Directory
  <2>7. written \in [Run -> Seq(Line)] /\ UNCHANGED <<written, clean>>
    BY <1>0, <2>1 DEF Texts
  <2>8. /\ Runs' /\ starts' \in Run /\ starts' \notin clean
        /\ written[starts'] = <<>> /\ stamp'[starts'] = n
        /\ \A r \in Run : r # starts' /\ LastUnderItsName(r)' =>
             stamp'[r] = stamp[r] /\ stamp[r] # n /\ LastUnderItsName(r)
    BY <1>0, <2>1, <2>7, StartedRuns
  <2>9. LastType'
    BY <1>0, <2>1, <2>8 DEF LastType, Runs
  <2>10. Running'
    BY <1>0, <2>1, <2>2, <2>8, LogStoreAssumption DEF Running
  <2>11. AllBegin'
    <3>1. ASSUME NEW r \in Run, LastUnderItsName(r)'
          PROVE  Begins(content'[stamp'[r]], written[r])
      <4>1. CASE r = starts'
        BY <2>3, <2>8, <4>1, BeginsItself
      <4>2. CASE r # starts'
        <5>1. /\ stamp'[r] = stamp[r] /\ stamp[r] # n /\ LastUnderItsName(r)
          BY <2>8, <3>1, <4>2
        <5>2. stamp[r] \in Name /\ Begins(content[stamp[r]], written[r])
          BY <1>0, <5>1, LastRun DEF AllBegin
        <5> QED BY <2>3, <5>1, <5>2
      <4> QED BY <4>1, <4>2
    <3> QED BY <2>1, <3>1 DEF AllBegin, Begins
  <2>12. Whole'
    <3>1. content'[n] = <<>> /\ <<>> \o <<>> = <<>>
      BY <2>3
    <3> QED BY <2>1, <2>8, <3>1 DEF Whole
  <2>13. Kept'
    <3>1. ASSUME NEW r \in clean, LastUnderItsName(r)', stamp'[r] \in Range(files')
          PROVE  content'[stamp'[r]] = written[r]
      <4>1. r \in Run /\ r # starts'
        BY <1>0, <2>8, LogStoreAssumption DEF Runs, Run
      <4>2. stamp'[r] = stamp[r] /\ stamp[r] # n /\ LastUnderItsName(r)
        BY <2>8, <3>1, <4>1
      <4>3. stamp[r] \in Name /\ stamp[r] \in Range(files)
        BY <1>0, <2>2, <3>1, <4>1, <4>2, LastRun
      <4>4. content[stamp[r]] = written[r]
        BY <1>0, <4>2, <4>3 DEF Kept
      <4> QED BY <2>3, <4>2, <4>3, <4>4
    <3> QED BY <2>1, <3>1 DEF Kept
  <2> QED BY <2>4, <2>5, <2>6, <2>8, <2>9, <2>10, <2>11, <2>12, <2>13 DEF StoreInv
<1>2. CASE ~pathExists
  <2>1. /\ up' = TRUE /\ buffer' = <<>>
        /\ starts < MaxStarts /\ starts' = starts + 1
        /\ UNCHANGED <<files, content, log_file, linked, stamp, written, clean,
                       pathExists, listing, last, lines>>
    BY <1>2 DEF Logger
  <2>2. Texts'
    BY <1>0, <2>1 DEF Texts
  <2>3. Flags'
    BY <1>0, <2>1, Zenon DEF Flags
  <2>4. Runs' /\ starts' \in Run /\ starts' \notin clean /\ stamp[starts'] = None
    <3>1. written \in [Run -> Seq(Line)] /\ UNCHANGED <<written, clean>>
      BY <1>0, <2>1 DEF Texts
    <3>2. Runs' /\ starts' \in Run /\ starts' \notin clean
      BY <1>0, <2>1, <3>1, StartedRuns
    <3>3. starts' > starts
      BY <1>0, <2>1 DEF Runs
    <3> QED BY <1>0, <3>2, <3>3 DEF Runs
  <2>5. LastType'
    BY <1>0, <2>1, <2>4 DEF LastType, Runs
  <2>6. Directory' /\ AllBegin' /\ Kept'
    BY <1>0, <2>1 DEF Directory, AllBegin, Begins, Kept, LastUnderItsName
  <2>7. Running' /\ Whole'
    BY <1>0, <2>1, <2>4 DEF Running, Whole
  <2> QED BY <2>2, <2>3, <2>4, <2>5, <2>6, <2>7 DEF StoreInv
<1> QED BY <1>1, <1>2

-----------------------------------------------------------------------------
(* A line is added to what is written, and to the buffer of the same file.   *)
LEMMA WriteStep ==
  ASSUME StoreInv, write_line
  PROVE  StoreInv'
<1>0. /\ Texts /\ Flags /\ Directory /\ LastType /\ Running /\ AllBegin
      /\ Whole /\ Kept /\ Runs
      /\ lines' = lines + 1
      /\ UNCHANGED <<pathExists, files, content, up, log_file, linked, stamp,
                     clean, listing, last, starts>>
  BY DEF StoreInv, write_line
<1>1. lines' \in Line /\ lines' \in 0..MaxLines
  BY LogStoreAssumption DEF StoreInv, Texts, write_line, Line
<1>2. CASE log_file = None
  <2>1. UNCHANGED <<buffer, written>> /\ ~linked
    BY <1>0, <1>2 DEF write_line, Running
  <2>2. Texts' /\ Directory' /\ LastType' /\ Runs'
    BY <1>0, <1>1, <2>1 DEF Texts, Directory, LastType, Runs
  <2>3. AllBegin' /\ Kept'
    BY <1>0, <2>1 DEF AllBegin, Begins, Kept, LastUnderItsName
  <2>4. Flags' /\ Running' /\ Whole'
    BY <1>0, <2>1 DEF Flags, Running, Whole
  <2> QED BY <2>2, <2>3, <2>4 DEF StoreInv
<1>3. CASE log_file # None
  <2>1. /\ up /\ starts \in Run /\ starts \notin clean /\ log_file \in Name
        /\ stamp[starts] = log_file
        /\ buffer' = Append(buffer, lines')
        /\ written' = [written EXCEPT ![starts] = Append(@, lines')]
    BY <1>0, <1>3, RunUnderWay DEF write_line
  <2>2. /\ \A r \in Run : r # starts => written'[r] = written[r]
        /\ written'[starts] = Append(written[starts], lines')
        /\ written[starts] \in Seq(Line) /\ content[log_file] \in Seq(Line)
        /\ buffer \in Seq(Line)
    BY <1>0, <2>1 DEF Texts
  <2>3. Texts'
    <3>1. Append(buffer, lines') \in Seq(Line)
      BY <1>1, <2>2
    <3>2. Append(written[starts], lines') \in Seq(Line)
      BY <1>1, <2>2
    <3> QED BY <1>0, <1>1, <2>1, <3>1, <3>2 DEF Texts
  <2>4. AllBegin'
    <3>1. ASSUME NEW r \in Run, LastUnderItsName(r)
          PROVE  Begins(content[stamp[r]], written'[r])
      <4>1. stamp[r] \in Name
        BY <1>0, <3>1, LastRun
      <4>2. /\ content[stamp[r]] \in Seq(Line) /\ written[r] \in Seq(Line)
            /\ Begins(content[stamp[r]], written[r])
        BY <1>0, <3>1, <4>1 DEF Texts, AllBegin
      <4>3. CASE r = starts
        BY <1>1, <2>2, <4>2, <4>3, BeginsLonger
      <4>4. CASE r # starts
        BY <2>2, <4>2, <4>4
      <4> QED BY <4>3, <4>4
    <3> QED BY <1>0, <3>1 DEF AllBegin, Begins, LastUnderItsName
  <2>5. Whole'
    <3>1. content[log_file] \o Append(buffer, lines')
            = Append(content[log_file] \o buffer, lines')
      BY <1>1, <2>2, LinesAppend
    <3> QED BY <1>0, <2>1, <2>2, <3>1 DEF Whole
  <2>6. clean \subseteq Run
    BY <1>0, LogStoreAssumption DEF Runs, Run
  <2>7. Kept'
    <3>1. ASSUME NEW r \in clean PROVE written'[r] = written[r]
      BY <2>1, <2>2, <2>6
    <3> QED BY <1>0, <3>1 DEF Kept, LastUnderItsName
  <2>8. Runs'
    <3>1. ASSUME NEW r \in Run, r > starts PROVE written'[r] = <<>>
      <4>1. r # starts
        BY <1>0, <3>1 DEF Runs, Run
      <4> QED BY <1>0, <2>2, <3>1, <4>1 DEF Runs
    <3> QED BY <1>0, <3>1 DEF Runs
  <2>9. Flags' /\ Directory' /\ LastType' /\ Running'
    BY <1>0 DEF Flags, Directory, LastType, Running
  <2> QED BY <2>3, <2>4, <2>5, <2>7, <2>8, <2>9 DEF StoreInv
<1> QED BY <1>2, <1>3

-----------------------------------------------------------------------------
(* Lines go from the buffer to the end of the file.                          *)
LEMMA ToDiskKeeps ==
  ASSUME Texts, AllBegin, Whole, Runs, Running, NEW k \in 0..Len(buffer), ToDisk(k)
  PROVE  LET rest == SubSeq(buffer, k + 1, Len(buffer))
         IN  /\ content' \in [Name -> Seq(Line)] /\ rest \in Seq(Line)
             /\ \A r \in Run : LastUnderItsName(r) =>
                  Begins(content'[stamp[r]], written[r])
             /\ linked => content'[log_file] \o rest = written[starts]
             /\ \A n \in Name : n # log_file => content'[n] = content[n]
<1>1. PICK front \in Seq(Line), rest \in Seq(Line) :
        /\ front = SubSeq(buffer, 1, k)
        /\ rest = SubSeq(buffer, k + 1, Len(buffer))
        /\ front \o rest = buffer
  BY TwoParts DEF Texts
<1>2. CASE ~linked
  BY <1>1, <1>2 DEF ToDisk, Texts, AllBegin
<1>3. CASE linked
  <2>1. /\ log_file # None /\ log_file \in Name
        /\ content[log_file] \in Seq(Line)
        /\ content' = [content EXCEPT ![log_file] = @ \o front]
        /\ content[log_file] \o buffer = written[starts]
    BY <1>1, <1>3, LogStoreAssumption DEF ToDisk, Texts, Whole, Running
  <2>2. content[log_file] \o front \in Seq(Line)
    <3>1. content[log_file] \in Seq(Line) /\ front \in Seq(Line)
      BY <2>1
    <3> QED BY ONLY <3>1, ConcatProperties
  <2>3. /\ content' \in [Name -> Seq(Line)]
        /\ content'[log_file] = content[log_file] \o front
        /\ \A n \in Name : n # log_file => content'[n] = content[n]
    BY <2>1, <2>2 DEF Texts
  <2>4. content'[log_file] \o rest = written[starts]
    <3>1. (content[log_file] \o front) \o rest
            = content[log_file] \o (front \o rest)
      BY <1>1, <2>1, LinesAssociate
    <3> QED BY <1>1, <2>1, <2>3, <3>1
  <2>5. ASSUME NEW r \in Run, LastUnderItsName(r)
        PROVE  Begins(content'[stamp[r]], written[r])
    <3>1. CASE stamp[r] = log_file
      <4>1. r = starts
        BY <2>1, <2>5, <3>1, RunUnderWay
      <4> QED BY <1>1, <2>4, <3>1, <4>1 DEF Begins
    <3>2. CASE stamp[r] # log_file
      <4>1. stamp[r] \in Name
        BY <2>5, LastRun
      <4> QED BY <2>3, <2>5, <3>2, <4>1 DEF AllBegin
    <3> QED BY <3>1, <3>2
  <2> QED BY <1>1, <1>3, <2>3, <2>4, <2>5
<1> QED BY <1>2, <1>3

(* A finished run's log is not the one being written, if it is the last run  *)
(* under its name.                                                           *)
LEMMA KeptStays ==
  ASSUME Runs, Running, Kept, UNCHANGED <<files, stamp, written>>,
         \A n \in Name : n # log_file => content'[n] = content[n]
  PROVE  \A r \in clean : LastUnderItsName(r)' /\ stamp'[r] \in Range(files') =>
           content'[stamp'[r]] = written'[r]
<1> SUFFICES ASSUME NEW r \in clean, LastUnderItsName(r), stamp[r] \in Range(files)
             PROVE  content'[stamp[r]] = written[r]
  BY DEF LastUnderItsName
<1>1. r \in Run
  BY LogStoreAssumption DEF Runs, Run
<1>2. stamp[r] \in Name /\ content[stamp[r]] = written[r]
  BY <1>1, LastRun DEF Kept
<1>3. stamp[r] # log_file
  <2>1. CASE log_file = None
    BY <1>2, <2>1, LogStoreAssumption
  <2>2. CASE log_file # None
    BY <1>1, <2>2, RunUnderWay
  <2> QED BY <2>1, <2>2
<1> QED BY <1>2, <1>3

(* Filling up the buffer keeps it. *)
LEMMA FlushStep ==
  ASSUME StoreInv, Flush
  PROVE  StoreInv'
<1>0. /\ Texts /\ Flags /\ Directory /\ LastType /\ Running /\ AllBegin
      /\ Whole /\ Kept /\ Runs
      /\ UNCHANGED <<pathExists, files, up, log_file, linked, stamp, written,
                     clean, listing, last, lines, starts>>
  BY DEF StoreInv, Flush
<1>1. PICK k \in 0..Len(buffer) :
        ToDisk(k) /\ buffer' = SubSeq(buffer, k + 1, Len(buffer))
  BY <1>0 DEF Flush, Texts
<1>2. /\ content' \in [Name -> Seq(Line)] /\ buffer' \in Seq(Line)
      /\ \A r \in Run : LastUnderItsName(r) => Begins(content'[stamp[r]], written[r])
      /\ linked => content'[log_file] \o buffer' = written[starts]
      /\ \A n \in Name : n # log_file => content'[n] = content[n]
  BY <1>0, <1>1, ToDiskKeeps
<1>3. Texts'
  BY <1>0, <1>2 DEF Texts
<1>4. AllBegin' /\ Whole'
  BY <1>0, <1>2 DEF AllBegin, Whole, Begins, LastUnderItsName
<1>5. Kept'
  BY <1>0, <1>2, KeptStays DEF Kept
<1>6. Flags' /\ Directory' /\ LastType' /\ Running' /\ Runs'
  BY <1>0 DEF Flags, Directory, LastType, Running, Runs
<1> QED BY <1>3, <1>4, <1>5, <1>6 DEF StoreInv

(* The whole buffer is written before the run is over. *)
LEMMA InterruptStep ==
  ASSUME StoreInv, interrupt
  PROVE  StoreInv'
<1>0. /\ Texts /\ Flags /\ Directory /\ LastType /\ Running /\ AllBegin
      /\ Whole /\ Kept /\ Runs
      /\ up /\ up' = FALSE /\ ToDisk(Len(buffer)) /\ buffer' = <<>>
      /\ log_file' = None /\ linked' = FALSE
      /\ clean' = clean \union {starts}
      /\ UNCHANGED <<pathExists, files, stamp, written, listing, last, lines,
                     starts>>
  BY DEF StoreInv, interrupt
<1>1. Len(buffer) \in 0..Len(buffer)
  BY <1>0 DEF Texts
<1> DEFINE rest == SubSeq(buffer, Len(buffer) + 1, Len(buffer))
<1>2. /\ content' \in [Name -> Seq(Line)]
      /\ \A r \in Run : LastUnderItsName(r) => Begins(content'[stamp[r]], written[r])
      /\ linked => content'[log_file] \o rest = written[starts]
      /\ \A n \in Name : n # log_file => content'[n] = content[n]
  BY <1>0, <1>1, ToDiskKeeps
<1>3. rest = <<>>
  BY <1>0, SubSeqEmpty DEF Texts
<1>4. linked => content'[log_file] = written[starts]
  BY <1>0, <1>2, <1>3, LogStoreAssumption, ConcatEmptySeq DEF Running
<1>5. Texts'
  BY <1>0, <1>2 DEF Texts
<1>6. Flags'
  BY <1>0, Zenon DEF Flags
<1>7. AllBegin'
  BY <1>0, <1>2 DEF AllBegin, Begins, LastUnderItsName
<1>8. starts \in Run /\ starts \in 1..starts
  BY <1>0 DEF Running, Runs, Run
<1>9. Running' /\ Runs'
  BY <1>0, <1>8, LogStoreAssumption DEF Running, Runs
<1>10. Whole'
  BY <1>0 DEF Whole
<1>11. Kept'
  <2>1. ASSUME NEW r \in clean', LastUnderItsName(r), stamp[r] \in Range(files)
        PROVE  content'[stamp[r]] = written[r]
    <3>1. CASE r = starts
      <4>1. stamp[starts] = log_file /\ log_file # None
        BY <1>0, <2>1, <3>1 DEF Running, LastUnderItsName
      <4>2. linked
        BY <1>0, <2>1, <3>1, <4>1 DEF Running
      <4> QED BY <1>4, <3>1, <4>1, <4>2
    <3>2. CASE r # starts
      <4>1. r \in clean
        BY <1>0, <2>1, <3>2
      <4> QED BY <1>0, <1>2, <2>1, <4>1, KeptStays DEF LastUnderItsName
    <3> QED BY <3>1, <3>2
  <2> QED BY <1>0, <2>1 DEF Kept, LastUnderItsName
<1>12. Directory' /\ LastType'
  BY <1>0 DEF Directory, LastType
<1> QED BY <1>5, <1>6, <1>7, <1>9, <1>10, <1>11, <1>12 DEF StoreInv

(* A crash may cut the end of the one file that is open. *)
LEMMA CrashStep ==
  ASSUME StoreInv, Crash
  PROVE  StoreInv'
<1>0. /\ Texts /\ Flags /\ Directory /\ LastType /\ Running /\ AllBegin
      /\ Whole /\ Kept /\ Runs
      /\ up' = FALSE /\ buffer' = <<>> /\ log_file' = None /\ linked' = FALSE
      /\ UNCHANGED <<pathExists, files, stamp, written, clean, listing, last,
                     lines, starts>>
  BY DEF StoreInv, Crash
<1>1. /\ content' \in [Name -> Seq(Line)]
      /\ \A r \in Run : LastUnderItsName(r) => Begins(content'[stamp[r]], written[r])
      /\ \A n \in Name : n # log_file => content'[n] = content[n]
  <2>1. CASE ~linked
    BY <1>0, <2>1 DEF Crash, Texts, AllBegin
  <2>2. CASE linked
    <3>1. /\ log_file \in Name /\ log_file # None
          /\ content[log_file] \in Seq(Line)
      BY <1>0, <2>2, LogStoreAssumption DEF Running, Texts
    <3>2. PICK k \in 0..Len(content[log_file]) :
            content' = [content EXCEPT ![log_file] = SubSeq(@, 1, k)]
      BY <2>2 DEF Crash
    <3>3. SubSeq(content[log_file], 1, k) \in Seq(Line)
      <4>1. Begins(content[log_file], content[log_file])
        BY <3>1, BeginsItself
      <4> QED BY <3>1, <4>1, BeginsShorter
    <3>4. /\ content' \in [Name -> Seq(Line)]
          /\ content'[log_file] = SubSeq(content[log_file], 1, k)
          /\ \A n \in Name : n # log_file => content'[n] = content[n]
      BY <1>0, <3>1, <3>2, <3>3 DEF Texts
    <3>5. ASSUME NEW r \in Run, LastUnderItsName(r)
          PROVE  Begins(content'[stamp[r]], written[r])
      <4>1. stamp[r] \in Name /\ Begins(content[stamp[r]], written[r])
            /\ written[r] \in Seq(Line)
        BY <1>0, <3>5, LastRun DEF AllBegin, Texts
      <4>2. CASE stamp[r] = log_file
        BY <3>1, <3>4, <4>1, <4>2, BeginsShorter
      <4>3. CASE stamp[r] # log_file
        BY <3>4, <4>1, <4>3
      <4> QED BY <4>2, <4>3
    <3> QED BY <3>4, <3>5
  <2> QED BY <2>1, <2>2
<1>2. Texts'
  BY <1>0, <1>1 DEF Texts
<1>3. Flags'
  BY <1>0, Zenon DEF Flags
<1>4. AllBegin'
  BY <1>0, <1>1 DEF AllBegin, Begins, LastUnderItsName
<1>5. Running' /\ Runs'
  BY <1>0, LogStoreAssumption DEF Running, Runs
<1>6. Whole'
  BY <1>0 DEF Whole
<1>7. Kept'
  BY <1>0, <1>1, KeptStays DEF Kept
<1>8. Directory' /\ LastType'
  BY <1>0 DEF Directory, LastType
<1> QED BY <1>2, <1>3, <1>4, <1>5, <1>6, <1>7, <1>8 DEF StoreInv

-----------------------------------------------------------------------------
(* The file a command takes is one of the directory, or none. *)
LEMMA FileOfType ==
  ASSUME Directory, NEW id \in Int
  PROVE  FileOf(id) \in Range(files) \/ FileOf(id) = None
<1>1. Len(files) \in Int
  BY DEF Directory
<1>2. CASE id \in 1..Len(files)
  BY <1>2, RangePlaces DEF FileOf, Directory
<1>3. CASE id \notin 1..Len(files) /\ Len(files) + id \in 1..Len(files)
  BY <1>3, RangePlaces DEF FileOf, Directory
<1>4. CASE id \notin 1..Len(files) /\ Len(files) + id \notin 1..Len(files)
  BY <1>4 DEF FileOf
<1> QED BY <1>2, <1>3, <1>4

(* What is noted of a command has its type. *)
LEMMA TookType ==
  ASSUME Directory, NEW cmd \in Command, NEW id \in Int,
         NEW f \in Name \union {None}, Took(cmd, id, f)
  PROVE  last' \in [cmd : Command, id : Int, fresh : BOOLEAN,
                    shown : Name \union {None}, file : Name \union {None}]
<1> DEFINE shown == IF id \in 1..Len(listing) THEN listing[id] ELSE None
           fresh == listing = files
<1>1. shown \in Name \union {None}
  BY DEF Directory
<1>2. fresh \in BOOLEAN
  OBVIOUS
<1>3. last' = [cmd |-> cmd, id |-> id, fresh |-> fresh, shown |-> shown,
               file |-> f]
  BY Zenon DEF Took
<1> HIDE DEF shown, fresh
<1> QED BY <1>1, <1>2, <1>3

(* A command leaves the directory as it is or takes the one file out of it   *)
(* that it says it took.                                                     *)
LEMMA CommandEffect ==
  ASSUME StoreInv, execute_cmd
  PROVE  /\ files' \in Seq(Name) /\ IsInjective(files')
         /\ listing' \in Seq(Name)
         /\ last' \in [cmd : Command, id : Int, fresh : BOOLEAN,
                       shown : Name \union {None}, file : Name \union {None}]
         /\ \/ UNCHANGED <<files, linked>>
            \/ /\ last'.cmd = "delete_log" /\ last'.file \in Range(files)
               /\ Range(files') = Range(files) \ {last'.file}
               /\ linked' = (linked /\ last'.file # log_file)
<1>0. /\ Directory /\ Running /\ Range(files) \subseteq Name
      /\ Flags /\ None \in Name \union {None}
  BY InjectiveRange DEF StoreInv
<1>1. ASSUME NEW cmd \in Command, NEW id \in Int, Raises(cmd, id)
      PROVE  /\ UNCHANGED <<files, listing, linked>>
             /\ last' \in [cmd : Command, id : Int, fresh : BOOLEAN,
                           shown : Name \union {None},
                           file : Name \union {None}]
  BY <1>0, <1>1, TookType DEF Raises
<1>2. CASE available_logs
  <2>1. CASE Raises("available_logs", 0)
    BY <1>0, <1>1, <2>1 DEF Command, Directory
  <2>2. CASE /\ listing' = files /\ Took("available_logs", 0, None)
             /\ UNCHANGED <<files, linked>>
    BY <1>0, <2>2, TookType DEF Command, Directory
  <2> QED BY <1>2, <2>1, <2>2 DEF available_logs
<1>3. ASSUME NEW id \in Ids, get_log(id)
      PROVE  /\ UNCHANGED <<files, linked, listing>>
             /\ last' \in [cmd : Command, id : Int, fresh : BOOLEAN,
                           shown : Name \union {None},
                           file : Name \union {None}]
  <2>1. id \in Int /\ "read_log" \in Command
    BY LogStoreAssumption DEF Command
  <2>2. FileOf(id) \in Name \union {None}
    BY <1>0, <2>1, FileOfType
  <2>3. CASE Raises("read_log", id)
    BY <1>1, <2>1, <2>3
  <2>4. CASE /\ Took("read_log", id, FileOf(id))
             /\ UNCHANGED <<files, linked, listing>>
    BY <1>0, <2>1, <2>2, <2>4, TookType
  <2> QED BY <1>3, <2>3, <2>4 DEF get_log
<1>4. ASSUME NEW id \in Ids, remove_log(id)
      PROVE  /\ files' \in Seq(Name) /\ IsInjective(files')
             /\ listing' = listing
             /\ last' \in [cmd : Command, id : Int, fresh : BOOLEAN,
                           shown : Name \union {None},
                           file : Name \union {None}]
             /\ \/ UNCHANGED <<files, linked>>
                \/ /\ last'.cmd = "delete_log" /\ last'.file \in Range(files)
                   /\ Range(files') = Range(files) \ {last'.file}
                   /\ linked' = (linked /\ last'.file # log_file)
  <2>1. id \in Int /\ "delete_log" \in Command
    BY LogStoreAssumption DEF Command
  <2>2. FileOf(id) \in Name \union {None}
    BY <1>0, <2>1, FileOfType
  <2>3. CASE Raises("delete_log", id)
    BY <1>0, <1>1, <2>1, <2>3 DEF Directory
  <2>4. CASE /\ Took("delete_log", id, FileOf(id)) /\ remove(FileOf(id))
             /\ linked' = (linked /\ FileOf(id) # log_file)
             /\ listing' = listing
    <3>1. /\ last' \in [cmd : Command, id : Int, fresh : BOOLEAN,
                        shown : Name \union {None}, file : Name \union {None}]
          /\ last'.cmd = "delete_log" /\ last'.file = FileOf(id)
      BY <1>0, <2>1, <2>2, <2>4, TookType DEF Took
    <3>2. CASE FileOf(id) \in Range(files)
      <4>1. PICK i \in 1..Len(files) :
              files[i] = FileOf(id) /\ files' = RemoveAt(files, i)
        BY <2>4, <3>2 DEF remove
      <4>2. /\ files' \in Seq(Name) /\ IsInjective(files')
            /\ Range(files') = Range(files) \ {FileOf(id)}
        BY <1>0, <4>1, RemoveName DEF Directory
      <4> QED BY <2>4, <3>1, <3>2, <4>2, Zenon
    <3>3. CASE FileOf(id) \notin Range(files)
      <4>1. FileOf(id) = None /\ files' = files
        BY <1>0, <2>1, <2>4, <3>3, FileOfType DEF remove
      <4>2. linked => log_file # None
        BY <1>0 DEF Running
      <4>3. linked' = linked
        BY <1>0, <2>4, <4>1, <4>2, Zenon DEF Flags
      <4> QED BY <1>0, <2>4, <3>1, <4>1, <4>3 DEF Directory
    <3> QED BY <3>2, <3>3
  <2> QED BY <1>4, <2>3, <2>4 DEF remove_log
<1>5. files \in Seq(Name) /\ IsInjective(files) /\ listing \in Seq(Name)
  BY <1>0 DEF Directory
<1>6. CASE \E id \in Ids : get_log(id)
  BY <1>3, <1>5, <1>6
<1>7. CASE \E id \in Ids : remove_log(id)
  BY <1>4, <1>5, <1>7, Zenon
<1> QED BY <1>2, <1>6, <1>7 DEF execute_cmd

(* So do the commands. *)
LEMMA CommandStep ==
  ASSUME StoreInv, execute_cmd
  PROVE  StoreInv'
<1>0. /\ Texts /\ Flags /\ Directory /\ LastType /\ Running /\ AllBegin
      /\ Whole /\ Kept /\ Runs /\ Range(files) \subseteq Name
      /\ UNCHANGED <<pathExists, content, up, log_file, buffer, stamp, written,
                     clean, lines, starts>>
  BY InjectiveRange DEF StoreInv, execute_cmd
<1>1. /\ files' \in Seq(Name) /\ IsInjective(files') /\ listing' \in Seq(Name)
      /\ last' \in [cmd : Command, id : Int, fresh : BOOLEAN,
                    shown : Name \union {None}, file : Name \union {None}]
  BY CommandEffect
<1>2. \/ UNCHANGED <<files, linked>>
      \/ /\ last'.file \in Range(files)
         /\ Range(files') = Range(files) \ {last'.file}
         /\ linked' = (linked /\ last'.file # log_file)
  BY CommandEffect, Zenon
<1>3. Texts' /\ Directory' /\ LastType' /\ AllBegin' /\ Runs'
  BY <1>0, <1>1 DEF Texts, Directory, LastType, AllBegin, Begins, Runs,
                    LastUnderItsName
<1>4. Flags'
  BY <1>0, <1>2, Zenon DEF Flags
<1>5. Range(files') \subseteq Range(files) /\ (linked' => linked)
  <2>1. CASE UNCHANGED <<files, linked>>
    BY <2>1
  <2>2. CASE /\ Range(files') = Range(files) \ {last'.file}
             /\ linked' = (linked /\ last'.file # log_file)
    BY <2>2
  <2> QED BY <1>2, <2>1, <2>2
<1>6. Whole' /\ Kept'
  BY <1>0, <1>5 DEF Whole, Kept, LastUnderItsName
<1>7. Running'
  <2>1. CASE UNCHANGED <<files, linked>>
    BY <1>0, <2>1 DEF Running
  <2>2. CASE /\ last'.file \in Range(files)
             /\ Range(files') = Range(files) \ {last'.file}
             /\ linked' = (linked /\ last'.file # log_file)
    BY <1>0, <2>2 DEF Running
  <2> QED BY <1>2, <2>1, <2>2
<1> QED BY <1>3, <1>4, <1>6, <1>7 DEF StoreInv

(* Every step keeps the invariant. *)
LEMMA StoreInvStep == StoreInv /\ [Next]_vars => StoreInv'
<1>1. CASE StoreInv /\ Next
  BY <1>1, LoggerStep, WriteStep, CommandStep, FlushStep, InterruptStep,
     CrashStep DEF Next
<1>2. CASE StoreInv /\ UNCHANGED vars
  <2>1. Texts' /\ Directory' /\ LastType' /\ AllBegin'
    BY <1>2 DEF vars, StoreInv, Texts, Directory, LastType, AllBegin, Begins,
                LastUnderItsName
  <2>2. Flags' /\ Running' /\ Whole' /\ Kept' /\ Runs'
    BY <1>2 DEF vars, StoreInv, Flags, Running, Whole, Kept, Runs,
                LastUnderItsName
  <2> QED BY <2>1, <2>2 DEF StoreInv
<1> QED BY <1>1, <1>2

(* So it is an invariant of the log store. *)
LEMMA StoreInvHolds == Spec => []StoreInv
BY StoreInvInit, StoreInvStep, PTL DEF Spec

(* A log in the directory holds the beginning of what the last run under its *)
(* name wrote, and with the buffer all of it, whatever crashed, restarted or *)
(* was deleted.                                                              *)
THEOREM DiskIsPrefixHolds == Spec => []DiskIsPrefix
BY StoreInvHolds, StoreInvImplies, PTL

(* What a run logged that Ctrl-C stopped is all in its log, until the log is *)
(* deleted or a later run is started under the same time stamp.              *)
THEOREM CleanStopKeepsEverythingHolds == Spec => []CleanStopKeepsEverything
BY StoreInvHolds, StoreInvImplies, PTL

(* A log is changed by the run that writes it only, and goes only when it is *)
(* the one that is deleted.                                                  *)
THEOREM OthersUntouchedHolds == Spec => OthersUntouched
<1> DEFINE Untouched ==
      \A n \in Range(files) :
        /\ \/ n \in Range(files')
           \/ last'.cmd = "delete_log" /\ last'.file = n
        /\ n \notin {log_file, log_file'} => content'[n] = content[n]
<1>1. ASSUME StoreInv, Next PROVE Untouched
  <2>1. Texts /\ AllBegin /\ Whole /\ Directory /\ Running
        /\ Range(files) \subseteq Name /\ (linked => log_file \in Name)
    BY <1>1, InjectiveRange DEF StoreInv, Running
  <2>2. ASSUME NEW n \in Name, Logger(n) PROVE Untouched
    <3>1. CASE pathExists
      <4>1. /\ open(n) /\ log_file' = n
            /\ content' = [content EXCEPT ![n] = <<>>]
        BY <2>2, <3>1 DEF Logger, open
      <4>2. Range(files') = Range(files) \union {n}
        BY <2>1, <4>1, OpenDirectory
      <4> QED BY <2>1, <4>1, <4>2 DEF Texts
    <3>2. CASE ~pathExists
      BY <2>2, <3>2 DEF Logger
    <3> QED BY <3>1, <3>2
  <2>3. CASE write_line
    BY <2>3 DEF write_line
  <2>4. CASE execute_cmd
    <3>1. content' = content
      BY <2>4 DEF execute_cmd
    <3>2. \/ files' = files
          \/ /\ last'.cmd = "delete_log"
             /\ Range(files') = Range(files) \ {last'.file}
      BY <1>1, <2>4, CommandEffect, Zenon
    <3> QED BY <3>1, <3>2
  <2>5. CASE Flush
    <3>1. PICK k \in 0..Len(buffer) : ToDisk(k)
      BY <2>1, <2>5 DEF Flush, Texts
    <3>2. \A n \in Name : n # log_file => content'[n] = content[n]
      BY <1>1, <2>1, <3>1, ToDiskKeeps DEF StoreInv
    <3> QED BY <2>1, <2>5, <3>2 DEF Flush
  <2>6. CASE interrupt
    <3>1. Len(buffer) \in 0..Len(buffer) /\ ToDisk(Len(buffer))
      BY <2>1, <2>6 DEF interrupt, Texts
    <3>2. \A n \in Name : n # log_file => content'[n] = content[n]
      BY <1>1, <2>1, <3>1, ToDiskKeeps DEF StoreInv
    <3> QED BY <2>1, <2>6, <3>2 DEF interrupt
  <2>7. CASE Crash
    BY <2>1, <2>7 DEF Crash, Texts
  <2> QED BY <1>1, <2>2, <2>3, <2>4, <2>5, <2>6, <2>7 DEF Next
<1>2. StoreInv /\ [Next]_vars => [Untouched]_vars
  BY <1>1
<1> HIDE DEF Untouched
<1>3. Spec => [][Untouched]_vars
  BY <1>2, StoreInvHolds, PTL DEF Spec
<1> QED BY <1>3 DEF OthersUntouched, Untouched

-----------------------------------------------------------------------------
(* Without the directory there is nothing in it. *)
NoPathNoFiles == ~pathExists => files = <<>>

(* The step that takes a file: the listing at that moment decides.           *)
LEMMA TakesWhatIsShown ==
  ASSUME Directory, NEW cmd \in Command, NEW id \in Int, NEW f,
         Took(cmd, id, f),
         id >= 1 /\ listing = files => \/ f = FileOf(id)
                                       \/ f = None /\ files = <<>>
  PROVE  last'.fresh /\ last'.id >= 1 => last'.file = last'.shown
<1>1. /\ last'.fresh = (listing = files) /\ last'.id = id /\ last'.file = f
      /\ last'.shown = IF id \in 1..Len(listing) THEN listing[id] ELSE None
  BY DEF Took
<1>2. SUFFICES ASSUME listing = files, id >= 1
               PROVE  f = IF id \in 1..Len(files) THEN files[id] ELSE None
  BY <1>1
<1>3. Len(files) \in Nat
  BY DEF Directory
<1>4. FileOf(id) = IF id \in 1..Len(files) THEN files[id] ELSE None
  <2>1. Len(files) + id \notin 1..Len(files)
    BY <1>2, <1>3
  <2> QED BY <2>1 DEF FileOf
<1>5. CASE f = FileOf(id)
  BY <1>4, <1>5
<1>6. CASE f = None /\ files = <<>>
  BY <1>6
<1> QED BY <1>2, <1>5, <1>6

(* A fresh id means the log it was listed with, for any ids clients send.    *)
THEOREM FreshIdsAreRightHolds == Spec => []FreshIdsAreRight
<1>1. Init => FreshIdsAreRight /\ NoPathNoFiles
  BY DEF Init, NoCommand, FreshIdsAreRight, NoPathNoFiles
<1>2. StoreInv /\ FreshIdsAreRight /\ NoPathNoFiles /\ [Next]_vars =>
        FreshIdsAreRight' /\ NoPathNoFiles'
  <2>1. SUFFICES ASSUME StoreInv, FreshIdsAreRight, NoPathNoFiles, [Next]_vars
                 PROVE  FreshIdsAreRight' /\ NoPathNoFiles'
    OBVIOUS
  <2>2. Directory
    BY <2>1 DEF StoreInv
  <2>3. ASSUME NEW n \in Name, Logger(n)
        PROVE  FreshIdsAreRight' /\ NoPathNoFiles'
    BY <2>1, <2>3 DEF Logger, FreshIdsAreRight, NoPathNoFiles
  <2>4. CASE write_line \/ Flush \/ interrupt \/ Crash \/ UNCHANGED vars
    BY <2>1, <2>4
       DEF write_line, Flush, interrupt, Crash, vars, FreshIdsAreRight,
           NoPathNoFiles
  <2>5. CASE execute_cmd
    <3>0. pathExists' = pathExists
      BY <2>5 DEF execute_cmd
    <3>1. ASSUME NEW cmd \in Command, NEW id \in Int, Raises(cmd, id)
          PROVE  FreshIdsAreRight' /\ NoPathNoFiles'
      BY <2>1, <2>2, <3>0, <3>1, TakesWhatIsShown
         DEF Raises, FreshIdsAreRight, NoPathNoFiles
    <3>2. CASE available_logs
      <4>1. CASE Raises("available_logs", 0)
        BY <3>1, <4>1 DEF Command
      <4>2. CASE pathExists /\ Took("available_logs", 0, None)
        BY <3>0, <4>2 DEF Took, FreshIdsAreRight, NoPathNoFiles
      <4> QED BY <3>2, <4>1, <4>2 DEF available_logs
    <3>3. ASSUME NEW id \in Ids, get_log(id) \/ remove_log(id)
          PROVE  FreshIdsAreRight' /\ NoPathNoFiles'
      <4>1. id \in Int /\ {"read_log", "delete_log"} \subseteq Command
        BY LogStoreAssumption DEF Command
      <4>2. CASE \E cmd \in {"read_log", "delete_log"} : Raises(cmd, id)
        BY <3>1, <4>1, <4>2
      <4>3. CASE /\ pathExists
                 /\ \E cmd \in {"read_log", "delete_log"} :
                      Took(cmd, id, FileOf(id))
        BY <2>2, <3>0, <4>1, <4>3, TakesWhatIsShown
           DEF FreshIdsAreRight, NoPathNoFiles
      <4> QED BY <3>3, <4>2, <4>3 DEF get_log, remove_log
    <3> QED BY <2>5, <3>2, <3>3 DEF execute_cmd
  <2> QED BY <2>1, <2>3, <2>4, <2>5 DEF Next
<1> QED BY <1>1, <1>2, StoreInvHolds, PTL DEF Spec
=============================================================================
