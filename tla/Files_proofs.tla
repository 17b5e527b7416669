----------------------------- MODULE Files_proofs -----------------------------
(* Proofs about what is kept in files and sent through them: the history of a  *)
(* conversation, read page by page while lines are added to it and rewritten;  *)
(* a folder, received chunk by chunk over several streams; and the written     *)
(* forms of messages, records and profiles.  The first two are read by loops,   *)
(* so what a loop has read so far is reasoned about by induction.             *)
EXTENDS HistoryStore, FolderTransfers, Codecs, WellFoundedInduction,
        SequenceTheorems, FiniteSetTheorems, TLAPS

-----------------------------------------------------------------------------
(* Induction.  It is stated with a set, the numbers that have a property.     *)

LEMMA LeastNumber ==
  ASSUME NEW T \in SUBSET Nat, T # {}
  PROVE  \E n \in T : \A k \in T : n <= k
PROOF
  <1>. DEFINE R == {ss \in Nat \X Nat : ss[1] < ss[2]}
  <1>1. IsWellFoundedOn(R, Nat)
    BY NatLessThanWellFounded DEF OpToRel
  <1>2. \A n, k \in Nat : k < n => <<k, n>> \in R
    OBVIOUS
  <1>. HIDE DEF R
  <1>3. T \subseteq Nat /\ T # {}
    OBVIOUS
  <1>4. PICK n \in T : \A k \in T : ~(<<k, n>> \in R)
    BY <1>1, <1>3, WFMin, Zenon
  <1>5. \A k \in T : ~(k < n)
    BY <1>2, <1>4
  <1>. QED BY <1>5

LEMMA NumbersByInduction ==
  ASSUME NEW G, 0 \in G, \A n \in Nat : n \in G => n + 1 \in G
  PROVE  Nat \subseteq G
PROOF
  <1>. SUFFICES ASSUME Nat \ G # {}
                PROVE  FALSE
    OBVIOUS
  <1>1. PICK n \in Nat \ G : \A k \in Nat \ G : n <= k
    BY LeastNumber
  <1>2. n # 0 /\ n - 1 \in Nat
    BY <1>1
  <1>3. n - 1 \in G
    BY <1>1, <1>2
  <1>. QED BY <1>1, <1>2, <1>3

-----------------------------------------------------------------------------
(* What is read from a file.                                                *)

Lines == Seq(Messages \union {Damaged})

\* The readers' loop over the lines is well-defined.
LEMMA ValidIsRead ==
  ASSUME NEW file, file.lines \in Lines
  PROVE  \E upTo :
           /\ upTo[0] = <<>>
           /\ \A n \in 1 .. Len(file.lines) :
                upTo[n] = IF file.lines[n] = Damaged THEN upTo[n - 1]
                          ELSE Append(upTo[n - 1], file.lines[n])
           /\ Valid(file) = upTo[Len(file.lines)]
PROOF
  <1>1. PICK lines, end : lines = file.lines /\ end = Len(file.lines)
    OBVIOUS
  <1>2. end \in Nat
    BY <1>1 DEF Lines
  <1>. DEFINE Read(g, n) == IF n = 0 THEN <<>>
                            ELSE IF lines[n] = Damaged THEN g[n - 1]
                            ELSE Append(g[n - 1], lines[n])
              G == {n \in Nat : \E g : g = [k \in 0 .. n |-> Read(g, k)]}
  <1>3. 0 \in G
    <2>. DEFINE g == [k \in 0 .. 0 |-> <<>>]
    <2>1. g = [k \in 0 .. 0 |-> Read(g, k)]
      OBVIOUS
    <2>. QED BY <2>1
  <1>4. ASSUME NEW n \in Nat, n \in G
        PROVE  n + 1 \in G
    <2>1. PICK g : g = [k \in 0 .. n |-> Read(g, k)]
      BY <1>4
    <2>2. PICK h : h = [k \in 0 .. n + 1 |-> IF k \in 0 .. n THEN g[k] ELSE Read(g, k)]
      OBVIOUS
    <2>3. \A k \in 0 .. n : h[k] = g[k]
      BY <2>2
    <2>4. \A k \in 0 .. n + 1 : h[k] = Read(g, k)
      <3>. TAKE k \in 0 .. n + 1
      <3>. HIDE DEF Read
      <3>1. k \in 0 .. n => g[k] = Read(g, k)
        BY <2>1
      <3>. QED BY <2>2, <3>1
    <2>5. \A k \in 0 .. n + 1 : Read(g, k) = Read(h, k)
      <3>. TAKE k \in 0 .. n + 1
      <3>1. k # 0 => g[k - 1] = h[k - 1]
        BY <2>3
      <3>. QED BY <3>1
    <2>. HIDE DEF Read
    <2>6. \A k \in 0 .. n + 1 : h[k] = Read(h, k)
      BY <2>4, <2>5
    <2>7. h = [k \in 0 .. n + 1 |-> h[k]]
      BY <2>2
    <2>8. h = [k \in 0 .. n + 1 |-> Read(h, k)]
      BY <2>6, <2>7, Zenon
    <2>. QED BY <2>8
  <1>. HIDE DEF G
  <1>5. end \in G
    BY <1>2, <1>3, <1>4, NumbersByInduction
  <1>6. \E g : g = [n \in 0 .. Len(file.lines) |->
                      IF n = 0 THEN <<>>
                      ELSE IF file.lines[n] = Damaged THEN g[n - 1]
                      ELSE Append(g[n - 1], file.lines[n])]
    BY <1>1, <1>5, Zenon DEF G
  <1>7. PICK upTo :
          /\ upTo = [n \in 0 .. Len(file.lines) |->
                       IF n = 0 THEN <<>>
                       ELSE IF file.lines[n] = Damaged THEN upTo[n - 1]
                       ELSE Append(upTo[n - 1], file.lines[n])]
          /\ Valid(file) = upTo[Len(file.lines)]
    BY <1>6, Zenon DEF Valid
  <1>8. \A n \in 0 .. end : upTo[n] = IF n = 0 THEN <<>>
                                      ELSE IF lines[n] = Damaged THEN upTo[n - 1]
                                      ELSE Append(upTo[n - 1], lines[n])
    BY <1>1, <1>7, Zenon
  <1>9. upTo[0] = <<>>
    BY <1>2, <1>8
  <1>10. \A n \in 1 .. end : upTo[n] = IF lines[n] = Damaged THEN upTo[n - 1]
                                       ELSE Append(upTo[n - 1], lines[n])
    BY <1>2, <1>8
  <1>. QED BY <1>1, <1>7, <1>9, <1>10

\* x is the record of the first line that is not damaged.
FirstIs(file, x) ==
  \E k \in 1 .. Len(file.lines) :
    /\ file.lines[k] = x /\ x # Damaged
    /\ \A j \in 1 .. k - 1 : file.lines[j] = Damaged

\* s are the records of the first n lines.
ReadFrom(s, lines, n) ==
  /\ s \in Seq(Messages)
  /\ \A i \in 1 .. Len(s) : \E j \in 1 .. n : lines[j] = s[i]
  /\ \A j \in 1 .. n : lines[j] # Damaged => \E i \in 1 .. Len(s) : s[i] = lines[j]
  /\ s # <<>> => \E k \in 1 .. n :
                   /\ lines[k] = s[1]
                   /\ \A j \in 1 .. k - 1 : lines[j] = Damaged

LEMMA OneLineMore ==
  ASSUME NEW end \in Nat, NEW lines \in [1 .. end -> Messages \union {Damaged}],
         NEW n \in 0 .. end - 1, NEW s, ReadFrom(s, lines, n)
  PROVE  ReadFrom(IF lines[n + 1] = Damaged THEN s ELSE Append(s, lines[n + 1]),
                  lines, n + 1)
PROOF
  <1>1. \A i \in 1 .. n + 1 : i \in 1 .. n \/ i = n + 1
    OBVIOUS
  <1>2. 1 .. n \subseteq 1 .. n + 1 /\ n + 1 \in 1 .. n + 1
    OBVIOUS
  <1>3. /\ s \in Seq(Messages)
        /\ \A i \in 1 .. Len(s) : \E j \in 1 .. n : lines[j] = s[i]
        /\ \A j \in 1 .. n : lines[j] # Damaged => \E i \in 1 .. Len(s) : s[i] = lines[j]
        /\ s # <<>> => \E k \in 1 .. n :
                         /\ lines[k] = s[1]
                         /\ \A j \in 1 .. k - 1 : lines[j] = Damaged
    BY DEF ReadFrom
  <1>4. CASE lines[n + 1] = Damaged
    <2>1. ReadFrom(s, lines, n + 1)
      BY <1>1, <1>2, <1>3, <1>4, Zenon DEF ReadFrom
    <2>. QED BY <1>4, <2>1
  <1>5. CASE lines[n + 1] # Damaged
    <2>1. PICK t : t = Append(s, lines[n + 1])
      OBVIOUS
    <2>2. lines[n + 1] \in Messages
      BY <1>5
    <2>3. t \in Seq(Messages) /\ Len(s) \in Nat /\ Len(t) = Len(s) + 1 /\ t # <<>>
      BY <1>3, <2>1, <2>2
    <2>4. t[Len(s) + 1] = lines[n + 1] /\ \A i \in 1 .. Len(s) : t[i] = s[i]
      BY <1>3, <2>1, <2>2
    <2>5. \A i \in 1 .. Len(t) : \E j \in 1 .. n + 1 : lines[j] = t[i]
      <3>. TAKE i \in 1 .. Len(t)
      <3>1. i \in 1 .. Len(s) \/ i = Len(s) + 1
        BY <2>3
      <3>. QED BY <1>2, <1>3, <2>4, <3>1
    <2>6. 1 .. Len(s) \subseteq 1 .. Len(t) /\ Len(s) + 1 \in 1 .. Len(t)
      BY <2>3
    <2>7. \A j \in 1 .. n + 1 : lines[j] # Damaged => \E i \in 1 .. Len(t) : t[i] = lines[j]
      BY <1>1, <1>3, <2>4, <2>6
    <2>8. \E k \in 1 .. n + 1 : /\ lines[k] = t[1]
                                /\ \A j \in 1 .. k - 1 : lines[j] = Damaged
      <3>1. CASE s = <<>>
        <4>1. t[1] = lines[n + 1]
          BY <2>4, <3>1
        <4>2. \A j \in 1 .. n : lines[j] = Damaged
          BY <1>3, <3>1
        <4>. QED BY <4>1, <4>2
      <3>2. CASE s # <<>>
        <4>1. t[1] = s[1]
          BY <1>3, <2>4, <3>2
        <4>. QED BY <1>2, <1>3, <3>2, <4>1
      <3>. QED BY <3>1, <3>2
    <2>9. ReadFrom(t, lines, n + 1)
      BY <2>3, <2>5, <2>7, <2>8 DEF ReadFrom
    <2>. QED BY <1>5, <2>1, <2>9
  <1>. QED BY <1>4, <1>5

\* A reader finds every record, in particular the first one first.
LEMMA ReadersFindAll ==
  ASSUME NEW file, file.lines \in Lines
  PROVE  /\ Valid(file) \in Seq(Messages)
         /\ Ids(Valid(file)) = Stored(file)
         /\ \A x : FirstIs(file, x) <=> (Valid(file) # <<>> /\ Valid(file)[1] = x)
PROOF
  <1>1. PICK upTo :
          /\ upTo[0] = <<>>
          /\ \A n \in 1 .. Len(file.lines) :
               upTo[n] = IF file.lines[n] = Damaged THEN upTo[n - 1]
                         ELSE Append(upTo[n - 1], file.lines[n])
          /\ Valid(file) = upTo[Len(file.lines)]
    BY ValidIsRead
  <1>2. PICK lines, end : lines = file.lines /\ end = Len(file.lines)
    OBVIOUS
  <1>3. end \in Nat /\ lines \in [1 .. end -> Messages \union {Damaged}]
    BY <1>2 DEF Lines
  <1>. DEFINE G == {n \in Nat : n <= end => ReadFrom(upTo[n], lines, n)}
  <1>4. 0 \in G
    <2>1. ReadFrom(<<>>, lines, 0)
      BY DEF ReadFrom
    <2>. QED BY <1>1, <2>1
  <1>5. ASSUME NEW n \in Nat, n \in G
        PROVE  n + 1 \in G
    <2>1. ASSUME n + 1 <= end
          PROVE  ReadFrom(upTo[n + 1], lines, n + 1)
      <3>1. n \in 0 .. end - 1 /\ n + 1 \in 1 .. end /\ (n + 1) - 1 = n
        BY <1>3, <2>1
      <3>2. ReadFrom(upTo[n], lines, n)
        BY <1>3, <1>5, <3>1
      <3>3. upTo[n + 1] = IF lines[n + 1] = Damaged THEN upTo[n]
                          ELSE Append(upTo[n], lines[n + 1])
        BY <1>1, <1>2, <3>1
      <3>. QED BY <1>3, <3>1, <3>2, <3>3, OneLineMore
    <2>. QED BY <2>1
  <1>. HIDE DEF G
  <1>6. end \in G
    BY <1>3, <1>4, <1>5, NumbersByInduction
  <1>7. PICK v : v = Valid(file)
    OBVIOUS
  <1>8. ReadFrom(v, lines, end)
    BY <1>1, <1>2, <1>3, <1>6, <1>7 DEF G
  <1>9. Ids(v) = Stored(file)
    <2>1. DOMAIN v = 1 .. Len(v) /\ DOMAIN lines = 1 .. end
      BY <1>3, <1>8 DEF ReadFrom
    <2>2. \A i \in 1 .. Len(v) : v[i] \in Messages
      BY <1>8 DEF ReadFrom
    <2>3. \A i \in 1 .. Len(v) : v[i] # Damaged
      BY <2>2, DamagedAssumption
    <2>4. Ids(v) = {v[i] : i \in 1 .. Len(v)} /\ Stored(file) = {lines[i] : i \in 1 .. end} \ {Damaged}
      <3>1. \A i \in DOMAIN v : v[i] # Damaged
        BY <2>1, <2>3
      <3>2. Damaged \notin {v[i] : i \in DOMAIN v}
        BY <3>1, Zenon
      <3>. QED BY <1>2, <2>1, <3>2 DEF Ids, Stored
    <2>5. ASSUME NEW x \in Ids(v)
          PROVE  x \in Stored(file)
      <3>1. PICK i \in 1 .. Len(v) : v[i] = x
        BY <2>4
      <3>2. PICK j \in 1 .. end : lines[j] = v[i]
        BY <1>8 DEF ReadFrom
      <3>. QED BY <2>3, <2>4, <3>1, <3>2
    <2>6. ASSUME NEW x \in Stored(file)
          PROVE  x \in Ids(v)
      <3>1. PICK j \in 1 .. end : lines[j] = x /\ x # Damaged
        BY <2>4
      <3>2. PICK i \in 1 .. Len(v) : v[i] = lines[j]
        BY <1>8, <3>1 DEF ReadFrom
      <3>. QED BY <2>4, <3>1, <3>2
    <2>. QED BY <2>5, <2>6
  <1>10. ASSUME NEW x
         PROVE  FirstIs(file, x) <=> (v # <<>> /\ v[1] = x)
    <2>1. FirstIs(file, x) <=> \E k \in 1 .. end :
            /\ lines[k] = x /\ x # Damaged /\ \A j \in 1 .. k - 1 : lines[j] = Damaged
      BY <1>2, Zenon DEF FirstIs
    <2>2. v # <<>> => v[1] # Damaged
      BY <1>8, DamagedAssumption DEF ReadFrom
    <2>3. ASSUME NEW k \in 1 .. end, NEW l \in 1 .. end,
                 lines[k] # Damaged, \A j \in 1 .. k - 1 : lines[j] = Damaged,
                 lines[l] # Damaged, \A j \in 1 .. l - 1 : lines[j] = Damaged
          PROVE  k = l
      BY <1>3, <2>3
    <2>4. ASSUME v # <<>>, v[1] = x
          PROVE  FirstIs(file, x)
      BY <1>8, <2>1, <2>2, <2>4 DEF ReadFrom
    <2>5. ASSUME FirstIs(file, x)
          PROVE  v # <<>> /\ v[1] = x
      <3>1. PICK k \in 1 .. end :
              /\ lines[k] = x /\ x # Damaged /\ \A j \in 1 .. k - 1 : lines[j] = Damaged
        BY <2>1, <2>5
      <3>2. v # <<>>
        BY <1>8, <3>1 DEF ReadFrom
      <3>3. PICK l \in 1 .. end :
              lines[l] = v[1] /\ \A j \in 1 .. l - 1 : lines[j] = Damaged
        BY <1>8, <3>2 DEF ReadFrom
      <3>. QED BY <2>2, <2>3, <3>1, <3>2, <3>3
    <2>. QED BY <2>4, <2>5
  <1>. QED BY <1>7, <1>8, <1>9, <1>10 DEF ReadFrom

-----------------------------------------------------------------------------
(* Sequences of messages and their ids.                                     *)

LEMMA IdsOfLines ==
  ASSUME NEW lines \in Lines
  PROVE  \A x : x \in Ids(lines) <=> (x # Damaged /\ \E i \in 1 .. Len(lines) : lines[i] = x)
PROOF
  <1>1. DOMAIN lines = 1 .. Len(lines)
    BY DEF Lines
  <1>. QED BY <1>1, Zenon DEF Ids

LEMMA IdsOfPage ==
  ASSUME NEW s \in Seq(Messages)
  PROVE  \A x : x \in Ids(s) <=> \E i \in 1 .. Len(s) : s[i] = x
PROOF
  <1>1. DOMAIN s = 1 .. Len(s) /\ \A i \in 1 .. Len(s) : s[i] \in Messages
    OBVIOUS
  <1>2. \A i \in 1 .. Len(s) : s[i] # Damaged
    BY <1>1, DamagedAssumption
  <1>. QED BY <1>1, <1>2, Zenon DEF Ids

LEMMA RecordsAreLines ==
  ASSUME NEW s \in Seq(Messages)
  PROVE  s \in Lines
PROOF
  BY DEF Lines

\* What appending and joining add.
LEMMA AppendedPage ==
  ASSUME NEW s \in Seq(Messages), NEW m \in Messages
  PROVE  /\ Append(s, m) \in Seq(Messages) /\ Append(s, m) # <<>>
         /\ Ids(Append(s, m)) = Ids(s) \union {m}
         /\ s # <<>> => Head(Append(s, m)) = Head(s)
PROOF
  <1>1. PICK t : t = Append(s, m)
    OBVIOUS
  <1>2. /\ t \in Seq(Messages) /\ t # <<>> /\ Len(s) \in Nat /\ Len(t) = Len(s) + 1
        /\ t[Len(s) + 1] = m /\ \A i \in 1 .. Len(s) : t[i] = s[i]
    BY <1>1
  <1>3. \A i \in 1 .. Len(t) : i \in 1 .. Len(s) \/ i = Len(s) + 1
    BY <1>2
  <1>4. 1 .. Len(s) \subseteq 1 .. Len(t) /\ Len(s) + 1 \in 1 .. Len(t)
    BY <1>2
  <1>5. ASSUME NEW x
        PROVE  x \in Ids(t) <=> x \in Ids(s) \union {m}
    <2>1. ASSUME x \in Ids(t)
          PROVE  x \in Ids(s) \union {m}
      <3>1. PICK i \in 1 .. Len(t) : t[i] = x
        BY <1>2, <2>1, IdsOfPage
      <3>. QED BY <1>2, <1>3, <3>1, IdsOfPage
    <2>2. ASSUME x \in Ids(s)
          PROVE  x \in Ids(t)
      <3>1. PICK i \in 1 .. Len(s) : s[i] = x
        BY <2>2, IdsOfPage
      <3>. QED BY <1>2, <1>4, <3>1, IdsOfPage
    <2>3. m \in Ids(t)
      BY <1>2, <1>4, IdsOfPage
    <2>. QED BY <2>1, <2>2, <2>3
  <1>6. s # <<>> => Head(t) = Head(s)
    BY <1>2
  <1>. QED BY <1>1, <1>2, <1>5, <1>6

LEMMA JoinedPage ==
  ASSUME NEW s \in Seq(Messages), NEW t \in Seq(Messages), s # <<>>
  PROVE  /\ s \o t \in Seq(Messages) /\ s \o t # <<>>
         /\ Head(s \o t) = Head(s)
         /\ Ids(s) \subseteq Ids(s \o t) /\ Ids(t) \subseteq Ids(s \o t)
PROOF
  <1>1. PICK u : u = s \o t
    OBVIOUS
  <1>2. /\ u \in Seq(Messages) /\ Len(u) = Len(s) + Len(t) /\ Len(s) \in Nat /\ Len(t) \in Nat
        /\ \A i \in 1 .. Len(s) + Len(t) : u[i] = IF i <= Len(s) THEN s[i] ELSE t[i - Len(s)]
    BY <1>1, ConcatProperties
  <1>3. \A i \in 1 .. Len(s) : i \in 1 .. Len(u) /\ u[i] = s[i]
    BY <1>2
  <1>4. \A i \in 1 .. Len(t) : i + Len(s) \in 1 .. Len(u) /\ u[i + Len(s)] = t[i]
    <2>. TAKE i \in 1 .. Len(t)
    <2>1. i + Len(s) \in 1 .. Len(s) + Len(t) /\ ~(i + Len(s) <= Len(s)) /\ (i + Len(s)) - Len(s) = i
      BY <1>2
    <2>. QED BY <1>2, <2>1
  <1>5. 1 \in 1 .. Len(s) /\ u # <<>>
    BY <1>2
  <1>6. Head(u) = Head(s)
    BY <1>2, <1>3, <1>5
  <1>7. ASSUME NEW x, x \in Ids(s) \/ x \in Ids(t)
        PROVE  x \in Ids(u)
    <2>1. ASSUME x \in Ids(s)
          PROVE  x \in Ids(u)
      <3>1. PICK i \in 1 .. Len(s) : s[i] = x
        BY <2>1, IdsOfPage
      <3>. QED BY <1>2, <1>3, <3>1, IdsOfPage
    <2>2. ASSUME x \in Ids(t)
          PROVE  x \in Ids(u)
      <3>1. PICK i \in 1 .. Len(t) : t[i] = x
        BY <2>2, IdsOfPage
      <3>2. i + Len(s) \in 1 .. Len(u) /\ u[i + Len(s)] = x
        BY <1>4, <3>1
      <3>. QED BY <1>2, <3>2, IdsOfPage
    <2>. QED BY <1>7, <2>1, <2>2
  <1>. QED BY <1>1, <1>2, <1>5, <1>6, <1>7

\* A part of the records that is not empty begins with its first one.
LEMMA PartOfPage ==
  ASSUME NEW v \in Seq(Messages), NEW first \in 1 .. Len(v), NEW last \in first .. Len(v)
  PROVE  /\ SubSeq(v, first, last) \in Seq(Messages) /\ SubSeq(v, first, last) # <<>>
         /\ Head(SubSeq(v, first, last)) = v[first]
         /\ Len(SubSeq(v, first, last)) = last - first + 1
         /\ v[first] \in Ids(SubSeq(v, first, last))
         /\ v[first] \in Ids(v)
PROOF
  <1>1. PICK s : s = SubSeq(v, first, last)
    OBVIOUS
  <1>2. Len(v) \in Nat /\ first \in Int /\ last \in Int /\ \A i \in first .. last : v[i] \in Messages
    OBVIOUS
  <1>3. /\ s \in Seq(Messages) /\ Len(s) = last - first + 1
        /\ \A i \in 1 .. last - first + 1 : s[i] = v[first + i - 1]
    BY <1>1, <1>2, SubSeqProperties
  <1>4. 1 \in 1 .. Len(s) /\ s # <<>> /\ s[1] = v[first] /\ Head(s) = s[1]
    BY <1>3
  <1>5. v[first] \in Ids(s) /\ v[first] \in Ids(v)
    BY <1>3, <1>4, IdsOfPage
  <1>. QED BY <1>1, <1>3, <1>4, <1>5

\* The newest page of the records: the last of them, beginning with the first one
\* when there are no more.
LEMMA NewestPageGives ==
  ASSUME NEW v \in Seq(Messages)
  PROVE  /\ NewestPage(v) \in Seq(Messages)
         /\ HasMore(v) \in BOOLEAN
         /\ v # <<>> => /\ NewestPage(v) # <<>>
                        /\ Head(NewestPage(v)) \in Ids(v)
                        /\ ~HasMore(v) => v[1] \in Ids(NewestPage(v))
         /\ HasMore(v) => v # <<>>
PROOF
  <1>1. PageSize \in Nat /\ PageSize > 0 /\ Len(v) \in Nat
    BY HistoryAssumption
  <1>2. CASE v = <<>>
    <2>1. NewestPage(v) = SubSeq(v, 1, 0)
      BY <1>1, <1>2 DEF NewestPage
    <2>2. SubSeq(v, 1, 0) = <<>>
      BY SubSeqEmpty
    <2>. QED BY <1>1, <1>2, <2>1, <2>2 DEF HasMore
  <1>3. CASE v # <<>>
    <2>1. PICK first : first = IF Len(v) > PageSize THEN Len(v) - PageSize + 1 ELSE 1
      OBVIOUS
    <2>2. first \in 1 .. Len(v) /\ Len(v) \in first .. Len(v)
      BY <1>1, <1>3, <2>1
    <2>3. NewestPage(v) = SubSeq(v, first, Len(v))
      BY <2>1 DEF NewestPage
    <2>4. ~HasMore(v) => first = 1
      BY <2>1 DEF HasMore
    <2>5. /\ NewestPage(v) \in Seq(Messages) /\ NewestPage(v) # <<>>
          /\ Head(NewestPage(v)) = v[first] /\ v[first] \in Ids(NewestPage(v))
          /\ v[first] \in Ids(v)
      BY <2>2, <2>3, PartOfPage
    <2>6. HasMore(v) \in BOOLEAN
      BY DEF HasMore
    <2>. QED BY <1>3, <2>4, <2>5, <2>6
  <1>. QED BY <1>2, <1>3

\* What is before the first record with an id is a beginning of the records; it is
\* empty only if that is the first one.
LEMMA BeforeGives ==
  ASSUME NEW v \in Seq(Messages), NEW id
  PROVE  /\ Before(v, id) \in Seq(Messages)
         /\ Before(v, id) # <<>> => /\ v # <<>> /\ Before(v, id)[1] = v[1]
                                    /\ Ids(Before(v, id)) \subseteq Ids(v)
         /\ (id \in Ids(v) /\ Before(v, id) = <<>>) => v # <<>> /\ v[1] = id
PROOF
  <1>1. CASE id \notin Ids(v)
    BY <1>1 DEF Before
  <1>2. CASE id \in Ids(v)
    <2>1. PICK T : T = {i \in DOMAIN v : v[i] = id}
      OBVIOUS
    <2>2. T \subseteq 1 .. Len(v) /\ T # {} /\ Len(v) \in Nat /\ \A i \in T : v[i] = id
      BY <1>2, <2>1, IdsOfPage
    <2>3. \E n \in T : \A k \in T : n <= k
      BY <2>2, LeastNumber
    <2>4. PICK at : at = Min(T)
      OBVIOUS
    <2>5. at \in T
      BY <2>3, <2>4 DEF Min
    <2>6. at \in 1 .. Len(v) /\ v[at] = id
      BY <2>2, <2>5
    <2>7. Before(v, id) = SubSeq(v, 1, at - 1)
      BY <1>2, <2>1, <2>4 DEF Before
    <2>8. CASE at = 1
      <3>1. Before(v, id) = <<>>
        BY <2>7, <2>8, SubSeqEmpty
      <3>. QED BY <2>2, <2>6, <2>8, <3>1
    <2>9. CASE at # 1
      <3>1. 1 \in 1 .. Len(v) /\ at - 1 \in 1 .. Len(v)
        BY <2>2, <2>6, <2>9
      <3>2. PICK s : s = SubSeq(v, 1, at - 1)
        OBVIOUS
      <3>3. /\ s \in Seq(Messages) /\ Len(s) = at - 1
            /\ \A i \in 1 .. at - 1 : s[i] = v[i]
        <4>1. at - 1 \in Int /\ (at - 1) - 1 + 1 = at - 1 /\ 1 <= at - 1
              /\ (\A i \in 1 .. at - 1 : v[i] \in Messages /\ v[1 + i - 1] = v[i])
          BY <2>2, <3>1
        <4>. QED BY <3>2, <4>1, SubSeqProperties
      <3>4. 1 .. at - 1 \subseteq 1 .. Len(v) /\ 1 \in 1 .. at - 1
        BY <3>1
      <3>5. s # <<>> /\ v # <<>> /\ s[1] = v[1]
        BY <3>1, <3>3, <3>4
      <3>6. ASSUME NEW x, x \in Ids(s)
            PROVE  x \in Ids(v)
        <4>1. PICK i \in 1 .. Len(s) : s[i] = x
          BY <3>3, <3>6, IdsOfPage
        <4>2. i \in 1 .. Len(v) /\ v[i] = x
          BY <3>3, <3>4, <4>1
        <4>. QED BY <4>2, IdsOfPage
      <3>. QED BY <2>7, <3>2, <3>3, <3>5, <3>6
    <2>. QED BY <2>8, <2>9
  <1>. QED BY <1>1, <1>2

-----------------------------------------------------------------------------
(* What an operation on the file leaves.                                     *)

FileOK(file) == file.lines \in Lines /\ file.ended \in BOOLEAN

LEMMA FirstIsOneOfThem ==
  ASSUME NEW file, FileOK(file), NEW x, FirstIs(file, x)
  PROVE  x \in Stored(file) /\ x # Damaged
PROOF
  BY IdsOfLines, Zenon DEF FileOK, FirstIs, Stored

\* A line more, or the last one spoiled.
LEMMA PutGives ==
  ASSUME NEW file, FileOK(file), NEW line \in Messages \union {Damaged},
         NEW ended \in BOOLEAN
  PROVE  /\ FileOK(Put(file, line, ended))
         /\ file.ended => Stored(file) \union ({line} \ {Damaged}) \subseteq Stored(Put(file, line, ended))
         /\ \A x : FirstIs(Put(file, line, ended), x) => (FirstIs(file, x) \/ x = line)
PROOF
  <1>1. PICK new, lines, last :
          new = Put(file, line, ended).lines /\ lines = file.lines /\ last = Len(file.lines)
    OBVIOUS
  <1>2. new = IF file.ended THEN Append(lines, line) ELSE [lines EXCEPT ![last] = Damaged]
    BY <1>1 DEF Put
  <1>3. Put(file, line, ended).ended = ended
    BY DEF Put
  <1>4. lines \in Lines /\ last = Len(lines) /\ last \in Nat
    BY <1>1 DEF FileOK, Lines
  <1>5. CASE file.ended
    <2>1. new = Append(lines, line)
      BY <1>2, <1>5
    <2>2. /\ new \in Lines /\ Len(new) = last + 1 /\ new[last + 1] = line
          /\ \A i \in 1 .. last : new[i] = lines[i]
      BY <1>4, <2>1 DEF Lines
    <2>3. 1 .. last \subseteq 1 .. Len(new) /\ last + 1 \in 1 .. Len(new)
      BY <1>4, <2>2
    <2>4. ASSUME NEW x, x \in Ids(lines) \/ (x = line /\ x # Damaged)
          PROVE  x \in Ids(new)
      <3>1. CASE x \in Ids(lines)
        <4>1. x # Damaged /\ \E i \in 1 .. last : lines[i] = x
          BY <1>4, <3>1, IdsOfLines
        <4>2. PICK i \in 1 .. last : lines[i] = x
          BY <4>1
        <4>3. i \in 1 .. Len(new) /\ new[i] = x
          BY <2>2, <2>3, <4>2
        <4>. QED BY <2>2, <4>1, <4>3, IdsOfLines
      <3>2. CASE x = line /\ x # Damaged
        BY <2>2, <2>3, <3>2, IdsOfLines
      <3>. QED BY <2>4, <3>1, <3>2
    <2>5. ASSUME NEW x, FirstIs(Put(file, line, ended), x)
          PROVE  FirstIs(file, x) \/ x = line
      <3>1. PICK k \in 1 .. Len(new) :
              new[k] = x /\ x # Damaged /\ \A j \in 1 .. k - 1 : new[j] = Damaged
        BY <1>1, <2>5 DEF FirstIs
      <3>2. CASE k = last + 1
        BY <2>2, <3>1, <3>2
      <3>3. CASE k # last + 1
        <4>1. k \in 1 .. last /\ \A j \in 1 .. k - 1 : j \in 1 .. last
          BY <1>4, <2>2, <3>1, <3>3
        <4>2. lines[k] = x /\ x # Damaged /\ \A j \in 1 .. k - 1 : lines[j] = Damaged
          BY <2>2, <3>1, <4>1
        <4>. QED BY <1>1, <4>1, <4>2 DEF FirstIs
      <3>. QED BY <3>2, <3>3
    <2>. QED BY <1>1, <1>3, <2>2, <2>4, <2>5 DEF FileOK, Stored
  <1>6. CASE ~file.ended
    <2>1. new = [lines EXCEPT ![last] = Damaged]
      BY <1>2, <1>6
    <2>2. /\ new \in Lines /\ Len(new) = last
          /\ \A i \in 1 .. last : new[i] = IF i = last THEN Damaged ELSE lines[i]
      <3>1. lines \in [1 .. last -> Messages \union {Damaged}]
        BY <1>4 DEF Lines
      <3>2. /\ new \in [1 .. last -> Messages \union {Damaged}]
            /\ \A i \in 1 .. last : new[i] = IF i = last THEN Damaged ELSE lines[i]
        BY <2>1, <3>1
      <3>3. new \in Seq(Messages \union {Damaged}) /\ Len(new) = last
        BY <1>4, <3>2
      <3>. QED BY <3>2, <3>3 DEF Lines
    <2>3. ASSUME NEW x, FirstIs(Put(file, line, ended), x)
          PROVE  FirstIs(file, x) \/ x = line
      <3>1. PICK k \in 1 .. last :
              new[k] = x /\ x # Damaged /\ \A j \in 1 .. k - 1 : new[j] = Damaged
        BY <1>1, <2>2, <2>3 DEF FirstIs
      <3>2. k # last /\ lines[k] = x
        BY <2>2, <3>1
      <3>3. \A j \in 1 .. k - 1 : j \in 1 .. last /\ j # last
        BY <1>4, <3>1
      <3>4. \A j \in 1 .. k - 1 : lines[j] = Damaged
        BY <2>2, <3>1, <3>3
      <3>. QED BY <1>1, <3>1, <3>2, <3>4 DEF FirstIs
    <2>. QED BY <1>1, <1>3, <1>6, <2>2, <2>3 DEF FileOK
  <1>. QED BY <1>5, <1>6 DEF FileOK

\* The result r of an operation that stores ids.
Gives(r, ids) ==
  /\ FileOK(r.file)
  /\ r.fault \in BOOLEAN /\ (r.fault => faults < MaxFaults)
  /\ (~r.fault /\ history.ended) => Stored(history) \union ids \subseteq Stored(r.file)
  /\ \A x : FirstIs(r.file, x) => (FirstIs(history, x) \/ x \in ids)

LEMMA KindsNeedFaults ==
  ASSUME NEW k \in Kinds
  PROVE  faults < MaxFaults
PROOF
  BY DEF Kinds

\* appendChatMessage
LEMMA AppendGives ==
  ASSUME FileOK(history), NEW m \in Messages, NEW r \in AppendResults(history, m)
  PROVE  Gives(r, {m})
PROOF
  <1>1. \/ r.file = Put(history, m, TRUE) /\ r.fault = FALSE
        \/ /\ \/ r.file = history
              \/ r.file = Put(history, Damaged, FALSE)
              \/ r.file = Put(history, m, FALSE)
           /\ r.fault = TRUE /\ r.result \in Kinds
    BY DEF AppendResults, Results
  <1>2. m # Damaged /\ m \in Messages \union {Damaged} /\ Damaged \in Messages \union {Damaged}
    BY DamagedAssumption
  <1>3. CASE r.file = Put(history, m, TRUE) /\ r.fault = FALSE
    <2>1. /\ FileOK(r.file)
          /\ history.ended => Stored(history) \union {m} \subseteq Stored(r.file)
          /\ \A x : FirstIs(r.file, x) => (FirstIs(history, x) \/ x = m)
      BY <1>2, <1>3, PutGives
    <2>. QED BY <1>3, <2>1 DEF Gives
  <1>4. CASE /\ \/ r.file = history
                \/ r.file = Put(history, Damaged, FALSE)
                \/ r.file = Put(history, m, FALSE)
             /\ r.fault = TRUE /\ r.result \in Kinds
    <2>1. faults < MaxFaults
      BY <1>4, KindsNeedFaults
    <2>2. /\ FileOK(r.file)
          /\ \A x : FirstIs(r.file, x) => (FirstIs(history, x) \/ x = m)
      <3>1. CASE r.file = history
        BY <3>1
      <3>2. CASE r.file = Put(history, Damaged, FALSE)
        <4>1. /\ FileOK(r.file)
              /\ \A x : FirstIs(r.file, x) => (FirstIs(history, x) \/ x = Damaged)
          BY <1>2, <3>2, PutGives
        <4>. QED BY <4>1, FirstIsOneOfThem
      <3>3. CASE r.file = Put(history, m, FALSE)
        BY <1>2, <3>3, PutGives
      <3>. QED BY <1>4, <3>1, <3>2, <3>3
    <2>. QED BY <1>4, <2>1, <2>2 DEF Gives
  <1>. QED BY <1>1, <1>3, <1>4

\* A file that holds a beginning of the records, or none.
LEMMA BeginningGives ==
  ASSUME NEW file, FileOK(file), NEW new, new.ended = TRUE,
         new.lines \in Seq(Messages), Len(new.lines) <= Len(Valid(file)),
         \A i \in 1 .. Len(new.lines) : new.lines[i] = Valid(file)[i]
  PROVE  FileOK(new) /\ \A x : FirstIs(new, x) => FirstIs(file, x)
PROOF
  <1>1. PICK v, s : v = Valid(file) /\ s = new.lines
    OBVIOUS
  <1>2. /\ v \in Seq(Messages)
        /\ \A x : FirstIs(file, x) <=> (v # <<>> /\ v[1] = x)
    BY <1>1, ReadersFindAll DEF FileOK
  <1>3. FileOK(new)
    BY <1>1, RecordsAreLines DEF FileOK
  <1>4. ASSUME NEW x, FirstIs(new, x)
        PROVE  FirstIs(file, x)
    <2>1. PICK k \in 1 .. Len(s) : s[k] = x /\ \A j \in 1 .. k - 1 : s[j] = Damaged
      BY <1>1, <1>4 DEF FirstIs
    <2>2. \A j \in 1 .. Len(s) : s[j] \in Messages
      BY <1>1
    <2>3. \A j \in 1 .. Len(s) : s[j] # Damaged
      BY <2>2, DamagedAssumption
    <2>4. Len(s) \in Nat /\ Len(v) \in Nat /\ 1 \in 1 .. Len(s)
      BY <1>1, <1>2, <2>1
    <2>5. k = 1
      BY <2>1, <2>3, <2>4
    <2>6. v # <<>> /\ v[1] = x
      BY <1>1, <1>2, <2>1, <2>4, <2>5
    <2>. QED BY <1>2, <2>6
  <1>. QED BY <1>3, <1>4

\* replaceChatMessage
LEMMA ReplaceGives ==
  ASSUME FileOK(history), NEW r \in ReplaceResults(history)
  PROVE  Gives(r, {})
PROOF
  <1>1. PICK v : v = Valid(history)
    OBVIOUS
  <1>2. v \in Seq(Messages) /\ Len(v) \in Nat /\ Ids(v) = Stored(history)
    BY <1>1, ReadersFindAll DEF FileOK
  <1>3. \/ r.file = [lines |-> v, ended |-> TRUE] /\ r.fault = FALSE
        \/ /\ \/ \E n \in 0 .. Len(v) - 1 : r.file = [lines |-> SubSeq(v, 1, n), ended |-> TRUE]
              \/ r.file = history
              \/ r.file = Empty
           /\ r.fault = TRUE /\ faults < MaxFaults
    <2>1. \/ r \in Results({Rewritten(history)}, {"ok"}, FALSE)
          \/ \E k \in Kinds : r \in Results(ReplaceFaults(history, k), {k}, TRUE)
      BY DEF ReplaceResults
    <2>2. CASE r \in Results({Rewritten(history)}, {"ok"}, FALSE)
      BY <1>1, <2>2 DEF Results, Rewritten
    <2>3. CASE \E k \in Kinds : r \in Results(ReplaceFaults(history, k), {k}, TRUE)
      <3>1. PICK k \in Kinds : r \in Results(ReplaceFaults(history, k), {k}, TRUE)
        BY <2>3
      <3>2. r.file \in ReplaceFaults(history, k) /\ r.fault = TRUE
        BY <3>1 DEF Results
      <3>3. faults < MaxFaults
        BY <3>1, KindsNeedFaults
      <3>. QED BY <1>1, <3>2, <3>3 DEF ReplaceFaults
    <2>. QED BY <2>1, <2>2, <2>3
  <1>4. CASE r.file = [lines |-> v, ended |-> TRUE] /\ r.fault = FALSE
    <2>1. r.file.lines = v /\ r.file.ended = TRUE
      BY <1>4
    <2>2. FileOK(r.file) /\ \A x : FirstIs(r.file, x) => FirstIs(history, x)
      <3>1. /\ r.file.lines \in Seq(Messages) /\ Len(r.file.lines) <= Len(Valid(history))
            /\ \A i \in 1 .. Len(r.file.lines) : r.file.lines[i] = Valid(history)[i]
        BY <1>1, <1>2, <2>1
      <3>. QED BY <2>1, <3>1, BeginningGives
    <2>3. Stored(r.file) = Stored(history)
      BY <1>2, <2>1 DEF Stored
    <2>. QED BY <1>4, <2>2, <2>3 DEF Gives
  <1>5. ASSUME NEW n \in 0 .. Len(v) - 1, r.file = [lines |-> SubSeq(v, 1, n), ended |-> TRUE],
               r.fault = TRUE, faults < MaxFaults
        PROVE  Gives(r, {})
    <2>1. PICK s : s = SubSeq(v, 1, n)
      OBVIOUS
    <2>2. n \in Int /\ (\A i \in 1 .. n : v[i] \in Messages) /\ n - 1 + 1 = n
          /\ (\A i \in 1 .. n : 1 + i - 1 = i)
      BY <1>2
    <2>3. s \in Seq(Messages) /\ Len(s) = (IF 1 <= n THEN n - 1 + 1 ELSE 0)
          /\ \A i \in 1 .. n - 1 + 1 : s[i] = v[1 + i - 1]
      BY <2>1, <2>2, SubSeqProperties
    <2>4. s \in Seq(Messages) /\ Len(s) <= Len(v) /\ \A i \in 1 .. Len(s) : s[i] = v[i]
      BY <1>2, <2>2, <2>3
    <2>5. r.file.lines = s /\ r.file.ended = TRUE
      BY <1>5, <2>1
    <2>6. FileOK(r.file) /\ \A x : FirstIs(r.file, x) => FirstIs(history, x)
      BY <1>1, <2>4, <2>5, BeginningGives
    <2>. QED BY <1>5, <2>6 DEF Gives
  <1>6. CASE r.file = history /\ r.fault = TRUE /\ faults < MaxFaults
    BY <1>6 DEF Gives
  <1>7. CASE r.file = Empty /\ r.fault = TRUE /\ faults < MaxFaults
    <2>1. r.file.lines = <<>> /\ r.file.ended = TRUE
      BY <1>7 DEF Empty
    <2>2. FileOK(r.file) /\ \A x : FirstIs(r.file, x) => FirstIs(history, x)
      <3>1. /\ r.file.lines \in Seq(Messages) /\ Len(r.file.lines) = 0
        BY <2>1
      <3>2. /\ Len(r.file.lines) <= Len(Valid(history))
            /\ \A i \in 1 .. Len(r.file.lines) : r.file.lines[i] = Valid(history)[i]
        BY <1>1, <1>2, <3>1
      <3>. QED BY <2>1, <3>1, <3>2, BeginningGives
    <2>. QED BY <1>7, <2>2 DEF Gives
  <1>. QED BY <1>3, <1>4, <1>5, <1>6, <1>7

\* persistChatMessageRecord
LEMMA PersistGives ==
  ASSUME FileOK(history), NEW m \in Messages, NEW replacing,
         NEW r \in PersistResults(history, m, replacing)
  PROVE  Gives(r, {m})
PROOF
  <1>1. CASE replacing /\ m \in Stored(history)
    <2>1. Gives(r, {})
      BY <1>1, ReplaceGives DEF PersistResults
    <2>. QED BY <1>1, <2>1 DEF Gives
  <1>2. CASE ~(replacing /\ m \in Stored(history))
    BY <1>2, AppendGives DEF PersistResults
  <1>. QED BY <1>1, <1>2

-----------------------------------------------------------------------------
(* The invariant.                                                           *)

Coming == {arrived[i].id : i \in DOMAIN arrived}

\* There is more to load only before a page that begins with a record.
HeadIsStored == hasMore => page # <<>> /\ Head(page) \in Stored(history) \union excused

\* Where the first record of the file is when there is no more to load.
FirstIsKnown ==
  (chat = "open" /\ ~hasMore /\ Ids(page) \intersect excused = {})
    => \A x : FirstIs(history, x) => x \in Ids(page) \union Coming \union missed

HistInv == HistTypeOK /\ HistoryKept /\ HeadIsStored /\ FirstIsKnown

\* A step that stores ids, as far as the file is concerned.
Kept(ids) ==
  /\ FileOK(history') /\ faults' \in 0 .. MaxFaults
  /\ reported' \subseteq Messages /\ excused' \subseteq Messages
  /\ HistoryKept' /\ excused \subseteq excused'
  /\ Stored(history) \subseteq Stored(history') \union excused'
  /\ \A x : FirstIs(history', x) => (FirstIs(history, x) \/ x \in ids)

LEMMA TheFile ==
  ASSUME HistTypeOK
  PROVE  /\ FileOK(history) /\ Stored(history) \subseteq Messages
         /\ page \in Seq(Messages) /\ Ids(page) \subseteq Messages
PROOF
  <1>1. history.lines \in Lines /\ history.ended \in BOOLEAN /\ page \in Seq(Messages)
    BY DEF HistTypeOK, Lines
  <1>2. FileOK(history)
    BY <1>1 DEF FileOK
  <1>3. Stored(history) \subseteq Messages
    <2>1. DOMAIN history.lines = 1 .. Len(history.lines)
          /\ \A i \in 1 .. Len(history.lines) : history.lines[i] \in Messages \union {Damaged}
      BY <1>1 DEF Lines
    <2>. QED BY <2>1, Zenon DEF Stored, Ids
  <1>4. Ids(page) \subseteq Messages
    <2>1. \A i \in 1 .. Len(page) : page[i] \in Messages
      BY <1>1
    <2>. QED BY <1>1, <2>1, IdsOfPage, Zenon
  <1>. QED BY <1>1, <1>2, <1>3, <1>4

\* What an operation has done to the file.
LEMMA ApplyKeeps ==
  ASSUME HistInv, NEW ids \in SUBSET Messages, NEW r, Gives(r, ids), Apply(r, ids)
  PROVE  Kept(ids)
PROOF
  <1>1. /\ reported \subseteq Messages /\ excused \subseteq Messages
        /\ faults \in 0 .. MaxFaults /\ MaxFaults \in Nat
        /\ Stored(history) \subseteq Messages /\ reported \ excused \subseteq Stored(history)
    BY TheFile, HistoryAssumption DEF HistInv, HistTypeOK, HistoryKept
  <1>2. /\ history' = r.file
        /\ reported' = (IF r.result = "ok" THEN reported \union ids ELSE reported)
        /\ faults' = (IF r.fault THEN faults + 1 ELSE faults)
        /\ excused' = excused \union (IF r.fault \/ ~history.ended
                                        THEN (reported' \union Stored(history)) \ Stored(r.file)
                                        ELSE {})
    BY DEF Apply
  <1>3. FileOK(history') /\ faults' \in 0 .. MaxFaults
    BY <1>1, <1>2 DEF Gives
  <1>4. reported' \subseteq Messages /\ reported' \subseteq reported \union ids
    BY <1>1, <1>2
  <1>5. excused' \subseteq Messages /\ excused \subseteq excused'
    BY <1>1, <1>2, <1>4
  <1>6. /\ Stored(history) \subseteq Stored(history') \union excused'
        /\ reported' \ excused' \subseteq Stored(history')
    <2>1. CASE r.fault \/ ~history.ended
      BY <1>2, <2>1
    <2>2. CASE ~(r.fault \/ ~history.ended)
      <3>1. Stored(history) \union ids \subseteq Stored(r.file) /\ history' = r.file
        BY <1>2, <2>2 DEF Gives
      <3>2. excused \subseteq excused'
        BY <1>5
      <3>. QED BY <1>1, <1>4, <3>1, <3>2
    <2>. QED BY <2>1, <2>2
  <1>7. \A x : FirstIs(history', x) => (FirstIs(history, x) \/ x \in ids)
    BY <1>2 DEF Gives
  <1>. QED BY <1>3, <1>4, <1>5, <1>6, <1>7 DEF Kept, HistoryKept

LEMMA UntouchedKeeps ==
  ASSUME HistInv, UNCHANGED <<history, reported, excused, faults>>
  PROVE  Kept({})
PROOF
  <1>1. FileOK(history) /\ faults \in 0 .. MaxFaults /\ reported \subseteq Messages
        /\ excused \subseteq Messages /\ HistoryKept
    BY TheFile DEF HistInv, HistTypeOK
  <1>. QED BY <1>1 DEF Kept, HistoryKept

\* What the page is after a step that loads one.
LEMMA PageKeeps ==
  ASSUME HistInv, NEW ids, Kept(ids),
         chat' \in {"closed", "open", "failed"}, hasMore' \in BOOLEAN,
         page' \in Seq(Messages), chat' = "closed" => page' = <<>> /\ ~hasMore',
         arrived' \in Seq([id : Messages, persisted : BOOLEAN]),
         unsaved' \subseteq Messages, missed' \subseteq Messages,
         arrivals' \in 0 .. MaxArrivals,
         hasMore' => page' # <<>> /\ Head(page') \in Stored(history) \union excused,
         (chat' = "open" /\ ~hasMore' /\ Ids(page') \intersect excused = {})
           => \A x : FirstIs(history', x) => x \in Ids(page') \union Coming' \union missed'
  PROVE  HistInv'
PROOF
  <1>1. HistTypeOK'
    BY DEF HistTypeOK, Kept, FileOK, Lines
  <1>2. HistoryKept'
    BY DEF Kept
  <1>3. HeadIsStored'
    BY DEF Kept, HeadIsStored
  <1>4. FirstIsKnown'
    <2>1. excused \subseteq excused'
      BY DEF Kept
    <2>2. Ids(page') \intersect excused' = {} => Ids(page') \intersect excused = {}
      BY <2>1
    <2>. QED BY <2>2 DEF FirstIsKnown
  <1>. QED BY <1>1, <1>2, <1>3, <1>4 DEF HistInv

LEMMA RestartKeeps ==
  ASSUME HistInv, NEW ids, Kept(ids), Restarted, arrivals' \in 0 .. MaxArrivals
  PROVE  HistInv'
PROOF
  <1>1. /\ chat' = "closed" /\ page' = <<>> /\ hasMore' = FALSE
        /\ arrived' = <<>> /\ unsaved' = {} /\ missed' = {}
    BY DEF Restarted
  <1>2. page' \in Seq(Messages) /\ arrived' \in Seq([id : Messages, persisted : BOOLEAN])
    BY <1>1
  <1>. QED BY <1>1, <1>2, PageKeeps

\* What the page is after a step that leaves it or adds to it.
LEMMA MoreKeeps ==
  ASSUME HistInv, NEW ids, Kept(ids),
         chat' = chat, hasMore' = hasMore, page' \in Seq(Messages),
         chat = "closed" => page' = page, Ids(page) \subseteq Ids(page'),
         page # <<>> => page' # <<>> /\ Head(page') = Head(page),
         arrived' \in Seq([id : Messages, persisted : BOOLEAN]),
         unsaved' \subseteq Messages, missed' \subseteq Messages,
         arrivals' \in 0 .. MaxArrivals,
         \A x : /\ chat = "open" /\ FirstIs(history', x)
                /\ x \in Ids(page) \union Coming \union missed \union ids
                => x \in Ids(page') \union Coming' \union missed'
  PROVE  HistInv'
PROOF
  <1>1. /\ chat \in {"closed", "open", "failed"} /\ hasMore \in BOOLEAN
        /\ chat = "closed" => page = <<>> /\ ~hasMore
    BY DEF HistInv, HistTypeOK
  <1>2. hasMore' => page' # <<>> /\ Head(page') \in Stored(history) \union excused
    BY DEF HistInv, HeadIsStored
  <1>3. ASSUME chat' = "open", ~hasMore', Ids(page') \intersect excused = {},
               NEW x, FirstIs(history', x)
        PROVE  x \in Ids(page') \union Coming' \union missed'
    <2>1. FirstIs(history, x) \/ x \in ids
      BY <1>3 DEF Kept
    <2>2. Ids(page) \intersect excused = {}
      BY <1>3
    <2>3. x \in Ids(page) \union Coming \union missed \union ids
      BY <1>3, <2>1, <2>2 DEF HistInv, FirstIsKnown
    <2>. QED BY <1>3, <2>3
  <1>4. /\ chat' \in {"closed", "open", "failed"} /\ hasMore' \in BOOLEAN
        /\ chat' = "closed" => page' = <<>> /\ ~hasMore'
    BY <1>1
  <1>. QED BY <1>2, <1>3, <1>4, PageKeeps

-----------------------------------------------------------------------------
(* The steps.                                                               *)

\* What the lemmas below take from the types.
LEMMA TheRest ==
  ASSUME HistInv
  PROVE  /\ HistTypeOK /\ FileOK(history) /\ page \in Seq(Messages)
         /\ arrived \in Seq([id : Messages, persisted : BOOLEAN])
         /\ unsaved \subseteq Messages /\ missed \subseteq Messages
         /\ chat \in {"closed", "open", "failed"} /\ hasMore \in BOOLEAN
         /\ chat = "closed" => page = <<>> /\ ~hasMore
         /\ arrivals \in 0 .. MaxArrivals /\ MaxArrivals \in Nat
PROOF
  BY TheFile, HistoryAssumption DEF HistInv, HistTypeOK

LEMMA ReceiveKeeps ==
  ASSUME HistInv, NEW m \in Messages, ReceiveChat(m)
  PROVE  HistInv'
PROOF
  <1>1. arrivals' \in 0 .. MaxArrivals
    BY TheRest DEF ReceiveChat
  <1>2. PICK r \in AppendResults(history, m) :
          /\ Apply(r, {m})
          /\ IF r.result = "crash" THEN Restarted
             ELSE /\ arrived' = Append(arrived,
                       [id |-> m, persisted |-> r.result = "ok"])
                  /\ UNCHANGED <<chat, page, hasMore, unsaved, missed>>
    BY DEF ReceiveChat
  <1>3. Kept({m})
    BY <1>2, TheRest, AppendGives, ApplyKeeps
  <1>4. CASE r.result = "crash"
    BY <1>1, <1>2, <1>3, <1>4, RestartKeeps
  <1>5. CASE r.result # "crash"
    <2>1. PICK new : new = [id |-> m, persisted |-> r.result = "ok"]
      OBVIOUS
    <2>2. new \in [id : Messages, persisted : BOOLEAN] /\ new.id = m
      BY <2>1
    <2>3. arrived' = Append(arrived, new) /\ UNCHANGED <<chat, page, hasMore, unsaved, missed>>
      BY <1>2, <1>5, <2>1
    <2>4. /\ arrived' \in Seq([id : Messages, persisted : BOOLEAN])
          /\ Coming \union {m} \subseteq Coming'
      <3>1. PICK s, t : s = arrived /\ t = arrived'
        OBVIOUS
      <3>2. s \in Seq([id : Messages, persisted : BOOLEAN]) /\ t = Append(s, new)
        BY <2>3, <3>1, TheRest
      <3>3. /\ t \in Seq([id : Messages, persisted : BOOLEAN])
            /\ DOMAIN s = 1 .. Len(s) /\ DOMAIN t = 1 .. Len(s) + 1 /\ Len(s) \in Nat
            /\ t[Len(s) + 1] = new /\ \A i \in 1 .. Len(s) : t[i] = s[i]
        BY <2>2, <3>2
      <3>4. 1 .. Len(s) \subseteq 1 .. Len(s) + 1 /\ Len(s) + 1 \in 1 .. Len(s) + 1
        BY <3>3
      <3>5. {s[i].id : i \in DOMAIN s} \union {m} \subseteq {t[i].id : i \in DOMAIN t}
        BY <2>2, <3>3, <3>4
      <3>. QED BY <3>1, <3>3, <3>5 DEF Coming
    <2>. QED BY <1>1, <1>3, <2>3, <2>4, TheRest, MoreKeeps
  <1>. QED BY <1>4, <1>5

\* The first of the messages that arrived, and the others.
LEMMA FirstArrived ==
  ASSUME HistInv, arrived # <<>>
  PROVE  /\ Head(arrived).id \in Messages
         /\ Tail(arrived) \in Seq([id : Messages, persisted : BOOLEAN])
         /\ Coming \subseteq {Tail(arrived)[i].id : i \in DOMAIN Tail(arrived)}
                               \union {Head(arrived).id}
PROOF
  <1>1. PICK s, t : s = arrived /\ t = Tail(arrived)
    OBVIOUS
  <1>2. s \in Seq([id : Messages, persisted : BOOLEAN]) /\ s # <<>> /\ t = Tail(s)
    BY <1>1, TheRest
  <1>3. /\ t \in Seq([id : Messages, persisted : BOOLEAN]) /\ Len(t) = Len(s) - 1
        /\ Len(s) \in Nat /\ Len(s) > 0 /\ DOMAIN s = 1 .. Len(s) /\ DOMAIN t = 1 .. Len(t)
        /\ Head(s) = s[1] /\ s[1] \in [id : Messages, persisted : BOOLEAN]
        /\ \A i \in 1 .. Len(t) : t[i] = s[i + 1]
    <2>1. /\ Len(s) \in Nat /\ Len(s) > 0 /\ DOMAIN s = 1 .. Len(s)
          /\ Head(s) = s[1] /\ s[1] \in [id : Messages, persisted : BOOLEAN]
      <3>1. Len(s) \in Nat /\ DOMAIN s = 1 .. Len(s) /\ Len(s) # 0 /\ Head(s) = s[1]
        BY <1>2
      <3>2. 1 \in 1 .. Len(s)
        BY <3>1
      <3>3. s[1] \in [id : Messages, persisted : BOOLEAN]
        BY <1>2, <3>2, ElementOfSeq
      <3>. QED BY <3>1, <3>2, <3>3
    <2>2. /\ t \in Seq([id : Messages, persisted : BOOLEAN]) /\ Len(t) = Len(s) - 1
          /\ \A i \in 1 .. Len(t) : t[i] = s[i + 1]
      BY <1>2, HeadTailProperties
    <2>3. DOMAIN t = 1 .. Len(t)
      BY <2>2
    <2>. QED BY <2>1, <2>2, <2>3
  <1>4. ASSUME NEW i \in 1 .. Len(s)
        PROVE  s[i].id \in {t[j].id : j \in DOMAIN t} \union {s[1].id}
    <2>1. CASE i = 1
      BY <2>1
    <2>2. CASE i # 1
      <3>1. i - 1 \in DOMAIN t /\ t[i - 1] = s[i]
        BY <1>3, <2>2
      <3>. QED BY <3>1
    <2>. QED BY <2>1, <2>2
  <1>5. Head(s).id \in Messages
    BY <1>3
  <1>6. {s[i].id : i \in DOMAIN s} \subseteq {t[j].id : j \in DOMAIN t} \union {Head(s).id}
    BY <1>3, <1>4
  <1>. QED BY <1>1, <1>3, <1>5, <1>6 DEF Coming

LEMMA DrainKeeps ==
  ASSUME HistInv, DrainArrived
  PROVE  HistInv'
PROOF
  <1>1. arrived # <<>> /\ arrivals' = arrivals
    BY DEF DrainArrived
  <1>2. PICK m, rest : m = Head(arrived).id /\ rest = Tail(arrived)
    OBVIOUS
  <1>3. /\ m \in Messages
        /\ rest \in Seq([id : Messages, persisted : BOOLEAN])
        /\ Coming \subseteq {rest[i].id : i \in DOMAIN rest} \union {m}
    BY <1>1, <1>2, FirstArrived
  <1>. DEFINE Shown == page' = IF Selected THEN Append(page, m) ELSE page
  <1>4. \/ /\ arrived' = rest /\ Shown
           /\ UNCHANGED <<history, chat, hasMore, unsaved, reported, excused,
                          missed, faults>>
        \/ \E r \in AppendResults(history, m) :
             /\ Apply(r, {m})
             /\ IF r.result = "crash" THEN Restarted
                ELSE /\ arrived' = rest
                     /\ IF r.result = "ok" THEN Shown /\ UNCHANGED missed
                                           ELSE Misses(m) /\ UNCHANGED page
                     /\ UNCHANGED <<chat, hasMore, unsaved>>
    BY <1>1, <1>2 DEF DrainArrived
  <1>5. ASSUME NEW ids, ids \subseteq {m}, Kept(ids), arrived' = rest, Shown,
               UNCHANGED <<chat, hasMore, unsaved, missed>>
        PROVE  HistInv'
    <2>1. Coming' \union {m} = {rest[i].id : i \in DOMAIN rest} \union {m}
      BY <1>5 DEF Coming
    <2>2. CASE Selected
      <3>1. page' = Append(page, m) /\ chat # "closed"
        BY <1>5, <2>2 DEF Selected
      <3>2. /\ page' \in Seq(Messages) /\ page' # <<>> /\ Ids(page') = Ids(page) \union {m}
            /\ page # <<>> => Head(page') = Head(page)
        BY <1>3, <3>1, AppendedPage, TheRest
      <3>3. \A x : x \in Ids(page) \union Coming \union missed \union ids
                     => x \in Ids(page') \union Coming' \union missed'
        BY <1>3, <1>5, <2>1, <3>2
      <3>. QED BY <1>1, <1>3, <1>5, <3>1, <3>2, <3>3, TheRest, MoreKeeps
    <2>3. CASE ~Selected
      <3>1. page' = page /\ chat = "closed"
        BY <1>5, <2>3 DEF Selected
      <3>. QED BY <1>1, <1>3, <1>5, <3>1, TheRest, MoreKeeps
    <2>. QED BY <2>2, <2>3
  <1>6. CASE /\ arrived' = rest /\ Shown
             /\ UNCHANGED <<history, chat, hasMore, unsaved, reported, excused,
                            missed, faults>>
    <2>1. Kept({})
      BY <1>6, UntouchedKeeps
    <2>. QED BY <1>5, <1>6, <2>1
  <1>7. ASSUME NEW r \in AppendResults(history, m), Apply(r, {m}),
               IF r.result = "crash" THEN Restarted
               ELSE /\ arrived' = rest
                    /\ IF r.result = "ok" THEN Shown /\ UNCHANGED missed
                                          ELSE Misses(m) /\ UNCHANGED page
                    /\ UNCHANGED <<chat, hasMore, unsaved>>
        PROVE  HistInv'
    <2>1. Kept({m})
      BY <1>3, <1>7, TheRest, AppendGives, ApplyKeeps
    <2>2. CASE r.result = "crash"
      BY <1>1, <1>7, <2>1, <2>2, TheRest, RestartKeeps
    <2>3. CASE r.result = "ok"
      BY <1>5, <1>7, <2>1, <2>3
    <2>4. CASE r.result # "crash" /\ r.result # "ok"
      <3>1. arrived' = rest /\ Misses(m) /\ UNCHANGED <<chat, page, hasMore, unsaved>>
        BY <1>7, <2>4
      <3>2. missed' \subseteq missed \union {m} /\ missed \subseteq missed'
        BY <3>1 DEF Misses
      <3>3. chat = "open" /\ m \in Stored(history') => m \in Ids(page') \union missed'
        BY <3>1 DEF Misses
      <3>4. Coming \subseteq Coming' \union {m}
        BY <1>3, <3>1 DEF Coming
      <3>5. ASSUME NEW x, chat = "open", FirstIs(history', x),
                   x \in Ids(page) \union Coming \union missed \union {m}
            PROVE  x \in Ids(page') \union Coming' \union missed'
        <4>1. x \in Stored(history')
          BY <2>1, <3>5, FirstIsOneOfThem DEF Kept
        <4>. QED BY <3>1, <3>2, <3>3, <3>4, <3>5, <4>1
      <3>6. missed' \subseteq Messages
        BY <1>3, <3>2, TheRest
      <3>. QED BY <1>1, <1>3, <2>1, <3>1, <3>5, <3>6, TheRest, MoreKeeps
    <2>. QED BY <2>2, <2>3, <2>4
  <1>. QED BY <1>4, <1>6, <1>7

LEMMA SendKeeps ==
  ASSUME HistInv, NEW m \in Messages, SendChat(m)
  PROVE  HistInv'
PROOF
  <1>1. /\ chat # "closed" /\ arrivals' \in 0 .. MaxArrivals
        /\ page' = Append(page, m) /\ unsaved' = unsaved \union {m}
        /\ UNCHANGED <<history, chat, hasMore, arrived, reported, excused, missed, faults>>
    BY TheRest DEF SendChat, Selected
  <1>2. Kept({})
    BY <1>1, UntouchedKeeps
  <1>3. /\ page' \in Seq(Messages) /\ page' # <<>> /\ Ids(page') = Ids(page) \union {m}
        /\ page # <<>> => Head(page') = Head(page)
    BY <1>1, AppendedPage, TheRest
  <1>4. Coming' = Coming
    BY <1>1 DEF Coming
  <1>5. unsaved' \subseteq Messages
    BY <1>1, TheRest
  <1>. QED BY <1>1, <1>2, <1>3, <1>4, <1>5, TheRest, MoreKeeps

LEMMA PersistKeeps ==
  ASSUME HistInv, NEW m \in Messages, NEW replacing, Persist(m, replacing)
  PROVE  HistInv'
PROOF
  <1>1. arrivals' = arrivals
    BY DEF Persist
  <1>2. PICK r \in PersistResults(history, m, replacing) :
          /\ Apply(r, {m})
          /\ IF r.result = "crash" THEN Restarted
             ELSE /\ unsaved' = unsaved \ {m}
                  /\ Misses(m)
                  /\ UNCHANGED <<chat, page, hasMore, arrived>>
    BY DEF Persist
  <1>3. Kept({m})
    BY <1>2, TheRest, PersistGives, ApplyKeeps
  <1>4. CASE r.result = "crash"
    BY <1>1, <1>2, <1>3, <1>4, TheRest, RestartKeeps
  <1>5. CASE r.result # "crash"
    <2>1. unsaved' = unsaved \ {m} /\ Misses(m) /\ UNCHANGED <<chat, page, hasMore, arrived>>
      BY <1>2, <1>5
    <2>2. missed' \subseteq missed \union {m} /\ missed \subseteq missed'
      BY <2>1 DEF Misses
    <2>3. chat = "open" /\ m \in Stored(history') => m \in Ids(page') \union missed'
      BY <2>1 DEF Misses
    <2>4. Coming' = Coming
      BY <2>1 DEF Coming
    <2>5. ASSUME NEW x, chat = "open", FirstIs(history', x),
                 x \in Ids(page) \union Coming \union missed \union {m}
          PROVE  x \in Ids(page') \union Coming' \union missed'
      <3>1. x \in Stored(history')
        BY <1>3, <2>5, FirstIsOneOfThem DEF Kept
      <3>. QED BY <2>1, <2>2, <2>3, <2>4, <2>5, <3>1
    <2>6. missed' \subseteq Messages /\ unsaved' \subseteq Messages
      BY <2>1, <2>2, TheRest
    <2>. QED BY <1>1, <1>3, <2>1, <2>5, <2>6, TheRest, MoreKeeps
  <1>. QED BY <1>4, <1>5

\* A step that loads a page may store records on the way.
LEMMA RecoverKeeps ==
  ASSUME HistInv, NEW r \in ReplaceResults(history), Apply(r, {})
  PROVE  Kept({})
PROOF
  BY TheRest, ReplaceGives, ApplyKeeps

LEMMA OpenKeeps ==
  ASSUME HistInv, OpenChat
  PROVE  HistInv'
PROOF
  <1>1. PICK v : v = Valid(history)
    OBVIOUS
  <1>2. /\ v \in Seq(Messages) /\ Ids(v) = Stored(history)
        /\ \A x : FirstIs(history, x) <=> (v # <<>> /\ v[1] = x)
    BY <1>1, ReadersFindAll, TheRest DEF FileOK
  <1>3. arrivals' \in 0 .. MaxArrivals
    BY TheRest DEF OpenChat
  <1>. DEFINE Loaded == /\ chat' = "open" /\ missed' = {}
                        /\ page' = NewestPage(v) /\ hasMore' = HasMore(v)
              Thrown == chat' = "failed" /\ missed' = {} /\ page' = <<>> /\ hasMore' = FALSE
  <1>4. \/ Loaded /\ UNCHANGED <<history, arrived, unsaved, reported, excused, faults>>
        \/ \E r \in ReplaceResults(history) :
             /\ Apply(r, {})
             /\ IF r.result = "crash" THEN Restarted
                ELSE /\ IF r.result = "error" THEN Thrown ELSE Loaded
                     /\ UNCHANGED <<arrived, unsaved>>
    BY <1>1 DEF OpenChat, Recover
  <1>5. ASSUME Kept({}), Loaded, UNCHANGED <<arrived, unsaved>>
        PROVE  HistInv'
    <2>1. /\ page' \in Seq(Messages) /\ hasMore' \in BOOLEAN
          /\ hasMore' => page' # <<>> /\ Head(page') \in Stored(history)
          /\ (~hasMore' /\ v # <<>>) => v[1] \in Ids(page')
      BY <1>2, <1>5, NewestPageGives
    <2>2. ASSUME ~hasMore', NEW x, FirstIs(history', x)
          PROVE  x \in Ids(page')
      <3>1. FirstIs(history, x)
        BY <1>5, <2>2 DEF Kept
      <3>. QED BY <1>2, <2>1, <2>2, <3>1
    <2>. QED BY <1>3, <1>5, <2>1, <2>2, TheRest, PageKeeps
  <1>6. ASSUME Kept({}), Thrown, UNCHANGED <<arrived, unsaved>>
        PROVE  HistInv'
    <2>1. page' \in Seq(Messages)
      BY <1>6
    <2>. QED BY <1>3, <1>6, <2>1, TheRest, PageKeeps
  <1>7. CASE Loaded /\ UNCHANGED <<history, arrived, unsaved, reported, excused, faults>>
    <2>1. Kept({})
      BY <1>7, UntouchedKeeps
    <2>. QED BY <1>5, <1>7, <2>1
  <1>8. ASSUME NEW r \in ReplaceResults(history), Apply(r, {}),
               IF r.result = "crash" THEN Restarted
               ELSE /\ IF r.result = "error" THEN Thrown ELSE Loaded
                    /\ UNCHANGED <<arrived, unsaved>>
        PROVE  HistInv'
    <2>1. Kept({})
      BY <1>8, RecoverKeeps
    <2>. QED BY <1>3, <1>5, <1>6, <1>8, <2>1, RestartKeeps
  <1>. QED BY <1>4, <1>7, <1>8

LEMMA CloseKeeps ==
  ASSUME HistInv, CloseChat
  PROVE  HistInv'
PROOF
  <1>1. /\ chat' = "closed" /\ page' = <<>> /\ hasMore' = FALSE /\ missed' = {}
        /\ UNCHANGED <<history, arrived, unsaved, reported, excused, faults, arrivals>>
    BY DEF CloseChat
  <1>2. Kept({})
    BY <1>1, UntouchedKeeps
  <1>3. page' \in Seq(Messages)
    BY <1>1
  <1>. QED BY <1>1, <1>2, <1>3, TheRest, PageKeeps

\* When nothing is before the record the page begins with, it is the first one.
LEMMA LoadKeeps ==
  ASSUME HistInv, LoadMore
  PROVE  HistInv'
PROOF
  <1>1. PICK v, older : v = Valid(history) /\ older = Before(v, Head(page))
    OBVIOUS
  <1>2. /\ v \in Seq(Messages) /\ Ids(v) = Stored(history)
        /\ \A x : FirstIs(history, x) <=> (v # <<>> /\ v[1] = x)
    BY <1>1, ReadersFindAll, TheRest DEF FileOK
  <1>3. /\ older \in Seq(Messages)
        /\ older # <<>> => /\ v # <<>> /\ older[1] = v[1]
                           /\ Ids(older) \subseteq Stored(history)
        /\ (Head(page) \in Ids(v) /\ older = <<>>) => v # <<>> /\ v[1] = Head(page)
    BY <1>1, <1>2, BeforeGives
  <1>4. /\ hasMore /\ page # <<>> /\ arrivals' = arrivals
        /\ Head(page) \in Stored(history) \union excused
    BY DEF LoadMore, HistInv, HeadIsStored
  <1>5. Head(page) \in Ids(page)
    <2>1. page \in Seq(Messages) /\ 1 \in 1 .. Len(page) /\ Head(page) = page[1]
      BY <1>4, TheRest
    <2>. QED BY <2>1, IdsOfPage
  <1>. DEFINE Loaded == /\ page' = NewestPage(older) \o page
                        /\ hasMore' = HasMore(older) /\ UNCHANGED <<chat, missed>>
              Thrown == UNCHANGED <<chat, page, hasMore, missed>>
  <1>6. \/ /\ older = <<>> /\ hasMore' = FALSE
           /\ UNCHANGED <<history, chat, page, arrived, unsaved, reported,
                          excused, missed, faults>>
        \/ /\ older # <<>> /\ Loaded
           /\ UNCHANGED <<history, arrived, unsaved, reported, excused, faults>>
        \/ /\ older # <<>>
           /\ \E r \in ReplaceResults(history) :
                /\ Apply(r, {})
                /\ IF r.result = "crash" THEN Restarted
                   ELSE /\ IF r.result = "error" THEN Thrown ELSE Loaded
                        /\ UNCHANGED <<arrived, unsaved>>
    BY <1>1 DEF LoadMore, Recover
  <1>7. CASE /\ older = <<>> /\ hasMore' = FALSE
             /\ UNCHANGED <<history, chat, page, arrived, unsaved, reported,
                            excused, missed, faults>>
    <2>1. Kept({})
      BY <1>7, UntouchedKeeps
    <2>2. ASSUME Ids(page) \intersect excused = {}, NEW x, FirstIs(history, x)
          PROVE  x \in Ids(page)
      <3>1. Head(page) \in Ids(v)
        BY <1>2, <1>4, <1>5, <2>2
      <3>. QED BY <1>2, <1>3, <1>5, <1>7, <2>2, <3>1
    <2>3. Ids(page') \intersect excused = {}
            => \A x : FirstIs(history', x) => x \in Ids(page')
      BY <1>7, <2>2
    <2>. QED BY <1>4, <1>7, <2>1, <2>3, TheRest, PageKeeps
  <1>8. ASSUME older # <<>>, Kept({}), Loaded, UNCHANGED <<arrived, unsaved>>
        PROVE  HistInv'
    <2>1. /\ NewestPage(older) \in Seq(Messages) /\ NewestPage(older) # <<>>
          /\ hasMore' \in BOOLEAN /\ Head(NewestPage(older)) \in Stored(history)
          /\ ~hasMore' => v[1] \in Ids(NewestPage(older))
      BY <1>3, <1>8, NewestPageGives
    <2>2. /\ page' \in Seq(Messages) /\ page' # <<>>
          /\ Head(page') = Head(NewestPage(older))
          /\ Ids(NewestPage(older)) \subseteq Ids(page')
      BY <1>8, <2>1, JoinedPage, TheRest
    <2>3. ASSUME ~hasMore', NEW x, FirstIs(history', x)
          PROVE  x \in Ids(page')
      <3>1. FirstIs(history, x)
        BY <1>8, <2>3 DEF Kept
      <3>. QED BY <1>2, <2>1, <2>2, <2>3, <3>1
    <2>4. chat' # "closed"
      BY <1>4, <1>8, TheRest
    <2>. QED BY <1>4, <1>8, <2>1, <2>2, <2>3, <2>4, TheRest, PageKeeps
  <1>9. ASSUME Kept({}), Thrown, UNCHANGED <<arrived, unsaved>>
        PROVE  HistInv'
    BY <1>4, <1>9, TheRest, PageKeeps
  <1>10. CASE /\ older # <<>> /\ Loaded
              /\ UNCHANGED <<history, arrived, unsaved, reported, excused, faults>>
    <2>1. Kept({})
      BY <1>10, UntouchedKeeps
    <2>. QED BY <1>8, <1>10, <2>1
  <1>11. ASSUME older # <<>>, NEW r \in ReplaceResults(history), Apply(r, {}),
                IF r.result = "crash" THEN Restarted
                ELSE /\ IF r.result = "error" THEN Thrown ELSE Loaded
                     /\ UNCHANGED <<arrived, unsaved>>
         PROVE  HistInv'
    <2>1. Kept({})
      BY <1>11, RecoverKeeps
    <2>. QED BY <1>4, <1>8, <1>9, <1>11, <2>1, TheRest, RestartKeeps
  <1>. QED BY <1>6, <1>7, <1>10, <1>11

LEMMA ShowKeeps ==
  ASSUME HistInv, NEW m, ShowAround(m)
  PROVE  HistInv'
PROOF
  <1>1. PICK v : v = Valid(history)
    OBVIOUS
  <1>2. /\ v \in Seq(Messages) /\ Ids(v) = Stored(history) /\ Len(v) \in Nat
        /\ \A x : FirstIs(history, x) <=> (v # <<>> /\ v[1] = x)
    BY <1>1, ReadersFindAll, TheRest DEF FileOK
  <1>3. PICK T, at : T = {i \in DOMAIN v : v[i] = m} /\ at = Min(T)
    OBVIOUS
  <1>4. at \in 1 .. Len(v)
    <2>1. m \in Ids(v)
      BY <1>2 DEF ShowAround
    <2>2. T \subseteq 1 .. Len(v) /\ T # {}
      BY <1>2, <1>3, <2>1, IdsOfPage
    <2>3. \E n \in T : \A k \in T : n <= k
      BY <1>2, <2>2, LeastNumber
    <2>. QED BY <1>3, <2>2, <2>3 DEF Min
  <1>5. PICK half, first : /\ half = PageSize \div 2
                           /\ first = IF at - 1 > half THEN at - half ELSE 1
    OBVIOUS
  <1>6. half \in Nat /\ PageSize \in Nat /\ PageSize > 0
    BY <1>5, HistoryAssumption
  <1>7. first \in 1 .. Len(v)
    BY <1>2, <1>4, <1>5, <1>6
  <1>8. PICK U, last : U = {Len(v), first + PageSize - 1} /\ last = Min(U)
    OBVIOUS
  <1>9. last \in first .. Len(v)
    <2>1. U \subseteq Nat /\ U # {} /\ \A n \in U : n >= first
      BY <1>2, <1>6, <1>7, <1>8
    <2>2. \E n \in U : \A k \in U : n <= k
      BY <2>1, LeastNumber
    <2>3. last \in U /\ \A k \in U : last <= k
      BY <1>8, <2>2 DEF Min
    <2>. QED BY <1>2, <1>7, <1>8, <2>1, <2>3
  <1>10. /\ page' = SubSeq(v, first, last) /\ hasMore' = (first > 1) /\ chat' = "open"
         /\ UNCHANGED <<history, arrived, unsaved, reported, excused, missed, faults,
                        arrivals>>
    BY <1>1, <1>3, <1>5, <1>8 DEF ShowAround
  <1>11. /\ page' \in Seq(Messages) /\ page' # <<>> /\ Head(page') = v[first]
         /\ v[first] \in Ids(page') /\ v[first] \in Stored(history)
    BY <1>2, <1>7, <1>9, <1>10, PartOfPage
  <1>12. hasMore' \in BOOLEAN /\ (~hasMore' => first = 1)
    <2>1. first \in Int /\ first >= 1
      BY <1>2, <1>7
    <2>2. hasMore' = (first > 1)
      BY <1>10, Zenon
    <2>3. (first > 1) \in BOOLEAN /\ (~(first > 1) => first = 1)
      BY <2>1
    <2>. QED BY <2>2, <2>3, Zenon
  <1>13. Kept({})
    BY <1>10, UntouchedKeeps
  <1>14. ASSUME ~hasMore', NEW x, FirstIs(history', x)
         PROVE  x \in Ids(page')
    BY <1>2, <1>10, <1>11, <1>12, <1>14
  <1>. QED BY <1>10, <1>11, <1>12, <1>13, <1>14, TheRest, PageKeeps

-----------------------------------------------------------------------------
(* The theorems.                                                            *)

LEMMA HistInvInit ==
  ASSUME HistInit
  PROVE  HistInv
PROOF
  <1>1. /\ history = [lines |-> <<>>, ended |-> TRUE] /\ chat = "closed" /\ page = <<>>
        /\ hasMore = FALSE /\ arrived = <<>> /\ unsaved = {} /\ reported = {}
        /\ excused = {} /\ missed = {} /\ faults = 0 /\ arrivals = 0
    BY DEF HistInit, Empty
  <1>2. HistTypeOK
    <2>1. history.lines \in Seq(Messages \union {Damaged}) /\ history.ended \in BOOLEAN
      BY <1>1
    <2>2. page \in Seq(Messages) /\ arrived \in Seq([id : Messages, persisted : BOOLEAN])
      BY <1>1
    <2>3. /\ unsaved \subseteq Messages /\ {reported, excused, missed} \subseteq SUBSET Messages
          /\ chat \in {"closed", "open", "failed"}
      BY <1>1
    <2>4. faults \in 0 .. MaxFaults /\ arrivals \in 0 .. MaxArrivals
      BY <1>1, HistoryAssumption
    <2>5. hasMore \in BOOLEAN /\ (chat = "closed" => page = <<>> /\ ~hasMore)
      BY <1>1
    <2>. QED BY <2>1, <2>2, <2>3, <2>4, <2>5 DEF HistTypeOK
  <1>. QED BY <1>1, <1>2 DEF HistInv, HistoryKept, HeadIsStored, FirstIsKnown

LEMMA HistInvStep ==
  ASSUME HistInv, [HistNext]_histVars
  PROVE  HistInv'
PROOF
  <1>1. CASE UNCHANGED histVars
    <2>1. UNCHANGED <<history, chat, page, hasMore, arrived, unsaved, reported,
                      excused, missed, faults, arrivals>>
      BY <1>1 DEF histVars
    <2>. QED BY <2>1, Zenon DEF HistInv, HistTypeOK, HistoryKept, HeadIsStored, FirstIsKnown, Coming
  <1>2. CASE HistNext
    BY <1>2, DrainKeeps, OpenKeeps, CloseKeeps, LoadKeeps, ReceiveKeeps, SendKeeps,
       ShowKeeps, PersistKeeps DEF HistNext
  <1>. QED BY <1>1, <1>2

LEMMA HistInvHolds == HistSpec => []HistInv
PROOF
  <1>. QED BY HistInvInit, HistInvStep, PTL DEF HistSpec

\* The file, the page and the records that were stored have their types.
THEOREM HistTypesHold == HistSpec => []HistTypeOK
PROOF
  <1>1. HistInv => HistTypeOK
    BY DEF HistInv
  <1>. QED BY <1>1, HistInvHolds, PTL

\* A record that was stored stays readable, whatever a fault has left in the file
\* before: appendChatMessage and replaceChatMessage lose only what a fault in the
\* operation, or behind a line without its end, takes with it.
THEOREM HistoryIsKept == HistSpec => []HistoryKept
PROOF
  <1>1. HistInv => HistoryKept
    BY DEF HistInv
  <1>. QED BY <1>1, HistInvHolds, PTL

\* The user can page back to the first record of the history: loadMoreSelectedPeer-
\* Messages says that there is no more only when it is shown or on its way.
THEOREM OldestIsReachable == HistSpec => []OldestReachable
PROOF
  <1>1. HistInv => OldestReachable
    <2>. SUFFICES ASSUME HistInv
                  PROVE  OldestReachable
      OBVIOUS
    <2>1. /\ Valid(history) \in Seq(Messages)
          /\ \A x : FirstIs(history, x) <=> (Valid(history) # <<>> /\ Valid(history)[1] = x)
      BY ReadersFindAll, TheRest DEF FileOK
    <2>2. Valid(history) # <<>> => FirstIs(history, Head(Valid(history)))
      BY <2>1
    <2>. QED BY <2>2 DEF OldestReachable, HistInv, FirstIsKnown, Coming
  <1>. QED BY <1>1, HistInvHolds, PTL

-----------------------------------------------------------------------------
(* Sums of sizes.                                                           *)

\* The sum is well-defined.
LEMMA SumIsRead ==
  ASSUME NEW sizes \in Seq(Nat)
  PROVE  \E upTo :
           /\ upTo[0] = 0
           /\ \A n \in 1 .. Len(sizes) : upTo[n] = upTo[n - 1] + sizes[n]
           /\ SumSizes(sizes) = upTo[Len(sizes)]
PROOF
  <1>1. Len(sizes) \in Nat
    OBVIOUS
  <1>. DEFINE Read(g, n) == IF n = 0 THEN 0 ELSE g[n - 1] + sizes[n]
              G == {n \in Nat : \E g : g = [k \in 0 .. n |-> Read(g, k)]}
  <1>2. 0 \in G
    <2>. DEFINE g == [k \in 0 .. 0 |-> 0]
    <2>1. g = [k \in 0 .. 0 |-> Read(g, k)]
      OBVIOUS
    <2>. QED BY <2>1
  <1>3. ASSUME NEW n \in Nat, n \in G
        PROVE  n + 1 \in G
    <2>1. PICK g : g = [k \in 0 .. n |-> Read(g, k)]
      BY <1>3
    <2>2. PICK h : h = [k \in 0 .. n + 1 |-> IF k \in 0 .. n THEN g[k] ELSE Read(g, k)]
      OBVIOUS
    <2>3. \A k \in 0 .. n : h[k] = g[k]
      BY <2>2
    <2>4. \A k \in 0 .. n + 1 : h[k] = Read(g, k)
      <3>. TAKE k \in 0 .. n + 1
      <3>. HIDE DEF Read
      <3>1. k \in 0 .. n => g[k] = Read(g, k)
        BY <2>1
      <3>. QED BY <2>2, <3>1
    <2>5. \A k \in 0 .. n + 1 : Read(g, k) = Read(h, k)
      <3>. TAKE k \in 0 .. n + 1
      <3>1. k # 0 => g[k - 1] = h[k - 1]
        BY <2>3
      <3>. QED BY <3>1
    <2>. HIDE DEF Read
    <2>6. \A k \in 0 .. n + 1 : h[k] = Read(h, k)
      BY <2>4, <2>5
    <2>7. h = [k \in 0 .. n + 1 |-> h[k]]
      BY <2>2
    <2>8. h = [k \in 0 .. n + 1 |-> Read(h, k)]
      BY <2>6, <2>7, Zenon
    <2>. QED BY <2>8
  <1>. HIDE DEF G
  <1>4. Len(sizes) \in G
    BY <1>1, <1>2, <1>3, NumbersByInduction
  <1>5. \E g : g = [n \in 0 .. Len(sizes) |-> IF n = 0 THEN 0 ELSE g[n - 1] + sizes[n]]
    BY <1>4, Zenon DEF G
  <1>6. PICK upTo :
          /\ upTo = [n \in 0 .. Len(sizes) |->
                       IF n = 0 THEN 0 ELSE upTo[n - 1] + sizes[n]]
          /\ SumSizes(sizes) = upTo[Len(sizes)]
    BY <1>5, Zenon DEF SumSizes
  <1>7. \A n \in 0 .. Len(sizes) : upTo[n] = IF n = 0 THEN 0 ELSE upTo[n - 1] + sizes[n]
    BY <1>6, Zenon
  <1>8. upTo[0] = 0
    BY <1>1, <1>7
  <1>9. \A n \in 1 .. Len(sizes) : upTo[n] = upTo[n - 1] + sizes[n]
    BY <1>1, <1>7
  <1>. QED BY <1>6, <1>8, <1>9

\* The sum of the first n.
UpTo(f, n) == SumSizes([j \in 1 .. n |-> f[j]])

LEMMA SumOfFirst ==
  ASSUME NEW top \in Nat, NEW f \in [1 .. top -> Nat]
  PROVE  /\ UpTo(f, 0) = 0
         /\ \A n \in 0 .. top : UpTo(f, n) \in Nat
         /\ \A n \in 1 .. top : UpTo(f, n) = UpTo(f, n - 1) + f[n]
PROOF
  <1>1. ASSUME NEW n \in 0 .. top
        PROVE  \E upTo : /\ upTo[0] = 0
                         /\ \A k \in 1 .. n : upTo[k] = upTo[k - 1] + f[k]
                         /\ UpTo(f, n) = upTo[n]
    <2>1. PICK s : s = [j \in 1 .. n |-> f[j]]
      OBVIOUS
    <2>2. s \in Seq(Nat) /\ Len(s) = n /\ \A k \in 1 .. n : s[k] = f[k]
      BY <2>1
    <2>3. PICK upTo : /\ upTo[0] = 0
                      /\ \A k \in 1 .. Len(s) : upTo[k] = upTo[k - 1] + s[k]
                      /\ SumSizes(s) = upTo[Len(s)]
      BY <2>2, SumIsRead
    <2>4. \A k \in 1 .. n : upTo[k] = upTo[k - 1] + f[k]
      BY <2>2, <2>3
    <2>5. UpTo(f, n) = upTo[n]
      BY <2>1, <2>2, <2>3 DEF UpTo
    <2>. QED BY <2>3, <2>4, <2>5
  <1>2. ASSUME NEW n \in 0 .. top, NEW s, NEW t, s[0] = 0, t[0] = 0,
               \A k \in 1 .. n : s[k] = s[k - 1] + f[k],
               \A k \in 1 .. n : t[k] = t[k - 1] + f[k]
        PROVE  s[n] = t[n] /\ s[n] \in Nat
    <2>. DEFINE G == {k \in Nat : k <= n => s[k] = t[k] /\ s[k] \in Nat}
    <2>1. 0 \in G
      BY <1>2
    <2>2. ASSUME NEW k \in Nat, k \in G
          PROVE  k + 1 \in G
      <3>. SUFFICES ASSUME k + 1 <= n
                    PROVE  s[k + 1] = t[k + 1] /\ s[k + 1] \in Nat
        OBVIOUS
      <3>1. k + 1 \in 1 .. n /\ (k + 1) - 1 = k /\ k <= n /\ k + 1 \in 1 .. top
        OBVIOUS
      <3>2. s[k] = t[k] /\ s[k] \in Nat /\ f[k + 1] \in Nat
        BY <2>2, <3>1
      <3>3. s[k + 1] = s[k] + f[k + 1] /\ t[k + 1] = t[k] + f[k + 1]
        BY <1>2, <3>1
      <3>. QED BY <3>2, <3>3
    <2>. HIDE DEF G
    <2>3. n \in Nat
      OBVIOUS
    <2>4. n \in G
      BY <2>1, <2>2, <2>3, NumbersByInduction
    <2>. QED BY <2>4 DEF G
  <1>3. UpTo(f, 0) = 0
    BY <1>1
  <1>4. ASSUME NEW n \in 0 .. top
        PROVE  UpTo(f, n) \in Nat
    <2>1. PICK s : s[0] = 0 /\ (\A k \in 1 .. n : s[k] = s[k - 1] + f[k]) /\ UpTo(f, n) = s[n]
      BY <1>1
    <2>2. s[n] \in Nat
      BY <1>2, <2>1
    <2>. QED BY <2>1, <2>2
  <1>5. ASSUME NEW n \in 1 .. top
        PROVE  UpTo(f, n) = UpTo(f, n - 1) + f[n]
    <2>1. n \in 0 .. top /\ n - 1 \in 0 .. top /\ n \in 1 .. n
      OBVIOUS
    <2>2. PICK s : s[0] = 0 /\ (\A k \in 1 .. n : s[k] = s[k - 1] + f[k]) /\ UpTo(f, n) = s[n]
      BY <1>1, <2>1
    <2>3. PICK t : /\ t[0] = 0 /\ (\A k \in 1 .. n - 1 : t[k] = t[k - 1] + f[k])
                   /\ UpTo(f, n - 1) = t[n - 1]
      BY <1>1, <2>1
    <2>4. \A k \in 1 .. n - 1 : s[k] = s[k - 1] + f[k]
      BY <2>2
    <2>5. s[n - 1] = t[n - 1]
      BY <1>2, <2>1, <2>2, <2>3, <2>4
    <2>. QED BY <2>1, <2>2, <2>3, <2>5
  <1>. QED BY <1>3, <1>4, <1>5

LEMMA SumsGrow ==
  ASSUME NEW top \in Nat, NEW f \in [1 .. top -> Nat],
         NEW m \in 0 .. top, NEW n \in m .. top
  PROVE  UpTo(f, m) <= UpTo(f, n)
PROOF
  <1>. DEFINE G == {k \in Nat : m + k <= top => UpTo(f, m) <= UpTo(f, m + k)}
  <1>1. 0 \in G
    BY SumOfFirst
  <1>2. ASSUME NEW k \in Nat, k \in G
        PROVE  k + 1 \in G
    <2>. SUFFICES ASSUME m + (k + 1) <= top
                  PROVE  UpTo(f, m) <= UpTo(f, m + (k + 1))
      OBVIOUS
    <2>1. PICK l : l = m + (k + 1)
      OBVIOUS
    <2>2. l \in 1 .. top /\ l - 1 = m + k /\ m + k \in 0 .. top /\ m + k <= top
      BY <2>1
    <2>3. UpTo(f, l) = UpTo(f, m + k) + f[l] /\ UpTo(f, m + k) \in Nat /\ f[l] \in Nat
      BY <2>2, SumOfFirst
    <2>4. UpTo(f, m) <= UpTo(f, m + k) /\ UpTo(f, m) \in Nat
      BY <1>2, <2>2, SumOfFirst
    <2>. QED BY <2>1, <2>3, <2>4
  <1>. HIDE DEF G
  <1>3. n - m \in Nat /\ m + (n - m) = n
    OBVIOUS
  <1>4. n - m \in G
    BY <1>1, <1>2, <1>3, NumbersByInduction
  <1>. QED BY <1>3, <1>4 DEF G

LEMMA SumsAreBounded ==
  ASSUME NEW top \in Nat, NEW most \in Nat, NEW f \in [1 .. top -> 0 .. most]
  PROVE  UpTo(f, top) <= top * most
PROOF
  <1>0. f \in [1 .. top -> Nat]
    OBVIOUS
  <1>. DEFINE G == {k \in Nat : k <= top => UpTo(f, k) <= k * most}
  <1>1. 0 \in G
    BY <1>0, SumOfFirst
  <1>2. ASSUME NEW k \in Nat, k \in G
        PROVE  k + 1 \in G
    <2>. SUFFICES ASSUME k + 1 <= top
                  PROVE  UpTo(f, k + 1) <= (k + 1) * most
      OBVIOUS
    <2>1. k + 1 \in 1 .. top /\ (k + 1) - 1 = k /\ k \in 0 .. top /\ k <= top
      OBVIOUS
    <2>2. UpTo(f, k + 1) = UpTo(f, k) + f[k + 1] /\ UpTo(f, k) \in Nat /\ f[k + 1] \in 0 .. most
      BY <1>0, <2>1, SumOfFirst
    <2>3. UpTo(f, k) <= k * most
      BY <1>2, <2>1
    <2>4. (k + 1) * most = k * most + most /\ k * most \in Nat
      OBVIOUS
    <2>. QED BY <2>2, <2>3, <2>4
  <1>. HIDE DEF G
  <1>3. top \in G
    BY <1>1, <1>2, NumbersByInduction
  <1>. QED BY <1>3 DEF G

-----------------------------------------------------------------------------
(* Where the entries of a folder begin.                                      *)

LEMMA TheFolder ==
  ASSUME folder \in Folders
  PROVE  /\ Len(folder) \in 1 .. MaxEntries /\ Entries = 1 .. Len(folder)
         /\ \A i \in Entries : folder[i].size \in 0 .. MaxFileSize
         /\ MaxEntries \in Nat /\ MaxFileSize \in Nat
PROOF
  <1>1. PICK n \in 1 .. MaxEntries :
          folder \in [1 .. n -> [dir : {FALSE}, size : 0 .. MaxFileSize]
                                  \union [dir : {TRUE}, size : {0}]]
    BY DEF Folders
  <1>2. n \in Nat /\ MaxFileSize \in Nat /\ MaxEntries \in Nat
    BY FolderAssumption
  <1>3. Len(folder) = n /\ Entries = 1 .. n
    BY <1>1, <1>2 DEF Entries
  <1>4. ASSUME NEW i \in 1 .. n
        PROVE  folder[i].size \in 0 .. MaxFileSize
    <2>1. folder[i] \in [dir : {FALSE}, size : 0 .. MaxFileSize]
                          \union [dir : {TRUE}, size : {0}]
      BY <1>1
    <2>2. 0 \in 0 .. MaxFileSize
      BY <1>2
    <2>. QED BY <2>1, <2>2
  <1>. QED BY <1>1, <1>2, <1>3, <1>4

LEMMA TheStarts ==
  ASSUME folder \in Folders
  PROVE  /\ StartOf(1) = 0
         /\ \A i \in 1 .. Len(folder) + 1 : StartOf(i) \in 0 .. Total
         /\ \A i \in Entries : StartOf(i + 1) = StartOf(i) + folder[i].size
         /\ \A i, j \in 1 .. Len(folder) + 1 : i <= j => StartOf(i) <= StartOf(j)
         /\ StartOf(Len(folder) + 1) = Total
         /\ Total \in Nat /\ Total <= MaxEntries * MaxFileSize
PROOF
  <1>1. PICK top, f : top = Len(folder) /\ f = [i \in Entries |-> folder[i].size]
    OBVIOUS
  <1>2. /\ top \in Nat /\ Entries = 1 .. top /\ f \in [1 .. top -> 0 .. MaxFileSize]
        /\ f \in [1 .. top -> Nat] /\ \A i \in 1 .. top : f[i] = folder[i].size
    BY <1>1, TheFolder
  <1>3. ASSUME NEW i \in 1 .. top + 1
        PROVE  StartOf(i) = UpTo(f, i - 1)
    <2>1. [j \in 1 .. i - 1 |-> folder[j].size] = [j \in 1 .. i - 1 |-> f[j]]
      BY <1>2
    <2>. QED BY <2>1 DEF StartOf, UpTo
  <1>4. Total = UpTo(f, top)
    <2>1. [i \in Entries |-> folder[i].size] = [j \in 1 .. top |-> f[j]]
      BY <1>2
    <2>. QED BY <2>1 DEF Total, UpTo
  <1>5. StartOf(1) = 0 /\ StartOf(top + 1) = Total
    BY <1>2, <1>3, <1>4, SumOfFirst
  <1>6. \A i, j \in 1 .. top + 1 : i <= j => StartOf(i) <= StartOf(j)
    <2>. SUFFICES ASSUME NEW i \in 1 .. top + 1, NEW j \in 1 .. top + 1, i <= j
                  PROVE  StartOf(i) <= StartOf(j)
      OBVIOUS
    <2>1. i - 1 \in 0 .. top /\ j - 1 \in i - 1 .. top
      BY <1>2
    <2>2. UpTo(f, i - 1) <= UpTo(f, j - 1)
      BY <1>2, <2>1, SumsGrow
    <2>. QED BY <1>3, <2>2
  <1>7. \A i \in 1 .. top + 1 : StartOf(i) \in Nat /\ StartOf(i) <= Total
    <2>. TAKE i \in 1 .. top + 1
    <2>1. i - 1 \in 0 .. top /\ i <= top + 1 /\ top + 1 \in 1 .. top + 1
      BY <1>2
    <2>2. StartOf(i) \in Nat
      BY <1>2, <1>3, <2>1, SumOfFirst
    <2>. QED BY <1>5, <1>6, <2>1, <2>2
  <1>8. \A i \in Entries : StartOf(i + 1) = StartOf(i) + folder[i].size
    <2>. TAKE i \in Entries
    <2>1. i \in 1 .. top /\ i + 1 \in 1 .. top + 1 /\ i \in 1 .. top + 1 /\ (i + 1) - 1 = i
      BY <1>2
    <2>2. UpTo(f, i) = UpTo(f, i - 1) + f[i]
      BY <1>2, <2>1, SumOfFirst
    <2>. QED BY <1>2, <1>3, <2>1, <2>2
  <1>9. Total \in Nat /\ Total <= MaxEntries * MaxFileSize
    <2>1. Total <= top * MaxFileSize
      BY <1>2, <1>4, TheFolder, SumsAreBounded
    <2>2. top \in Nat /\ top <= MaxEntries /\ MaxEntries \in Nat /\ MaxFileSize \in Nat
      BY <1>1, TheFolder
    <2>3. top * MaxFileSize <= MaxEntries * MaxFileSize
          /\ top * MaxFileSize \in Nat /\ MaxEntries * MaxFileSize \in Nat
      <3>1. PICK d \in Nat : MaxEntries = top + d
        <4>1. MaxEntries - top \in Nat /\ MaxEntries = top + (MaxEntries - top)
          BY <2>2
        <4>. QED BY <4>1
      <3>2. (top + d) * MaxFileSize = top * MaxFileSize + d * MaxFileSize
            /\ d * MaxFileSize \in Nat /\ top * MaxFileSize \in Nat
        BY <2>2, <3>1
      <3>. QED BY <2>2, <3>1, <3>2
    <2>4. Total \in Nat
      BY <1>2, <1>5, <1>7
    <2>. QED BY <2>1, <2>3, <2>4
  <1>10. \A i \in 1 .. top + 1 : StartOf(i) \in 0 .. Total
    BY <1>7, <1>9
  <1>. QED BY <1>1, <1>5, <1>6, <1>8, <1>9, <1>10

-----------------------------------------------------------------------------
(* The target holds a beginning of the folder's bytes.                       *)

TargetOK == target \in [Entries -> Seq({"new", "old"}) \union {Absent}]

\* What of entry i is among the first c bytes.
Among(c, i) ==
  IF c <= StartOf(i) THEN 0
  ELSE IF c >= StartOf(i) + folder[i].size THEN folder[i].size
  ELSE c - StartOf(i)

Holds(c) == \A i \in Entries : SizeAt(i) = Among(c, i)

LEMMA SizesAreNumbers ==
  ASSUME TargetOK, NEW i \in Entries
  PROVE  SizeAt(i) \in Nat
PROOF
  <1>1. target[i] = Absent \/ target[i] \in Seq({"new", "old"})
    BY DEF TargetOK
  <1>. QED BY <1>1 DEF SizeAt

\* What is measured is what is held.
LEMMA HeldIsMeasured ==
  ASSUME folder \in Folders, TargetOK, foreign = 0, NEW c \in 0 .. Total, Holds(c)
  PROVE  Measured = c
PROOF
  <1>1. PICK top, f : top = Len(folder) /\ f = [i \in Entries |-> SizeAt(i)]
    OBVIOUS
  <1>2. /\ top \in Nat /\ Entries = 1 .. top
        /\ f \in [1 .. top -> Nat] /\ \A i \in 1 .. top : f[i] = SizeAt(i)
    BY <1>1, TheFolder, SizesAreNumbers
  <1>. DEFINE G == {n \in Nat : n <= top =>
                     UpTo(f, n) = IF c <= StartOf(n + 1) THEN c ELSE StartOf(n + 1)}
  <1>3. 0 \in G
    <2>1. StartOf(0 + 1) = 0 /\ UpTo(f, 0) = 0
      BY <1>2, TheStarts, SumOfFirst
    <2>2. c >= 0 /\ c \in Int
      BY TheStarts
    <2>. QED BY <2>1, <2>2
  <1>4. ASSUME NEW n \in Nat, n \in G
        PROVE  n + 1 \in G
    <2>. SUFFICES ASSUME n + 1 <= top
                  PROVE  UpTo(f, n + 1) = IF c <= StartOf((n + 1) + 1) THEN c
                                          ELSE StartOf((n + 1) + 1)
      OBVIOUS
    <2>1. PICK i : i = n + 1
      OBVIOUS
    <2>2. i \in 1 .. top /\ i \in Entries /\ i - 1 = n /\ n <= top /\ i \in 1 .. top + 1
          /\ i + 1 \in 1 .. top + 1
      BY <1>2, <2>1
    <2>3. UpTo(f, i) = UpTo(f, n) + SizeAt(i)
      BY <1>2, <2>2, SumOfFirst
    <2>4. UpTo(f, n) = IF c <= StartOf(i) THEN c ELSE StartOf(i)
      BY <1>4, <2>1, <2>2
    <2>5. SizeAt(i) = Among(c, i)
      BY <2>2 DEF Holds
    <2>6. /\ StartOf(i) \in Nat /\ StartOf(i + 1) = StartOf(i) + folder[i].size
          /\ folder[i].size \in Nat /\ c \in Nat
      BY <1>1, <2>2, TheFolder, TheStarts
    <2>7. UpTo(f, i) = IF c <= StartOf(i + 1) THEN c ELSE StartOf(i + 1)
      BY <2>3, <2>4, <2>5, <2>6 DEF Among
    <2>. QED BY <2>1, <2>7
  <1>. HIDE DEF G
  <1>5. top \in G
    BY <1>2, <1>3, <1>4, NumbersByInduction
  <1>6. UpTo(f, top) = c
    BY <1>1, <1>2, <1>5, TheStarts DEF G
  <1>7. SumSizes([i \in Entries |-> SizeAt(i)]) = c
    <2>1. [i \in Entries |-> SizeAt(i)] = [j \in 1 .. top |-> f[j]]
      BY <1>1, <1>2
    <2>. QED BY <1>6, <2>1 DEF UpTo
  <1>8. Total \in Nat /\ c \in Nat /\ c <= Total
    BY TheStarts
  <1>. QED BY <1>7, <1>8 DEF Measured

LEMMA MeasuredIsInRange ==
  ASSUME folder \in Folders, TargetOK, foreign \in 0 .. 1
  PROVE  Measured \in 0 .. Total
PROOF
  <1>1. PICK top, f : top = Len(folder) /\ f = [i \in Entries |-> SizeAt(i)]
    OBVIOUS
  <1>2. /\ top \in Nat /\ Entries = 1 .. top
        /\ f \in [1 .. top -> Nat] /\ \A i \in 1 .. top : f[i] = SizeAt(i)
    BY <1>1, TheFolder, SizesAreNumbers
  <1>3. SumSizes([i \in Entries |-> SizeAt(i)]) \in Nat
    <2>1. [i \in Entries |-> SizeAt(i)] = [j \in 1 .. top |-> f[j]]
      BY <1>1, <1>2
    <2>. QED BY <1>2, <2>1, SumOfFirst DEF UpTo
  <1>4. Total \in Nat
    BY TheStarts
  <1>. QED BY <1>3, <1>4 DEF Measured

\* What holds everything has every file whole.
LEMMA EverythingIsWhole ==
  ASSUME folder \in Folders, Holds(Total), NEW i \in Entries
  PROVE  SizeAt(i) = folder[i].size
PROOF
  <1>1. /\ StartOf(i + 1) = StartOf(i) + folder[i].size /\ StartOf(i + 1) <= Total
        /\ StartOf(i) \in Nat /\ folder[i].size \in Nat /\ Total \in Nat
    <2>1. i + 1 \in 1 .. Len(folder) + 1 /\ i \in 1 .. Len(folder) + 1
      BY TheFolder
    <2>. QED BY <2>1, TheFolder, TheStarts
  <1>2. SizeAt(i) = Among(Total, i)
    BY DEF Holds
  <1>. QED BY <1>1, <1>2 DEF Among

\* An empty target holds nothing.
LEMMA NothingIsHeld ==
  ASSUME folder \in Folders, \A i \in Entries : target[i] = Absent
  PROVE  Holds(0)
PROOF
  <1>1. \A i \in Entries : StartOf(i) >= 0
    <2>1. \A i \in Entries : i \in 1 .. Len(folder) + 1
      BY TheFolder
    <2>. QED BY <2>1, TheStarts
  <1>. QED BY <1>1 DEF Holds, Among, SizeAt

-----------------------------------------------------------------------------
(* The invariant.                                                           *)

\* A stream's offset is where its next chunk lies in the folder.
StreamOK ==
  /\ sending \in [entry : 0 .. Len(folder) + 1, offset : Nat, fileOffset : Nat,
                  offered : BOOLEAN]
  /\ sending.entry \in Entries =>
       /\ sending.offset = StartOf(sending.entry) + sending.fileOffset
       /\ sending.fileOffset = 0 \/ sending.fileOffset < folder[sending.entry].size

\* Unless something else was in the folder or a late answer began it anew, the
\* target holds as many bytes of the folder as were received.
BeginningHeld ==
  (~overwritten /\ ~begunAnew) =>
     /\ foreign = 0
     /\ \E c \in 0 .. Total :
          /\ Holds(c)
          /\ receivedSize # NotPending => receivedSize = c
          /\ state = "Completed" => c = Total

\* Nothing happens to a transfer that was only offered.
OfferIsUntouched ==
  state = "Offered" =>
    answers = {} /\ sending = NoStream /\ \A i \in Entries : target[i] = Absent

FoldInv ==
  /\ FoldTypeOK /\ answers \subseteq AnswersUpTo(Total)
  /\ StreamOK /\ BeginningHeld /\ OfferIsUntouched

LEMMA PendingOrNot ==
  ASSUME folder \in Folders
  PROVE  /\ NotPending \in Nat /\ Total \in Nat /\ Total < NotPending
         /\ 0 .. Total \subseteq 0 .. MaxEntries * MaxFileSize
         /\ 0 .. Total \subseteq 0 .. NotPending
PROOF
  <1>1. PICK most : most = MaxEntries * MaxFileSize
    OBVIOUS
  <1>2. most \in Nat /\ NotPending = most + 1 /\ Total \in Nat /\ Total <= most
    BY <1>1, TheFolder, TheStarts DEF NotPending
  <1>. QED BY <1>1, <1>2

LEMMA TheTypes ==
  ASSUME FoldInv
  PROVE  /\ folder \in Folders /\ TargetOK /\ foreign \in 0 .. 1
         /\ receivedSize \in 0 .. NotPending /\ state \in States
         /\ answers \subseteq AnswersUpTo(Total)
         /\ overwritten \in BOOLEAN /\ begunAnew \in BOOLEAN /\ streamed \in BOOLEAN
         /\ ends \in 0 .. MaxEnds /\ MaxEnds \in Nat /\ MaxAnswers \in Nat
         /\ StreamOK /\ BeginningHeld /\ OfferIsUntouched
PROOF
  BY FolderAssumption DEF FoldInv, FoldTypeOK, TargetOK

\* The folder of the sender does not change.
LEMMA FolderStays ==
  ASSUME folder' = folder
  PROVE  /\ Entries' = Entries /\ Total' = Total
         /\ \A i : StartOf(i)' = StartOf(i)
PROOF
  BY DEF Entries, Total, StartOf

LEMMA ContentStays ==
  ASSUME folder' = folder, target' = target
  PROVE  \A c : Holds(c)' <=> Holds(c)
PROOF
  BY FolderStays DEF Holds, Among, SizeAt

\* What is left to show of a step.
LEMMA StepKeeps ==
  ASSUME FoldInv, folder' = folder, foreign' \in 0 .. 1,
         target' \in [Entries -> Seq({"new", "old"}) \union {Absent}],
         receivedSize' \in 0 .. NotPending, state' \in States,
         answers' \subseteq AnswersUpTo(Total),
         StreamOK', overwritten' \in BOOLEAN, begunAnew' \in BOOLEAN,
         streamed' \in {streamed, TRUE},
         ends' \in 0 .. MaxEnds, BeginningHeld', OfferIsUntouched'
  PROVE  FoldInv'
PROOF
  <1>1. folder' \in Folders /\ Entries' = Entries /\ Total' = Total
        /\ sending'.entry \in 0 .. Len(folder') + 1
    BY TheTypes, FolderStays DEF StreamOK
  <1>2. answers' \subseteq AnswersUpTo(MaxEntries * MaxFileSize)
    BY TheTypes, PendingOrNot DEF AnswersUpTo
  <1>3. {overwritten, begunAnew, streamed}' \subseteq BOOLEAN
    BY TheTypes
  <1>4. FoldTypeOK'
    BY <1>1, <1>2, <1>3 DEF FoldTypeOK
  <1>. QED BY <1>1, <1>4 DEF FoldInv

\* A step that leaves the content may count it again.
LEMMA CountKeeps ==
  ASSUME FoldInv,
         UNCHANGED <<folder, target, foreign>>,
         ~overwritten' => ~overwritten, ~begunAnew' => ~begunAnew,
         \/ receivedSize' \in {receivedSize, NotPending, Measured}
         \/ ~overwritten' /\ ~begunAnew' => Measured = 0 /\ receivedSize' = 0,
         state' = "Completed" => (state = "Completed" \/ receivedSize = Total)
  PROVE  BeginningHeld'
PROOF
  <1>. SUFFICES ASSUME ~overwritten', ~begunAnew'
                PROVE  /\ foreign' = 0
                       /\ \E c \in 0 .. Total' :
                            /\ Holds(c)'
                            /\ receivedSize' # NotPending => receivedSize' = c
                            /\ state' = "Completed" => c = Total'
    BY DEF BeginningHeld, NotPending
  <1>1. PICK c \in 0 .. Total :
          /\ foreign = 0 /\ Holds(c)
          /\ receivedSize # NotPending => receivedSize = c
          /\ state = "Completed" => c = Total
    BY TheTypes DEF BeginningHeld
  <1>2. Measured = c
    BY <1>1, TheTypes, HeldIsMeasured
  <1>3. Holds(c)' /\ Total' = Total
    BY <1>1, ContentStays, FolderStays
  <1>4. receivedSize' # NotPending => receivedSize' = c
    BY <1>1, <1>2
  <1>5. state' = "Completed" => c = Total
    BY <1>1, TheTypes, PendingOrNot
  <1>. QED BY <1>1, <1>3, <1>4, <1>5

\* A step that begins in a path of its own.
LEMMA FreshKeeps ==
  ASSUME FoldInv, folder' = folder, target' = [i \in Entries |-> Absent],
         foreign' = 0, receivedSize' = 0, state' # "Completed"
  PROVE  /\ BeginningHeld'
         /\ target' \in [Entries -> Seq({"new", "old"}) \union {Absent}]
PROOF
  <1>1. target' \in [Entries -> Seq({"new", "old"}) \union {Absent}]
    OBVIOUS
  <1>2. \A i \in Entries : SizeAt(i)' = 0
    BY DEF SizeAt
  <1>3. \A i \in Entries : StartOf(i) >= 0
    <2>1. \A i \in Entries : i \in 1 .. Len(folder) + 1
      BY TheTypes, TheFolder
    <2>. QED BY <2>1, TheTypes, TheStarts
  <1>4. Holds(0)'
    BY <1>2, <1>3, FolderStays DEF Holds, Among
  <1>5. 0 \in 0 .. Total'
    BY TheTypes, TheStarts, FolderStays
  <1>. QED BY <1>1, <1>4, <1>5 DEF BeginningHeld

LEMMA StreamStays ==
  ASSUME FoldInv, folder' = folder, sending' = sending
  PROVE  StreamOK'
PROOF
  BY TheTypes, FolderStays DEF StreamOK

\* shouldIgnoreTransferStateUpdate leaves the state or takes the new one.
LEMMA UpdateGives ==
  ASSUME FoldInv, NEW new \in States, Update(new)
  PROVE  state' \in States /\ state' \in {state, new}
PROOF
  BY TheTypes DEF Update

LEMMA InterruptGives ==
  ASSUME FoldInv, Interrupt
  PROVE  /\ state' \in States /\ receivedSize' \in {receivedSize, NotPending}
         /\ receivedSize' \in 0 .. NotPending
         /\ state' \in {"Completed", "Offered"} => state' = state
PROOF
  <1>1. "Interrupted" \in States /\ NotPending \in 0 .. NotPending
    BY TheTypes, PendingOrNot DEF States
  <1>. QED BY <1>1, TheTypes, UpdateGives DEF Interrupt

LEMMA RefuseGives ==
  ASSUME FoldInv, Refuse
  PROVE  /\ state' \in States /\ receivedSize' = NotPending /\ target' = target
         /\ receivedSize' \in 0 .. NotPending
         /\ state' \in {"Completed", "Offered"} => state' = state
PROOF
  <1>1. "Failed" \in States /\ NotPending \in 0 .. NotPending
    BY TheTypes, PendingOrNot DEF States
  <1>. QED BY <1>1, TheTypes, UpdateGives DEF Refuse

LEMMA SupersededGives == FoldInv => Superseded \subseteq AnswersUpTo(Total)
PROOF
  <1>. SUFFICES ASSUME FoldInv, NEW a \in answers
                PROVE  [a EXCEPT !.onLoss = "none"] \in AnswersUpTo(Total)
    BY DEF Superseded
  <1>. QED BY TheTypes DEF AnswersUpTo

LEMMA AnswerGives ==
  ASSUME FoldInv, NEW earlier \in SUBSET AnswersUpTo(Total), NEW offset \in 0 .. Total,
         NEW onLoss \in {"Failed", "Interrupted", "none"}, Answer(earlier, offset, onLoss)
  PROVE  /\ receivedSize' = offset /\ receivedSize' \in 0 .. NotPending
         /\ answers' \subseteq AnswersUpTo(Total)
PROOF
  BY TheTypes, PendingOrNot DEF Answer, AnswersUpTo

LEMMA LessAnswers ==
  ASSUME FoldInv, NEW k, answers' = answers \ {k}
  PROVE  answers' \subseteq AnswersUpTo(Total)
PROOF
  BY TheTypes

-----------------------------------------------------------------------------
(* The steps of the receiver.                                                *)

LEMMA AcceptOfferedKeeps ==
  ASSUME FoldInv, AcceptOffered
  PROVE  FoldInv'
PROOF
  <1>1. /\ state = "Offered" /\ state' = "Transferring"
        /\ Answer(Superseded, 0, "Failed")
        /\ UNCHANGED <<folder, sending, begunAnew, streamed, ends>>
    BY DEF AcceptOffered
  <1>2. 0 \in 0 .. Total /\ "Transferring" \in States
    BY TheTypes, TheStarts DEF States
  <1>3. /\ receivedSize' = 0 /\ receivedSize' \in 0 .. NotPending
        /\ answers' \subseteq AnswersUpTo(Total)
    BY <1>1, <1>2, SupersededGives, AnswerGives
  <1>4. StreamOK' /\ OfferIsUntouched'
    BY <1>1, StreamStays DEF OfferIsUntouched
  <1>5. CASE UNCHANGED <<target, foreign, overwritten>>
    <2>1. Holds(0)
      BY <1>1, TheTypes, NothingIsHeld DEF OfferIsUntouched
    <2>2. ~overwritten /\ ~begunAnew => foreign = 0
      BY TheTypes DEF BeginningHeld
    <2>3. ~overwritten /\ ~begunAnew => Measured = 0
      BY <1>2, <2>1, <2>2, TheTypes, HeldIsMeasured
    <2>4. BeginningHeld'
      BY <1>1, <1>3, <1>5, <2>3, CountKeeps
    <2>5. target' \in [Entries -> Seq({"new", "old"}) \union {Absent}]
      BY <1>5, TheTypes DEF TargetOK
    <2>. QED BY <1>1, <1>2, <1>3, <1>4, <1>5, <2>4, <2>5, TheTypes, StepKeeps
  <1>6. CASE /\ overwritten' = TRUE /\ foreign' \in {0, 1}
             /\ target' \in {t \in [Entries -> UNION {OldContent(i) : i \in Entries}] :
                               \A i \in Entries : t[i] \in OldContent(i)}
    <2>1. target' \in [Entries -> Seq({"new", "old"}) \union {Absent}]
      <3>1. ASSUME NEW i \in Entries
            PROVE  OldContent(i) \subseteq Seq({"new", "old"}) \union {Absent}
        <4>1. [k \in 1 .. MaxFileSize |-> "old"] \in Seq({"new", "old"})
          BY FolderAssumption
        <4>2. <<>> \in Seq({"new", "old"})
          OBVIOUS
        <4>. QED BY <4>1, <4>2 DEF OldContent
      <3>2. PICK t : t = target'
        OBVIOUS
      <3>3. t \in [Entries -> UNION {OldContent(i) : i \in Entries}]
            /\ \A i \in Entries : t[i] \in OldContent(i)
        BY <1>6, <3>2
      <3>. QED BY <3>1, <3>2, <3>3
    <2>2. BeginningHeld'
      BY <1>6 DEF BeginningHeld
    <2>3. foreign' \in 0 .. 1 /\ overwritten' \in BOOLEAN /\ begunAnew' \in BOOLEAN
      BY <1>1, <1>6, TheTypes
    <2>. QED BY <1>1, <1>2, <1>3, <1>4, <2>1, <2>2, <2>3, TheTypes, StepKeeps
  <1>. QED BY <1>5, <1>6 DEF AcceptOffered

LEMMA AcceptInterruptedKeeps ==
  ASSUME FoldInv, AcceptInterrupted
  PROVE  FoldInv'
PROOF
  <1>1. /\ state = "Interrupted" /\ state' = "Transferring"
        /\ Answer(Superseded, Measured, "Interrupted")
        /\ UNCHANGED <<folder, target, foreign, sending, overwritten, begunAnew, streamed, ends>>
    BY DEF AcceptInterrupted
  <1>2. "Transferring" \in States /\ Measured \in 0 .. Total
    BY TheTypes, MeasuredIsInRange DEF States
  <1>3. /\ receivedSize' = Measured /\ receivedSize' \in 0 .. NotPending
        /\ answers' \subseteq AnswersUpTo(Total)
    BY <1>1, <1>2, SupersededGives, AnswerGives
  <1>4. StreamOK' /\ OfferIsUntouched'
    BY <1>1, StreamStays DEF OfferIsUntouched
  <1>5. BeginningHeld'
    BY <1>1, <1>3, CountKeeps
  <1>6. target' \in [Entries -> Seq({"new", "old"}) \union {Absent}]
    BY <1>1, TheTypes DEF TargetOK
  <1>. QED BY <1>1, <1>2, <1>3, <1>4, <1>5, <1>6, TheTypes, StepKeeps

LEMMA ResumeRequestKeeps ==
  ASSUME FoldInv, ResumeRequest
  PROVE  FoldInv'
PROOF
  <1>1. /\ state \in {"Interrupted", "Failed"} /\ Update("Transferring")
        /\ UNCHANGED <<folder, sending, begunAnew, streamed, ends>>
    BY DEF ResumeRequest
  <1>2. "Transferring" \in States /\ Measured \in 0 .. Total /\ 0 \in 0 .. Total
    BY TheTypes, MeasuredIsInRange, TheStarts DEF States
  <1>3. state' \in States /\ state' # "Completed" /\ state' # "Offered"
    BY <1>1, <1>2, UpdateGives
  <1>4. StreamOK' /\ OfferIsUntouched'
    BY <1>1, <1>3, StreamStays DEF OfferIsUntouched
  <1>5. CASE Answer(answers, Measured, "none") /\ UNCHANGED <<target, foreign, overwritten>>
    <2>1. /\ receivedSize' = Measured /\ receivedSize' \in 0 .. NotPending
          /\ answers' \subseteq AnswersUpTo(Total)
      BY <1>2, <1>5, TheTypes, AnswerGives
    <2>2. BeginningHeld'
      BY <1>1, <1>3, <1>5, <2>1, CountKeeps
    <2>3. target' \in [Entries -> Seq({"new", "old"}) \union {Absent}]
      BY <1>5, TheTypes DEF TargetOK
    <2>. QED BY <1>1, <1>3, <1>4, <1>5, <2>1, <2>2, <2>3, TheTypes, StepKeeps
  <1>6. CASE /\ Answer(answers, 0, "none") /\ target' = [i \in Entries |-> Absent]
             /\ foreign' = 0 /\ overwritten' = FALSE
    <2>1. /\ receivedSize' = 0 /\ receivedSize' \in 0 .. NotPending
          /\ answers' \subseteq AnswersUpTo(Total)
      BY <1>2, <1>6, TheTypes, AnswerGives
    <2>2. /\ BeginningHeld'
          /\ target' \in [Entries -> Seq({"new", "old"}) \union {Absent}]
      <3>1. folder' = folder /\ target' = [i \in Entries |-> Absent] /\ foreign' = 0
            /\ receivedSize' = 0 /\ state' # "Completed"
        BY <1>1, <1>3, <1>6, <2>1
      <3>. QED BY <3>1, FreshKeeps
    <2>3. foreign' \in 0 .. 1
      BY <1>6
    <2>4. overwritten' \in BOOLEAN
      BY <1>6
    <2>5. begunAnew' \in BOOLEAN
      BY <1>1, TheTypes
    <2>. QED BY <1>1, <1>3, <1>4, <2>1, <2>2, <2>3, <2>4, <2>5, TheTypes, StepKeeps
  <1>. QED BY <1>5, <1>6 DEF ResumeRequest

LEMMA LoseAnswerKeeps ==
  ASSUME FoldInv, NEW a, LoseAnswer(a)
  PROVE  FoldInv'
PROOF
  <1>1. /\ a \in answers /\ answers' = answers \ {a} /\ ends < MaxEnds /\ ends' = ends + 1
        /\ state' = state \/ Update("Interrupted") \/ Update("Failed")
        /\ UNCHANGED <<folder, target, foreign, receivedSize, sending, overwritten, begunAnew, streamed>>
    BY TheTypes DEF LoseAnswer, AnswersUpTo
  <1>2. state' \in States /\ state' \in {state, "Interrupted", "Failed"}
    <2>1. "Interrupted" \in States /\ "Failed" \in States
      BY DEF States
    <2>. QED BY <1>1, <2>1, TheTypes, UpdateGives
  <1>3. answers' \subseteq AnswersUpTo(Total)
    BY <1>1, LessAnswers
  <1>4. state # "Offered"
    BY <1>1, TheTypes DEF OfferIsUntouched
  <1>5. StreamOK' /\ OfferIsUntouched'
    BY <1>1, <1>2, <1>4, StreamStays DEF OfferIsUntouched
  <1>6. BeginningHeld'
    BY <1>1, <1>2, CountKeeps
  <1>7. target' \in [Entries -> Seq({"new", "old"}) \union {Absent}] /\ ends' \in 0 .. MaxEnds
    BY <1>1, TheTypes DEF TargetOK
  <1>. QED BY <1>1, <1>2, <1>3, <1>5, <1>6, <1>7, TheTypes, StepKeeps

LEMMA CutKeeps ==
  ASSUME FoldInv, Cut
  PROVE  FoldInv'
PROOF
  <1>1. /\ ends < MaxEnds /\ ends' = ends + 1 /\ Interrupt
        /\ sending' \in {sending, NoStream} /\ answers' \in {answers, Superseded}
        /\ UNCHANGED <<folder, target, foreign, overwritten, begunAnew, streamed>>
    BY DEF Cut
  <1>2. /\ state' \in States /\ receivedSize' \in {receivedSize, NotPending}
        /\ receivedSize' \in 0 .. NotPending
        /\ state' \in {"Completed", "Offered"} => state' = state
    BY <1>1, InterruptGives
  <1>3. StreamOK'
    <2>1. CASE sending' = sending
      BY <1>1, <2>1, StreamStays
    <2>2. CASE sending' = NoStream
      <3>1. NoStream.entry = 0 /\ Len(folder) \in Nat /\ 0 \notin Entries
            /\ Entries' = Entries
        BY <1>1, TheTypes, TheFolder, FolderStays DEF NoStream
      <3>2. NoStream \in [entry : 0 .. Len(folder) + 1, offset : Nat, fileOffset : Nat,
                          offered : BOOLEAN]
        BY <3>1 DEF NoStream
      <3>. QED BY <1>1, <2>2, <3>1, <3>2 DEF StreamOK
    <2>. QED BY <1>1, <2>1, <2>2
  <1>4. OfferIsUntouched'
    BY <1>1, <1>2, TheTypes, FolderStays DEF OfferIsUntouched, Superseded
  <1>5. BeginningHeld'
    BY <1>1, <1>2, CountKeeps
  <1>6. target' \in [Entries -> Seq({"new", "old"}) \union {Absent}] /\ ends' \in 0 .. MaxEnds
    BY <1>1, TheTypes DEF TargetOK
  <1>7. answers' \subseteq AnswersUpTo(Total)
    BY <1>1, TheTypes, SupersededGives
  <1>. QED BY <1>1, <1>2, <1>3, <1>4, <1>5, <1>6, <1>7, TheTypes, StepKeeps

-----------------------------------------------------------------------------
(* The steps of the sender, each with what the receiver makes of it.          *)

\* An entry is skipped when it ends at or before the offset.
LEMMA FirstEntryGives ==
  ASSUME folder \in Folders, NEW k \in 0 .. Total, NEW first, first = FirstEntry(k)
  PROVE  /\ first \in 1 .. Len(folder) + 1
         /\ first \in Entries => /\ k - StartOf(first) \in Nat
                                 /\ k = 0 \/ k - StartOf(first) < folder[first].size
PROOF
  <1>1. PICK top : top = Len(folder)
    OBVIOUS
  <1>2. /\ top \in Nat /\ top >= 1 /\ Entries = 1 .. top /\ k \in Nat
        /\ \A i \in 1 .. top : folder[i].size \in Nat
    BY <1>1, TheFolder, TheStarts
  <1>3. /\ StartOf(1) = 0 /\ \A i \in 1 .. top + 1 : StartOf(i) \in Nat
        /\ \A i \in 1 .. top : StartOf(i + 1) = StartOf(i) + folder[i].size
    BY <1>1, <1>2, TheStarts
  <1>4. CASE k = 0
    <2>1. first = 1
      BY <1>4 DEF FirstEntry
    <2>. QED BY <1>1, <1>2, <1>3, <1>4, <2>1
  <1>5. CASE k # 0
    <2>1. PICK T : T = {i \in Entries : StartOf(i) + folder[i].size > k} \union {top + 1}
      OBVIOUS
    <2>2. first = Min(T)
      BY <1>1, <1>5, <2>1 DEF FirstEntry
    <2>3. T \subseteq 1 .. top + 1 /\ T # {} /\ T \subseteq Nat
      BY <1>2, <2>1
    <2>4. \E n \in T : \A i \in T : n <= i
      BY <2>3, LeastNumber
    <2>5. first \in T /\ \A i \in T : first <= i
      BY <2>2, <2>4 DEF Min
    <2>6. first \in 1 .. top + 1
      BY <2>3, <2>5
    <2>7. ASSUME first \in Entries
          PROVE  k - StartOf(first) \in Nat /\ k - StartOf(first) < folder[first].size
      <3>1. first # top + 1 /\ StartOf(first) \in Nat
        BY <1>2, <1>3, <2>6, <2>7
      <3>2. StartOf(first) + folder[first].size > k
        BY <2>1, <2>5, <3>1
      <3>3. StartOf(first) <= k
        <4>1. CASE first = 1
          BY <1>2, <1>3, <4>1
        <4>2. CASE first # 1
          <5>1. PICK i : i = first - 1
            OBVIOUS
          <5>2. i \in 1 .. top /\ i + 1 = first /\ ~(first <= i)
            BY <1>2, <2>6, <3>1, <4>2, <5>1
          <5>3. i \notin T
            BY <2>5, <5>2
          <5>4. ~(StartOf(i) + folder[i].size > k)
            BY <1>2, <2>1, <5>2, <5>3
          <5>. QED BY <1>2, <1>3, <5>2, <5>4
        <4>. QED BY <4>1, <4>2
      <3>. QED BY <1>2, <2>7, <3>1, <3>2, <3>3
    <2>. QED BY <1>1, <2>6, <2>7
  <1>. QED BY <1>4, <1>5

LEMMA StartStreamKeeps ==
  ASSUME FoldInv, NEW a, StartStream(a)
  PROVE  FoldInv'
PROOF
  <1>0. PICK k : k = a.offset
    OBVIOUS
  <1>1. PICK first : first = FirstEntry(k)
    OBVIOUS
  <1>2. /\ a \in answers /\ answers' = answers \ {a}
        /\ sending' = [entry |-> first, offset |-> k, offered |-> FALSE,
                       fileOffset |-> IF first \in Entries THEN k - StartOf(first) ELSE 0]
        /\ UNCHANGED <<receivedSize, state>> \/ Interrupt
        /\ streamed' = TRUE /\ UNCHANGED <<folder, target, foreign, overwritten, begunAnew, ends>>
    BY <1>0, <1>1 DEF StartStream
  <1>3. k \in 0 .. Total /\ Total \in Nat
    BY <1>0, <1>2, TheTypes, TheStarts DEF AnswersUpTo
  <1>4. /\ state' \in States /\ receivedSize' \in {receivedSize, NotPending}
        /\ receivedSize' \in 0 .. NotPending
        /\ state' \in {"Completed", "Offered"} => state' = state
    BY <1>2, TheTypes, InterruptGives
  <1>5. answers' \subseteq AnswersUpTo(Total)
    BY <1>2, LessAnswers
  <1>6. StreamOK'
    <2>1. /\ first \in 1 .. Len(folder) + 1
          /\ first \in Entries => /\ k - StartOf(first) \in Nat
                                  /\ k = 0 \/ k - StartOf(first) < folder[first].size
      BY <1>1, <1>3, TheTypes, FirstEntryGives
    <2>2. PICK at : at = IF first \in Entries THEN k - StartOf(first) ELSE 0
      OBVIOUS
    <2>3. at \in Nat
      BY <2>1, <2>2
    <2>4. first \in Entries => /\ k = StartOf(first) + at
                               /\ at = 0 \/ at < folder[first].size
      <3>. SUFFICES ASSUME first \in Entries
                    PROVE  /\ k = StartOf(first) + at
                           /\ at = 0 \/ at < folder[first].size
        OBVIOUS
      <3>1. StartOf(first) \in Nat /\ at = k - StartOf(first) /\ k \in Nat
        BY <1>3, <2>1, <2>2, TheTypes, TheStarts
      <3>. QED BY <2>1, <2>3, <3>1
    <2>5. /\ sending' = [entry |-> first, offset |-> k, offered |-> FALSE, fileOffset |-> at]
          /\ first \in 0 .. Len(folder) + 1 /\ k \in Nat
      BY <1>2, <1>3, <2>1, <2>2
    <2>6. /\ sending' \in [entry : 0 .. Len(folder) + 1, offset : Nat, fileOffset : Nat,
                           offered : BOOLEAN]
          /\ sending'.entry = first /\ sending'.offset = k /\ sending'.fileOffset = at
      BY <2>3, <2>5
    <2>. QED BY <1>2, <2>4, <2>6, FolderStays DEF StreamOK
  <1>7. state # "Offered"
    BY <1>2, TheTypes DEF OfferIsUntouched
  <1>8. OfferIsUntouched'
    BY <1>4, <1>7 DEF OfferIsUntouched
  <1>9. BeginningHeld'
    BY <1>2, <1>4, CountKeeps
  <1>10. target' \in [Entries -> Seq({"new", "old"}) \union {Absent}] /\ ends' \in 0 .. MaxEnds
    BY <1>2, TheTypes DEF TargetOK
  <1>. QED BY <1>2, <1>4, <1>5, <1>6, <1>8, <1>9, <1>10, TheTypes, StepKeeps

\* A stream that runs and where it is.
LEMMA TheStream ==
  ASSUME FoldInv, sending # NoStream \/ sending.offered \/ sending.entry \in Entries
  PROVE  /\ sending \in [entry : 0 .. Len(folder) + 1, offset : Nat, fileOffset : Nat,
                         offered : BOOLEAN]
         /\ state # "Offered"
PROOF
  <1>1. sending \in [entry : 0 .. Len(folder) + 1, offset : Nat, fileOffset : Nat,
                     offered : BOOLEAN]
    BY TheTypes DEF StreamOK
  <1>2. sending # NoStream
    <2>1. ~NoStream.offered /\ NoStream.entry = 0
      BY DEF NoStream
    <2>2. 0 \notin Entries
      BY TheTypes, TheFolder
    <2>. QED BY <2>1, <2>2
  <1>. QED BY <1>1, <1>2, TheTypes DEF OfferIsUntouched

LEMMA SendOfferKeeps ==
  ASSUME FoldInv, SendOffer
  PROVE  FoldInv'
PROOF
  <1>1. /\ sending # NoStream /\ state # "Completed"
        /\ sending' = [sending EXCEPT !.offered = TRUE]
        /\ Update("Transferring") /\ UNCHANGED <<folder, answers, streamed, ends>>
    BY DEF SendOffer
  <1>2. "Transferring" \in States /\ Measured \in 0 .. Total /\ 0 \in 0 .. Total
    BY TheTypes, MeasuredIsInRange, TheStarts DEF States
  <1>3. state' \in States /\ state' # "Completed" /\ state' # "Offered"
    BY <1>1, <1>2, TheStream, UpdateGives
  <1>4. OfferIsUntouched'
    BY <1>3 DEF OfferIsUntouched
  <1>5. StreamOK'
    <2>1. /\ sending' \in [entry : 0 .. Len(folder) + 1, offset : Nat, fileOffset : Nat,
                           offered : BOOLEAN]
          /\ sending'.entry = sending.entry /\ sending'.offset = sending.offset
          /\ sending'.fileOffset = sending.fileOffset
      BY <1>1, TheStream
    <2>. QED BY <1>1, <2>1, TheTypes, FolderStays DEF StreamOK
  <1>6. CASE /\ receivedSize' = IF receivedSize # NotPending THEN Measured ELSE 0
             /\ begunAnew' = (begunAnew \/ (receivedSize = NotPending /\ Measured > 0))
             /\ UNCHANGED <<target, foreign, overwritten>>
    <2>1. receivedSize' \in 0 .. NotPending
      BY <1>2, <1>6, TheTypes, PendingOrNot
    <2>2. begunAnew' \in BOOLEAN /\ (~begunAnew' => ~begunAnew)
      BY <1>6, TheTypes
    <2>3. CASE receivedSize # NotPending
      <3>1. receivedSize' = Measured
        BY <1>6, <2>3
      <3>. QED BY <1>1, <1>6, <1>3, <1>4, <1>5, <2>1, <2>2, <3>1, TheTypes, CountKeeps, StepKeeps
               DEF TargetOK
    <2>4. CASE receivedSize = NotPending
      <3>1. receivedSize' = 0 /\ (~begunAnew' => ~(Measured > 0))
        BY <1>6, <2>4
      <3>2. ~begunAnew' => Measured = 0 /\ receivedSize' = 0
        BY <1>2, <3>1, TheTypes, PendingOrNot
      <3>3. BeginningHeld'
        BY <1>1, <1>3, <1>6, <2>2, <3>2, CountKeeps
      <3>. QED BY <1>1, <1>6, <1>3, <1>4, <1>5, <2>1, <2>2, <3>3, TheTypes, StepKeeps
               DEF TargetOK
    <2>. QED BY <2>3, <2>4
  <1>7. CASE /\ receivedSize' = 0 /\ target' = [i \in Entries |-> Absent]
             /\ foreign' = 0 /\ overwritten' = FALSE /\ UNCHANGED begunAnew
    <2>1. receivedSize' \in 0 .. NotPending
      BY <1>2, <1>7, TheTypes, PendingOrNot
    <2>2. /\ BeginningHeld'
          /\ target' \in [Entries -> Seq({"new", "old"}) \union {Absent}]
      <3>1. folder' = folder /\ target' = [i \in Entries |-> Absent] /\ foreign' = 0
            /\ receivedSize' = 0 /\ state' # "Completed"
        BY <1>1, <1>3, <1>7
      <3>. QED BY <3>1, FreshKeeps
    <2>3. foreign' \in 0 .. 1
      BY <1>7
    <2>4. overwritten' \in BOOLEAN
      BY <1>7
    <2>5. begunAnew' \in BOOLEAN
      BY <1>7, TheTypes
    <2>. QED BY <1>1, <1>3, <1>4, <1>5, <2>1, <2>2, <2>3, <2>4, <2>5, TheTypes, StepKeeps
  <1>. QED BY <1>6, <1>7 DEF SendOffer

LEMMA SendEmptyEntryKeeps ==
  ASSUME FoldInv, SendEmptyEntry
  PROVE  FoldInv'
PROOF
  <1>1. PICK i : i = sending.entry
    OBVIOUS
  <1>2. /\ i \in Entries /\ folder[i].size = 0
        /\ sending' = [sending EXCEPT !.entry = @ + 1]
        /\ UNCHANGED <<folder, foreign, answers, overwritten, begunAnew, streamed, ends>>
        /\ \/ Refuse
           \/ target' = [target EXCEPT ![i] = <<>>] /\ UNCHANGED <<receivedSize, state>>
    BY <1>1 DEF SendEmptyEntry
  <1>3. /\ i \in 1 .. Len(folder) /\ i + 1 \in 1 .. Len(folder) + 1
        /\ i + 1 \in 0 .. Len(folder) + 1 /\ i \in 1 .. Len(folder) + 1
        /\ StartOf(i + 1) = StartOf(i) + folder[i].size /\ StartOf(i) \in Nat
    <2>1. /\ i \in 1 .. Len(folder) /\ i + 1 \in 1 .. Len(folder) + 1
          /\ i + 1 \in 0 .. Len(folder) + 1 /\ i \in 1 .. Len(folder) + 1
      BY <1>2, TheTypes, TheFolder
    <2>. QED BY <1>2, <2>1, TheTypes, TheStarts
  <1>4. StreamOK'
    <2>1. /\ sending' \in [entry : 0 .. Len(folder) + 1, offset : Nat, fileOffset : Nat,
                           offered : BOOLEAN]
          /\ sending'.entry = i + 1 /\ sending'.offset = sending.offset
          /\ sending'.fileOffset = sending.fileOffset
      BY <1>1, <1>2, <1>3, TheStream
    <2>2. sending.offset = StartOf(i) + sending.fileOffset /\ sending.fileOffset = 0
      <3>1. /\ sending.offset = StartOf(i) + sending.fileOffset
            /\ sending.fileOffset = 0 \/ sending.fileOffset < folder[i].size
            /\ sending.fileOffset \in Nat
        BY <1>1, <1>2, TheStream, TheTypes DEF StreamOK
      <3>. QED BY <1>2, <3>1
    <2>3. sending'.offset = StartOf(i + 1) + sending'.fileOffset /\ sending'.fileOffset = 0
      BY <1>2, <1>3, <2>1, <2>2
    <2>. QED BY <1>2, <2>1, <2>3, FolderStays DEF StreamOK
  <1>5. state # "Offered"
    BY <1>1, <1>2, TheStream
  <1>6. CASE Refuse
    <2>1. /\ state' \in States /\ receivedSize' = NotPending /\ target' = target
          /\ receivedSize' \in 0 .. NotPending
          /\ state' \in {"Completed", "Offered"} => state' = state
      BY <1>6, RefuseGives
    <2>2. OfferIsUntouched'
      BY <1>5, <2>1 DEF OfferIsUntouched
    <2>3. BeginningHeld'
      BY <1>2, <2>1, CountKeeps
    <2>. QED BY <1>2, <1>4, <2>1, <2>2, <2>3, TheTypes, StepKeeps DEF TargetOK
  <1>7. CASE target' = [target EXCEPT ![i] = <<>>] /\ UNCHANGED <<receivedSize, state>>
    <2>1. <<>> \in Seq({"new", "old"}) /\ <<>> # Absent
      BY DEF Absent
    <2>2. target' \in [Entries -> Seq({"new", "old"}) \union {Absent}]
      BY <1>2, <1>7, <2>1, TheTypes DEF TargetOK
    <2>3. OfferIsUntouched'
      BY <1>5, <1>7 DEF OfferIsUntouched
    <2>4. ASSUME NEW c \in 0 .. Total, Holds(c)
          PROVE  Holds(c)'
      <3>1. ASSUME NEW j \in Entries
            PROVE  SizeAt(j)' = SizeAt(j)
        <4>1. CASE j = i
          <5>1. SizeAt(i) = 0
            <6>1. SizeAt(i) = Among(c, i) /\ folder[i].size = 0 /\ StartOf(i) \in Nat
              BY <1>2, <1>3, <2>4 DEF Holds
            <6>2. c \in Nat
              BY TheTypes, TheStarts
            <6>. QED BY <6>1, <6>2 DEF Among
          <5>2. target'[i] = <<>>
            BY <1>2, <1>7, TheTypes DEF TargetOK
          <5>3. SizeAt(i)' = 0
            BY <2>1, <5>2 DEF SizeAt
          <5>. QED BY <4>1, <5>1, <5>3
        <4>2. CASE j # i
          <5>1. target'[j] = target[j]
            BY <1>2, <1>7, <4>2, TheTypes DEF TargetOK
          <5>. QED BY <5>1 DEF SizeAt
        <4>. QED BY <4>1, <4>2
      <3>. QED BY <1>2, <2>4, <3>1, FolderStays DEF Holds, Among
    <2>5. BeginningHeld'
      BY <1>2, <1>7, <2>4, TheTypes, FolderStays DEF BeginningHeld, NotPending
    <2>. QED BY <1>2, <1>4, <1>7, <2>2, <2>3, <2>5, TheTypes, StepKeeps
  <1>. QED BY <1>2, <1>6, <1>7

\* writeIncomingFolderTransferChunk
LEMMA WrittenIsContent ==
  ASSUME NEW content, content = Absent \/ content \in Seq({"new", "old"}),
         NEW at \in Nat, at > 0 => content # Absent
  PROVE  /\ Written(content, at) \in Seq({"new", "old"}) /\ Written(content, at) # Absent
         /\ Len(Written(content, at)) = IF at = 0 THEN 1 ELSE Len(content) + 1
PROOF
  <1>1. PICK w : w = Written(content, at)
    OBVIOUS
  <1>2. CASE at = 0
    <2>1. w = <<"new">>
      BY <1>1, <1>2 DEF Written
    <2>2. w \in Seq({"new", "old"}) /\ Len(w) = 1 /\ w # Absent
      BY <2>1 DEF Absent
    <2>. QED BY <1>1, <1>2, <2>2
  <1>3. CASE at # 0
    <2>1. content \in Seq({"new", "old"}) /\ w = Append(content, "new")
      BY <1>1, <1>3 DEF Written
    <2>2. w \in Seq({"new", "old"}) /\ Len(w) = Len(content) + 1 /\ 1 \in 1 .. Len(w)
      BY <2>1
    <2>3. w # Absent
      <3>1. w[1] \in {"new", "old"}
        BY <2>2, ElementOfSeq
      <3>2. Absent[1] = "absent"
        BY DEF Absent
      <3>. QED BY <3>1, <3>2
    <2>. QED BY <1>1, <1>3, <2>2, <2>3
  <1>. QED BY <1>2, <1>3

\* The chunk that follows what is held makes it one longer.
LEMMA OneMoreIsHeld ==
  ASSUME folder \in Folders, TargetOK, NEW c \in 0 .. Total, Holds(c),
         NEW i \in Entries, NEW at \in Nat, at < folder[i].size, c = StartOf(i) + at,
         folder' = folder, target' = [target EXCEPT ![i] = Written(@, at)],
         at > 0 => target[i] # Absent
  PROVE  /\ Holds(c + 1)' /\ c + 1 \in 0 .. Total
         /\ target' \in [Entries -> Seq({"new", "old"}) \union {Absent}]
PROOF
  <1>1. PICK top : top = Len(folder)
    OBVIOUS
  <1>2. /\ top \in Nat /\ Entries = 1 .. top /\ i \in 1 .. top /\ Total \in Nat
        /\ \A j \in 1 .. top : folder[j].size \in Nat
        /\ \A j \in 1 .. top + 1 : StartOf(j) \in Nat /\ StartOf(j) <= Total
        /\ \A j \in 1 .. top : StartOf(j + 1) = StartOf(j) + folder[j].size
        /\ \A j, k \in 1 .. top + 1 : j <= k => StartOf(j) <= StartOf(k)
    <2>1. /\ top \in Nat /\ Entries = 1 .. top /\ i \in 1 .. top
          /\ \A j \in 1 .. top : folder[j].size \in Nat
      BY <1>1, TheFolder
    <2>2. /\ Total \in Nat
          /\ \A j \in 1 .. top : StartOf(j + 1) = StartOf(j) + folder[j].size
          /\ \A j, k \in 1 .. top + 1 : j <= k => StartOf(j) <= StartOf(k)
          /\ \A j \in 1 .. top + 1 : StartOf(j) \in 0 .. Total
      BY <1>1, <2>1, TheStarts, Zenon
    <2>3. \A j \in 1 .. top + 1 : StartOf(j) \in Nat /\ StartOf(j) <= Total
      BY <2>2
    <2>. QED BY <2>1, <2>2, <2>3
  <1>3. SizeAt(i) = at
    <2>1. SizeAt(i) = Among(c, i)
      BY DEF Holds
    <2>2. i \in 1 .. top + 1 /\ StartOf(i) \in Nat /\ folder[i].size \in Nat
      BY <1>2
    <2>. QED BY <2>1, <2>2 DEF Among
  <1>4. target[i] = Absent \/ target[i] \in Seq({"new", "old"})
    BY DEF TargetOK
  <1>5. PICK w : w = Written(target[i], at)
    OBVIOUS
  <1>6. w \in Seq({"new", "old"}) /\ w # Absent /\ Len(w) = at + 1
    <2>1. at > 0 => Len(target[i]) = at
      BY <1>3 DEF SizeAt
    <2>2. /\ w \in Seq({"new", "old"}) /\ w # Absent
          /\ Len(w) = IF at = 0 THEN 1 ELSE Len(target[i]) + 1
      BY <1>4, <1>5, WrittenIsContent
    <2>. QED BY <2>1, <2>2
  <1>7. target' = [target EXCEPT ![i] = w]
    BY <1>5
  <1>8. /\ target' \in [Entries -> Seq({"new", "old"}) \union {Absent}]
        /\ target'[i] = w /\ \A j \in Entries : j # i => target'[j] = target[j]
    BY <1>6, <1>7 DEF TargetOK
  <1>9. ASSUME NEW j \in Entries
        PROVE  SizeAt(j)' = Among(c + 1, j)
    <2>1. j \in 1 .. top /\ j \in 1 .. top + 1 /\ j + 1 \in 1 .. top + 1
          /\ i \in 1 .. top + 1 /\ i + 1 \in 1 .. top + 1
      BY <1>2
    <2>2. /\ StartOf(j) \in Nat /\ StartOf(i) \in Nat /\ folder[j].size \in Nat
          /\ folder[i].size \in Nat
          /\ StartOf(j + 1) = StartOf(j) + folder[j].size
          /\ StartOf(i + 1) = StartOf(i) + folder[i].size
          /\ j < i => StartOf(j + 1) <= StartOf(i)
          /\ i < j => StartOf(i + 1) <= StartOf(j)
      BY <1>2, <2>1
    <2>3. CASE j = i
      <3>1. SizeAt(i)' = at + 1
        BY <1>6, <1>8 DEF SizeAt
      <3>2. Among(c + 1, i) = at + 1
        BY <2>2 DEF Among
      <3>. QED BY <2>3, <3>1, <3>2
    <2>4. CASE j # i
      <3>1. SizeAt(j)' = SizeAt(j)
        BY <1>8, <2>4 DEF SizeAt
      <3>2. SizeAt(j) = Among(c, j)
        BY DEF Holds
      <3>3. Among(c, j) = Among(c + 1, j)
        <4>1. j < i \/ i < j
          BY <1>2, <2>1, <2>4
        <4>2. CASE j < i
          BY <2>2, <4>2 DEF Among
        <4>3. CASE i < j
          BY <2>2, <4>3 DEF Among
        <4>. QED BY <4>1, <4>2, <4>3
      <3>. QED BY <3>1, <3>2, <3>3
    <2>. QED BY <2>3, <2>4
  <1>10. Holds(c + 1)'
    BY <1>9, FolderStays DEF Holds, Among
  <1>11. c + 1 \in 0 .. Total
    <2>1. i + 1 \in 1 .. top + 1 /\ i \in 1 .. top + 1
      BY <1>2
    <2>2. StartOf(i) + folder[i].size <= Total /\ StartOf(i) \in Nat /\ folder[i].size \in Nat
      BY <1>2, <2>1
    <2>3. Total \in Nat
      BY <1>2
    <2>. QED BY <2>2, <2>3
  <1>. QED BY <1>8, <1>10, <1>11

LEMMA SendFileChunkKeeps ==
  ASSUME FoldInv, SendFileChunk
  PROVE  FoldInv'
PROOF
  <1>1. PICK i, at, last : /\ i = sending.entry /\ at = sending.fileOffset
                           /\ last = (at + 1 = folder[i].size)
    OBVIOUS
  <1>2. /\ i \in Entries /\ folder[i].size > 0
        /\ sending' = [sending EXCEPT !.offset = @ + 1,
                         !.entry = IF last THEN @ + 1 ELSE @,
                         !.fileOffset = IF last THEN 0 ELSE @ + 1]
        /\ UNCHANGED <<folder, foreign, answers, overwritten, begunAnew, streamed, ends>>
        /\ \/ Refuse
           \/ /\ receivedSize = sending.offset
              /\ ~(at > 0 /\ (target[i] = Absent \/ SizeAt(i) # at))
              /\ target' = [target EXCEPT ![i] = Written(@, at)]
              /\ receivedSize' = receivedSize + 1
              /\ UNCHANGED state
    BY <1>1 DEF SendFileChunk
  <1>3. /\ i \in 1 .. Len(folder) /\ i + 1 \in 1 .. Len(folder) + 1
        /\ i + 1 \in 0 .. Len(folder) + 1 /\ i \in 1 .. Len(folder) + 1
        /\ i \in 0 .. Len(folder) + 1
    BY <1>2, TheTypes, TheFolder
  <1>4. /\ StartOf(i + 1) = StartOf(i) + folder[i].size /\ StartOf(i) \in Nat
        /\ StartOf(i + 1) <= Total /\ Total \in Nat /\ folder[i].size \in Nat
    <2>1. folder[i].size \in Nat
      BY <1>2, TheTypes, TheFolder
    <2>2. /\ StartOf(i + 1) = StartOf(i) + folder[i].size
          /\ StartOf(i) \in 0 .. Total /\ StartOf(i + 1) \in 0 .. Total /\ Total \in Nat
      BY <1>2, <1>3, TheTypes, TheStarts
    <2>. QED BY <2>1, <2>2
  <1>5. /\ sending.offset = StartOf(i) + at /\ at \in Nat /\ at < folder[i].size
        /\ sending.offset \in Nat
    <2>1. /\ sending.offset = StartOf(i) + at /\ at \in Nat /\ sending.offset \in Nat
          /\ at = 0 \/ at < folder[i].size
      BY <1>1, <1>2, TheStream, TheTypes DEF StreamOK
    <2>. QED BY <1>2, <1>4, <2>1
  <1>6. StreamOK'
    <2>. DEFINE Streams == [entry : 0 .. Len(folder) + 1, offset : Nat, fileOffset : Nat,
                            offered : BOOLEAN]
    <2>0. sending \in Streams /\ sending.entry = i /\ sending.fileOffset = at
      BY <1>1, <1>2, TheStream
    <2>. HIDE DEF Streams
    <2>9. ASSUME NEW e \in 0 .. Len(folder) + 1, NEW o \in Nat, NEW f \in Nat,
                 sending' = [sending EXCEPT !.offset = o, !.entry = e, !.fileOffset = f]
          PROVE  /\ sending' \in Streams
                 /\ sending'.entry = e /\ sending'.offset = o /\ sending'.fileOffset = f
      <3>. DEFINE top == Len(folder) + 1
      <3>1. sending \in [entry : 0 .. top, offset : Nat, fileOffset : Nat,
                         offered : BOOLEAN]
        BY <2>0 DEF Streams
      <3>2. e \in 0 .. top
        OBVIOUS
      <3>. HIDE DEF top
      <3>3. sending' \in [entry : 0 .. top, offset : Nat, fileOffset : Nat,
                         offered : BOOLEAN]
        BY <2>9, <3>1, <3>2
      <3>4. /\ sending'.entry = e /\ sending'.offset = o /\ sending'.fileOffset = f
        BY <2>9, <3>1
      <3>. QED BY <3>3, <3>4 DEF Streams, top
    <2>1. CASE last
      <3>1. at + 1 = folder[i].size
        BY <1>1, <2>1
      <3>2. /\ sending' \in Streams
            /\ sending'.entry = i + 1 /\ sending'.offset = sending.offset + 1
            /\ sending'.fileOffset = 0
        <4>1. sending' = [sending EXCEPT !.offset = sending.offset + 1, !.entry = i + 1,
                                         !.fileOffset = 0]
          BY <1>1, <1>2, <2>1
        <4>2. sending.offset + 1 \in Nat
          BY <1>5
        <4>. QED BY <1>3, <2>9, <4>1, <4>2
      <3>3. sending'.offset = StartOf(i + 1) + sending'.fileOffset
        BY <1>4, <1>5, <3>1, <3>2
      <3>. QED BY <1>2, <3>2, <3>3, FolderStays DEF StreamOK, Streams
    <2>2. CASE ~last
      <3>1. at + 1 < folder[i].size
        <4>1. at + 1 # folder[i].size
          BY <1>1, <2>2, Zenon
        <4>. QED BY <1>4, <1>5, <4>1
      <3>2. /\ sending' \in Streams
            /\ sending'.entry = i /\ sending'.offset = sending.offset + 1
            /\ sending'.fileOffset = at + 1
        <4>1. sending' = [sending EXCEPT !.offset = sending.offset + 1, !.entry = i,
                                         !.fileOffset = at + 1]
          BY <1>1, <1>2, <2>2
        <4>2. sending.offset + 1 \in Nat /\ at + 1 \in Nat
          BY <1>5
        <4>. QED BY <1>3, <2>9, <4>1, <4>2
      <3>3. sending'.offset = StartOf(i) + sending'.fileOffset
        BY <1>4, <1>5, <3>2
      <3>. QED BY <1>2, <3>1, <3>2, <3>3, FolderStays DEF StreamOK, Streams
    <2>. QED BY <2>1, <2>2
  <1>7. state # "Offered"
    BY <1>1, <1>2, TheStream
  <1>8. CASE Refuse
    <2>1. /\ state' \in States /\ receivedSize' = NotPending /\ target' = target
          /\ receivedSize' \in 0 .. NotPending
          /\ state' \in {"Completed", "Offered"} => state' = state
      BY <1>8, RefuseGives
    <2>2. OfferIsUntouched'
      BY <1>7, <2>1 DEF OfferIsUntouched
    <2>3. BeginningHeld'
      BY <1>2, <2>1, CountKeeps
    <2>. QED BY <1>2, <1>6, <2>1, <2>2, <2>3, TheTypes, StepKeeps DEF TargetOK
  <1>9. CASE /\ receivedSize = sending.offset
             /\ ~(at > 0 /\ (target[i] = Absent \/ SizeAt(i) # at))
             /\ target' = [target EXCEPT ![i] = Written(@, at)]
             /\ receivedSize' = receivedSize + 1
             /\ UNCHANGED state
    <2>1. target' \in [Entries -> Seq({"new", "old"}) \union {Absent}]
      <3>1. target[i] = Absent \/ target[i] \in Seq({"new", "old"})
        BY <1>2, TheTypes DEF TargetOK
      <3>2. Written(target[i], at) \in Seq({"new", "old"})
        BY <1>5, <1>9, <3>1, WrittenIsContent
      <3>. QED BY <1>2, <1>9, <3>2, TheTypes DEF TargetOK
    <2>2. /\ receivedSize < Total /\ receivedSize \in Nat /\ receivedSize # NotPending
          /\ receivedSize = StartOf(i) + at
      BY <1>4, <1>5, <1>9, TheTypes, PendingOrNot
    <2>3. receivedSize' \in 0 .. NotPending
      BY <1>9, <2>2, TheTypes, PendingOrNot
    <2>4. OfferIsUntouched'
      BY <1>7, <1>9 DEF OfferIsUntouched
    <2>5. BeginningHeld'
      <3>. SUFFICES ASSUME ~overwritten', ~begunAnew'
                    PROVE  /\ foreign' = 0
                           /\ \E c \in 0 .. Total' :
                                /\ Holds(c)'
                                /\ receivedSize' # NotPending => receivedSize' = c
                                /\ state' = "Completed" => c = Total'
        BY DEF BeginningHeld, NotPending
      <3>1. PICK c \in 0 .. Total :
              /\ foreign = 0 /\ Holds(c)
              /\ receivedSize # NotPending => receivedSize = c
              /\ state = "Completed" => c = Total
        BY <1>2, TheTypes DEF BeginningHeld
      <3>2. c = receivedSize
        BY <2>2, <3>1
      <3>3. Holds(c + 1)' /\ c + 1 \in 0 .. Total
        <4>1. /\ folder \in Folders /\ TargetOK /\ c \in 0 .. Total /\ Holds(c)
              /\ i \in Entries /\ at \in Nat /\ at < folder[i].size /\ c = StartOf(i) + at
              /\ folder' = folder /\ target' = [target EXCEPT ![i] = Written(@, at)]
              /\ at > 0 => target[i] # Absent
          BY <1>2, <1>5, <1>9, <2>2, <3>1, <3>2, TheTypes
        <4>. QED BY <4>1, OneMoreIsHeld
      <3>4. state' # "Completed"
        BY <1>9, <2>2, <3>1, <3>2
      <3>5. receivedSize' = c + 1 /\ foreign' = 0 /\ Total' = Total
        BY <1>2, <1>9, <3>1, <3>2, FolderStays
      <3>. QED BY <3>3, <3>4, <3>5
    <2>. QED BY <1>2, <1>6, <1>9, <2>1, <2>3, <2>4, <2>5, TheTypes, StepKeeps
  <1>. QED BY <1>2, <1>8, <1>9

LEMMA SendCompleteKeeps ==
  ASSUME FoldInv, SendComplete
  PROVE  FoldInv'
PROOF
  <1>1. /\ sending.offered /\ sending' = NoStream
        /\ UNCHANGED <<folder, foreign, answers, overwritten, begunAnew, streamed, ends>>
        /\ \/ Refuse
           \/ /\ receivedSize = Total /\ receivedSize' = NotPending
              /\ Update("Completed") /\ UNCHANGED target
    BY DEF SendComplete
  <1>2. StreamOK'
    <2>1. NoStream.entry = 0 /\ Len(folder) \in Nat /\ 0 \notin Entries
          /\ Entries' = Entries
      BY <1>1, TheTypes, TheFolder, FolderStays DEF NoStream
    <2>2. NoStream \in [entry : 0 .. Len(folder) + 1, offset : Nat, fileOffset : Nat,
                        offered : BOOLEAN]
      BY <2>1 DEF NoStream
    <2>. QED BY <1>1, <2>1, <2>2 DEF StreamOK
  <1>3. state # "Offered"
    BY <1>1, TheStream
  <1>4. CASE Refuse
    <2>1. /\ state' \in States /\ receivedSize' = NotPending /\ target' = target
          /\ receivedSize' \in 0 .. NotPending
          /\ state' \in {"Completed", "Offered"} => state' = state
      BY <1>4, RefuseGives
    <2>2. OfferIsUntouched'
      BY <1>3, <2>1 DEF OfferIsUntouched
    <2>3. BeginningHeld'
      BY <1>1, <2>1, CountKeeps
    <2>. QED BY <1>1, <1>2, <2>1, <2>2, <2>3, TheTypes, StepKeeps DEF TargetOK
  <1>5. CASE /\ receivedSize = Total /\ receivedSize' = NotPending
             /\ Update("Completed") /\ UNCHANGED target
    <2>1. "Completed" \in States /\ receivedSize' \in 0 .. NotPending
      BY <1>5, TheTypes, PendingOrNot DEF States
    <2>2. state' \in States /\ state' \in {state, "Completed"}
      BY <1>5, <2>1, UpdateGives
    <2>3. OfferIsUntouched'
      BY <1>3, <2>2 DEF OfferIsUntouched
    <2>4. BeginningHeld'
      BY <1>1, <1>5, CountKeeps
    <2>. QED BY <1>1, <1>2, <1>5, <2>1, <2>2, <2>3, <2>4, TheTypes, StepKeeps DEF TargetOK
  <1>. QED BY <1>1, <1>4, <1>5

-----------------------------------------------------------------------------
(* The theorem about folders.                                                *)

LEMMA FoldInvInit ==
  ASSUME FoldInit
  PROVE  FoldInv
PROOF
  <1>1. /\ folder \in Folders /\ target = [i \in Entries |-> Absent] /\ foreign = 0
        /\ receivedSize = NotPending /\ state = "Offered"
        /\ answers = {} /\ sending = NoStream
        /\ overwritten = FALSE /\ begunAnew = FALSE /\ streamed = FALSE
        /\ ends = 0
    BY DEF FoldInit
  <1>2. target \in [Entries -> Seq({"new", "old"}) \union {Absent}]
        /\ \A i \in Entries : target[i] = Absent
    BY <1>1
  <1>3. /\ NotPending \in 0 .. NotPending /\ 0 \in 0 .. Total /\ Len(folder) \in Nat
        /\ 0 \notin Entries
    BY <1>1, PendingOrNot, TheFolder
  <1>4. StreamOK
    <2>1. NoStream.entry = 0 /\ NoStream \in [entry : 0 .. Len(folder) + 1, offset : Nat,
                                              fileOffset : Nat, offered : BOOLEAN]
      BY <1>3 DEF NoStream
    <2>. QED BY <1>1, <1>3, <2>1 DEF StreamOK
  <1>5. BeginningHeld
    BY <1>1, <1>2, <1>3, NothingIsHeld DEF BeginningHeld
  <1>6. FoldTypeOK
    <2>1. answers \subseteq AnswersUpTo(MaxEntries * MaxFileSize)
      BY <1>1
    <2>2. ends \in 0 .. MaxEnds
      BY <1>1, FolderAssumption
    <2>3. sending.entry \in 0 .. Len(folder) + 1
      BY <1>4 DEF StreamOK
    <2>4. state \in States /\ foreign \in 0 .. 1
      BY <1>1 DEF States
    <2>5. {overwritten, begunAnew, streamed} \subseteq BOOLEAN
      BY <1>1
    <2>. QED BY <1>1, <1>2, <1>3, <2>1, <2>2, <2>3, <2>4, <2>5 DEF FoldTypeOK
  <1>7. OfferIsUntouched /\ answers \subseteq AnswersUpTo(Total)
    BY <1>1, <1>2 DEF OfferIsUntouched
  <1>. QED BY <1>4, <1>5, <1>6, <1>7 DEF FoldInv

LEMMA FoldInvStep ==
  ASSUME FoldInv, [FoldNext]_foldVars
  PROVE  FoldInv'
PROOF
  <1>1. CASE UNCHANGED foldVars
    <2>1. /\ UNCHANGED <<folder, target, foreign, receivedSize, state, answers, sending>>
          /\ UNCHANGED <<overwritten, begunAnew, streamed, ends>>
      BY <1>1 DEF foldVars
    <2>2. StreamOK'
      BY <2>1, StreamStays
    <2>3. BeginningHeld'
      BY <2>1, CountKeeps
    <2>4. OfferIsUntouched'
      BY <2>1, TheTypes, FolderStays DEF OfferIsUntouched
    <2>. QED BY <2>1, <2>2, <2>3, <2>4, TheTypes, StepKeeps DEF TargetOK
  <1>2. CASE FoldNext
    BY <1>2, AcceptOfferedKeeps, AcceptInterruptedKeeps, ResumeRequestKeeps,
       LoseAnswerKeeps, StartStreamKeeps, SendOfferKeeps, SendEmptyEntryKeeps,
       SendFileChunkKeeps, SendCompleteKeeps, CutKeeps DEF FoldNext
  <1>. QED BY <1>1, <1>2

LEMMA FoldInvHolds == FoldSpec => []FoldInv
PROOF
  <1>. QED BY FoldInvInit, FoldInvStep, PTL DEF FoldSpec

\* What both sides keep of a folder has its type.
THEOREM FolderTypesHold == FoldSpec => []FoldTypeOK
PROOF
  <1>1. FoldInv => FoldTypeOK
    BY DEF FoldInv
  <1>. QED BY <1>1, FoldInvHolds, PTL

\* A folder received into a path of its own and shown as completed has every file
\* that has bytes, whole: the sum that existingIncomingFolderPayloadSize measures
\* stands for a beginning of the folder through all cuts and resumed streams.
THEOREM CompletedFilesAreWholeAlways == FoldSpec => []CompletedFilesAreWhole
PROOF
  <1>1. FoldInv => CompletedFilesAreWhole
    <2>. SUFFICES ASSUME FoldInv, state = "Completed", ~overwritten, ~begunAnew,
                         NEW i \in Entries, folder[i].size > 0
                  PROVE  target[i] # Absent /\ SizeAt(i) = folder[i].size
      BY DEF CompletedFilesAreWhole
    <2>1. Holds(Total)
      BY TheTypes DEF BeginningHeld
    <2>2. SizeAt(i) = folder[i].size
      BY <2>1, TheTypes, EverythingIsWhole
    <2>3. target[i] # Absent
      BY <2>2 DEF SizeAt
    <2>. QED BY <2>2, <2>3
  <1>. QED BY <1>1, FoldInvHolds, PTL

-----------------------------------------------------------------------------
(* Messages and records.  A field type is one of a few, so that what is proved  *)
(* of each type holds for the fields of every kind.                           *)

\* The writer takes a value, the reader takes what it makes of it, and gives the
\* value back.
Keeps(F, v) ==
  /\ v \in DOMAIN F.write /\ F.write[v] \in DOMAIN F.read
  /\ F.read[F.write[v]] = v

KeptFields ==
  {Envelope, RequiredText, MessageText, OptionalText, Flag, Unsigned, UnsignedOrZero,
   OptionalUnsigned, RequiredPartSize, Version, OptionalVersion, Port, TextList,
   PartList, DirectoryName, Hash, HashOrCleared, HashOrUnknown, HashIfAny,
   DirectionNames, DeliveryNames, TransferNames, StrategyNames, Quote,
   NoBody, Content, AvatarContent}
IgnoredFields == {IgnoredText, IgnoredNumber}

\* All that is written of it can be read, all that is read be held in memory and
\* written, and so can its usual value.
Agrees(F) ==
  /\ F.usual \in DOMAIN F.write /\ F.usual \in F.holds
  /\ \A v \in DOMAIN F.read : F.read[v] \in F.holds
  /\ \A v \in DOMAIN F.write : Keeps(F, v)
  /\ \A v \in DOMAIN F.read : Keeps(F, F.read[v])

LEMMA PlainAgrees ==
  ASSUME NEW holds, NEW taken \in SUBSET holds, NEW usual \in taken
  PROVE  Agrees(Plain(usual, holds, taken))
PROOF
  BY DEF Agrees, Keeps, Plain, Field, AsIs

\* A value more that the reader takes for one of the others.
LEMMA MoreAgrees ==
  ASSUME NEW holds, NEW taken \in SUBSET holds, NEW usual \in taken,
         NEW more, more \notin taken, NEW other \in taken
  PROVE  Agrees(Field(usual, holds, AsIs(taken), AsIsAnd(taken, more, other)))
PROOF
  BY DEF Agrees, Keeps, Field, AsIs, AsIsAnd

LEMMA KeptFieldsAgree ==
  \A F \in KeptFields : Agrees(F)
PROOF
  <1>1. /\ Agrees(Envelope) /\ Agrees(RequiredText) /\ Agrees(MessageText)
        /\ Agrees(Unsigned) /\ Agrees(OptionalUnsigned) /\ Agrees(RequiredPartSize)
    BY PlainAgrees DEF Envelope, RequiredText, MessageText, Unsigned, OptionalUnsigned,
                       RequiredPartSize
  <1>2. /\ Agrees(TextList) /\ Agrees(PartList) /\ Agrees(DirectoryName) /\ Agrees(Hash)
        /\ Agrees(HashOrCleared) /\ Agrees(HashOrUnknown)
    BY PlainAgrees DEF TextList, PartList, DirectoryName, Hash, HashOrCleared, HashOrUnknown
  <1>3. /\ Agrees(DirectionNames) /\ Agrees(DeliveryNames) /\ Agrees(TransferNames)
        /\ Agrees(Quote)
    BY PlainAgrees DEF DirectionNames, DeliveryNames, TransferNames, Quote
  <1>4. Agrees(NoBody) /\ Agrees(Content) /\ Agrees(AvatarContent)
    BY PlainAgrees DEF NoBody, Content, AvatarContent
  <1>5. /\ Agrees(OptionalText) /\ Agrees(Flag) /\ Agrees(UnsignedOrZero)
        /\ Agrees(Version) /\ Agrees(Port) /\ Agrees(StrategyNames)
    <2>1. Agrees(OptionalText)
      BY MoreAgrees DEF OptionalText
    <2>2. Agrees(Flag)
      BY MoreAgrees DEF Flag
    <2>3. Agrees(UnsignedOrZero)
      BY MoreAgrees DEF UnsignedOrZero
    <2>4. Agrees(Version)
      BY MoreAgrees DEF Version
    <2>5. Agrees(Port)
      BY MoreAgrees DEF Port
    <2>6. Agrees(StrategyNames)
      BY MoreAgrees DEF StrategyNames
    <2>. QED BY <2>1, <2>2, <2>3, <2>4, <2>5, <2>6
  <1>6. Agrees(OptionalVersion)
    BY DEF Agrees, Keeps, OptionalVersion, Field, AsIs
  <1>7. Agrees(HashIfAny)
    BY DEF Agrees, Keeps, HashIfAny, Field, AsIs, AsIsAnd
  <1>. QED BY <1>1, <1>2, <1>3, <1>4, <1>5, <1>6, <1>7 DEF KeptFields

\* A field that the part has no use for is written if it is set and read as missing.
LEMMA IgnoredIsMissing ==
  ASSUME NEW F \in IgnoredFields
  PROVE  /\ \A v \in DOMAIN F.write : F.write[v] \in DOMAIN F.read
         /\ \A v \in DOMAIN F.read : F.read[v] = "missing"
         /\ Keeps(F, "missing") /\ F.usual = "missing" /\ "missing" \in F.holds
PROOF
  <1>1. CASE F = IgnoredText
    BY <1>1 DEF IgnoredText, Keeps, Field, AsIs
  <1>2. CASE F = IgnoredNumber
    BY <1>2 DEF IgnoredNumber, Keeps, Field, AsIs
  <1>. QED BY <1>1, <1>2 DEF IgnoredFields

\* The writer of an update chunk refuses an empty package, its reader does not.
LEMMA SizesAreGivenBack ==
  /\ \A v \in DOMAIN PackageSize.write : Keeps(PackageSize, v)
  /\ PackageSize.usual \in PackageSize.holds
  /\ \A v \in DOMAIN PackageSize.read : PackageSize.read[v] \in PackageSize.holds
PROOF
  BY DEF PackageSize, Keeps, Field, AsIs

\* An entry's path and its offset are given back unless the path is empty.
LEMMA EntriesAreGivenBack ==
  /\ \A v \in DOMAIN FolderEntryFields.write :
       IF v = "empty path"
       THEN FolderEntryFields.write[v] \notin DOMAIN FolderEntryFields.read
       ELSE /\ FolderEntryFields.write[v] \in DOMAIN FolderEntryFields.read
            /\ FolderEntryFields.read[FolderEntryFields.write[v]] =
                 IF v = "no path" THEN "missing" ELSE v
  /\ FolderEntryFields.usual \in FolderEntryFields.holds
  /\ \A v \in DOMAIN FolderEntryFields.read :
       FolderEntryFields.read[v] \in FolderEntryFields.holds
PROOF
  BY DEF FolderEntryFields, Field, AsIs, AsIsAnd

-----------------------------------------------------------------------------
(* The fields of every kind.                                                *)

\* The fields are of the given types, but for the forgotten ones.
FieldsFit(fields, forgotten, types) ==
  \A f \in DOMAIN fields : fields[f] \in IF f \in forgotten THEN IgnoredFields ELSE types

LEMMA TogetherFit ==
  ASSUME NEW a, NEW b, NEW forgotten, NEW types,
         FieldsFit(a, forgotten, types), FieldsFit(b, forgotten, types)
  PROVE  FieldsFit(Together(a, b), forgotten, types)
PROOF
  BY DEF FieldsFit, Together

FrameTypes == KeptFields \union {PackageSize}

LEMMA FramedFit ==
  ASSUME NEW fields, NEW forgotten, NEW types, NEW body \in types, Envelope \in types,
         FieldsFit(fields, forgotten, types), forgotten \intersect {"envelope", "body"} = {}
  PROVE  FieldsFit(Framed(fields, body), forgotten, types)
PROOF
  <1>1. FieldsFit([envelope |-> Envelope, body |-> body], forgotten, types)
    BY DEF FieldsFit
  <1>. QED BY <1>1, TogetherFit DEF Framed

LEMMA TypesOfFrames ==
  /\ {Envelope, RequiredText, OptionalText, Flag, Unsigned, UnsignedOrZero, Version,
      Hash, HashOrCleared, StrategyNames} \subseteq FrameTypes
  /\ {NoBody, Content, AvatarContent, PackageSize} \subseteq FrameTypes
PROOF
  BY DEF FrameTypes, KeptFields

\* Every frame but a chunk.
LEMMA FramesFit ==
  ASSUME NEW t \in DOMAIN FrameFields, t # "transfer_chunk"
  PROVE  FieldsFit(FrameFields[t], {}, FrameTypes)
PROOF
  <1>. USE TypesOfFrames
  <1>1. FieldsFit(TransferIds, {}, FrameTypes)
    BY DEF FieldsFit, TransferIds
  <1>2. FieldsFit(TransferOffer, {}, FrameTypes)
    <2>1. FieldsFit([sender_device_id |-> RequiredText, file_name |-> RequiredText,
                     file_size |-> Unsigned, image_transfer |-> Flag,
                     folder_transfer |-> Flag, resume_request |-> Flag,
                     sha256 |-> OptionalText], {}, FrameTypes)
      BY DEF FieldsFit
    <2>. QED BY <1>1, <2>1, TogetherFit DEF TransferOffer
  <1>3. FieldsFit(TransferAccept, {}, FrameTypes)
    <2>1. FieldsFit([receiver_device_id |-> RequiredText, save_strategy |-> StrategyNames,
                     resume_offset |-> UnsignedOrZero], {}, FrameTypes)
      BY DEF FieldsFit
    <2>. QED BY <1>1, <2>1, TogetherFit DEF TransferAccept
  <1>4. FieldsFit(TransferReject, {}, FrameTypes)
    <2>1. FieldsFit([receiver_device_id |-> RequiredText, reason |-> RequiredText], {},
                    FrameTypes)
      BY DEF FieldsFit
    <2>. QED BY <1>1, <2>1, TogetherFit DEF TransferReject
  <1>5. FieldsFit(TransferCancel, {}, FrameTypes)
    <2>1. FieldsFit([canceller_device_id |-> RequiredText, reason |-> RequiredText], {},
                    FrameTypes)
      BY DEF FieldsFit
    <2>. QED BY <1>1, <2>1, TogetherFit DEF TransferCancel
  <1>7. FieldsFit(TransferComplete, {}, FrameTypes)
    <2>1. FieldsFit([file_size |-> Unsigned, sha256 |-> OptionalText], {}, FrameTypes)
      BY DEF FieldsFit
    <2>. QED BY <1>1, <2>1, TogetherFit DEF TransferComplete
  <1>8. /\ FieldsFit(UpdateRequest, {}, FrameTypes) /\ FieldsFit(UpdateChunk, {}, FrameTypes)
        /\ FieldsFit(UpdateComplete, {}, FrameTypes)
        /\ FieldsFit(AvatarRequest, {}, FrameTypes) /\ FieldsFit(Avatar, {}, FrameTypes)
    BY DEF FieldsFit, UpdateRequest, UpdateChunk, UpdateComplete, AvatarRequest, Avatar
  <1>9. \A body, fields :
          (body \in {NoBody, Content, AvatarContent} /\ FieldsFit(fields, {}, FrameTypes))
            => FieldsFit(Framed(fields, body), {}, FrameTypes)
    BY FramedFit
  <1>10. t \in {"transfer_offer", "transfer_accept", "transfer_reject", "transfer_cancel",
                "transfer_chunk", "transfer_complete", "app_update_request",
                "app_update_chunk", "app_update_complete", "avatar_request", "avatar"}
    BY DEF FrameFields
  <1>11. CASE t \in {"transfer_offer", "transfer_accept", "transfer_reject"}
    BY <1>2, <1>3, <1>4, <1>9, <1>11 DEF FrameFields
  <1>12. CASE t \in {"transfer_cancel", "transfer_complete"}
    BY <1>5, <1>7, <1>9, <1>12 DEF FrameFields
  <1>13. CASE t \in {"app_update_request", "app_update_chunk", "app_update_complete",
                     "avatar_request", "avatar"}
    BY <1>8, <1>9, <1>13 DEF FrameFields
  <1>. QED BY <1>10, <1>11, <1>12, <1>13

\* A chunk's fields are of the same types but for the entry of a folder.
LEMMA ChunksFit ==
  ASSUME NEW k, IsChunk(k)
  PROVE  /\ "folder" \in DOMAIN FieldsOf(k) /\ FieldsOf(k)["folder"] = FolderEntryFields
         /\ \A f \in DOMAIN FieldsOf(k) \ {"folder"} : FieldsOf(k)[f] \in FrameTypes
PROOF
  <1>1. FieldsOf(k) = Framed(TransferChunk, Content)
    BY DEF IsChunk, FieldsOf, FrameFields
  <1>2. /\ DOMAIN TransferChunk = {"message_id", "part_id", "transfer_id", "offset", "folder"}
        /\ TransferChunk["folder"] = FolderEntryFields
        /\ \A f \in DOMAIN TransferChunk \ {"folder"} : TransferChunk[f] \in FrameTypes
    BY TypesOfFrames DEF TransferChunk, TransferIds, Together
  <1>. QED BY <1>1, <1>2, TypesOfFrames DEF Framed, Together

LEMMA FilesFit ==
  ASSUME NEW t \in DOMAIN FileFields
  PROVE  FieldsFit(FileFields[t], {}, KeptFields)
PROOF
  <1>1. {Envelope, RequiredText, OptionalVersion, Port, TextList, DirectoryName,
         HashOrUnknown, HashIfAny} \subseteq KeptFields
    BY DEF KeptFields
  <1>2. FieldsFit(AnnouncementFields, {}, KeptFields)
    BY <1>1 DEF FieldsFit, AnnouncementFields
  <1>3. FieldsFit(ProfileFields, {}, KeptFields)
    BY <1>1 DEF FieldsFit, ProfileFields
  <1>4. FieldsFit(IdentityFields, {}, KeptFields)
    BY <1>1 DEF FieldsFit, IdentityFields
  <1>. QED BY <1>2, <1>3, <1>4 DEF FileFields

LEMMA PartsFit ==
  ASSUME NEW t \in DOMAIN PartFields
  PROVE  /\ FieldsFit(Together(RecordFields, PartFields[t]), Forgotten(<<"kept", t>>),
                      KeptFields)
         /\ Forgotten(<<"sent", t>>) = Forgotten(<<"kept", t>>)
         /\ Forgotten(<<"kept", t>>) \intersect
              (DOMAIN RecordFields \union {"body", "transfer_state"}) = {}
PROOF
  <1>. DEFINE fields == PartFields[t]
              forgotten == Forgotten(<<"kept", t>>)
  <1>1. {RequiredText, MessageText, OptionalText, OptionalUnsigned, RequiredPartSize,
         TransferNames, DirectionNames, DeliveryNames, Quote, PartList} \subseteq KeptFields
    BY DEF KeptFields
  <1>2. IgnoredText \in IgnoredFields /\ IgnoredNumber \in IgnoredFields
    BY DEF IgnoredFields
  <1>3. t \in {"text", "emoji", "image", "file", "folder"}
    BY DEF PartFields
  <1>4. Forgotten(<<"sent", t>>) = forgotten
    BY <1>3 DEF Forgotten
  <1>5. DOMAIN Textual = {"text", "emoji", "transfer_id", "file_name", "file_size",
                          "transferred_size", "sha256", "local_path", "manifest_path"}
    BY DEF Textual
  <1>6. forgotten \subseteq DOMAIN Textual
    BY <1>3, <1>5 DEF Forgotten
  <1>7. forgotten \intersect (DOMAIN RecordFields \union {"body", "transfer_state"}) = {}
    BY <1>5, <1>6 DEF RecordFields
  <1>8. FieldsFit(RecordFields, forgotten, KeptFields)
    BY <1>1, <1>7 DEF FieldsFit, RecordFields
  <1>9. FieldsFit(fields, forgotten, KeptFields)
    <2>0. \A f \in DOMAIN Textual : Textual[f] \in IgnoredFields
      BY <1>2 DEF Textual
    <2>1. CASE t = "text"
      <3>1. fields = [Textual EXCEPT !.text = MessageText] /\ forgotten = DOMAIN Textual \ {"text"}
        BY <2>1 DEF PartFields, Forgotten
      <3>2. /\ DOMAIN fields = DOMAIN Textual
            /\ \A f \in DOMAIN Textual :
                 fields[f] = IF f = "text" THEN MessageText ELSE Textual[f]
        BY <3>1
      <3>. HIDE DEF fields, forgotten
      <3>. QED BY <1>1, <2>0, <3>1, <3>2 DEF FieldsFit
    <2>2. CASE t = "emoji"
      <3>1. fields = [Textual EXCEPT !.emoji = RequiredText] /\ forgotten = DOMAIN Textual \ {"emoji"}
        BY <2>2 DEF PartFields, Forgotten
      <3>2. /\ DOMAIN fields = DOMAIN Textual
            /\ \A f \in DOMAIN Textual :
                 fields[f] = IF f = "emoji" THEN RequiredText ELSE Textual[f]
        BY <3>1
      <3>. HIDE DEF fields, forgotten
      <3>. QED BY <1>1, <2>0, <3>1, <3>2 DEF FieldsFit
    <2>3. /\ DOMAIN FileLike = DOMAIN Textual \union {"transfer_state"}
          /\ FileLike.text = IgnoredText /\ FileLike.emoji = IgnoredText
          /\ FileLike.transfer_id = RequiredText /\ FileLike.file_name = RequiredText
          /\ FileLike.local_path = RequiredText /\ FileLike.transfer_state = TransferNames
          /\ FileLike.file_size = IgnoredNumber /\ FileLike.transferred_size = IgnoredNumber
          /\ FileLike.sha256 = IgnoredText /\ FileLike.manifest_path = IgnoredText
      <3>1. PICK named : named = [Textual EXCEPT !.transfer_id = RequiredText,
                                    !.file_name = RequiredText, !.local_path = RequiredText]
        OBVIOUS
      <3>2. /\ DOMAIN named = DOMAIN Textual
            /\ named.text = IgnoredText /\ named.emoji = IgnoredText
            /\ named.transfer_id = RequiredText /\ named.file_name = RequiredText
            /\ named.local_path = RequiredText
            /\ named.file_size = IgnoredNumber /\ named.transferred_size = IgnoredNumber
            /\ named.sha256 = IgnoredText /\ named.manifest_path = IgnoredText
        BY <3>1 DEF Textual
      <3>3. FileLike = Together(named, [transfer_state |-> TransferNames])
        BY <3>1 DEF FileLike
      <3>. QED BY <1>5, <3>2, <3>3 DEF Together
    <2>4. CASE t \in {"image", "file"}
      <3>1. /\ fields = [FileLike EXCEPT !.file_size = RequiredPartSize,
                           !.transferred_size = OptionalUnsigned, !.sha256 = OptionalText]
            /\ forgotten = {"text", "emoji", "manifest_path"}
        BY <2>4 DEF PartFields, FilePart, Forgotten
      <3>2. /\ DOMAIN fields = DOMAIN Textual \union {"transfer_state"}
            /\ fields.text = IgnoredText /\ fields.emoji = IgnoredText
            /\ fields.transfer_id = RequiredText /\ fields.file_name = RequiredText
            /\ fields.file_size = RequiredPartSize /\ fields.transferred_size = OptionalUnsigned
            /\ fields.sha256 = OptionalText /\ fields.local_path = RequiredText
            /\ fields.manifest_path = IgnoredText /\ fields.transfer_state = TransferNames
        BY <1>5, <2>3, <3>1
      <3>. HIDE DEF fields, forgotten
      <3>. QED BY <1>1, <1>2, <1>5, <3>1, <3>2 DEF FieldsFit
    <2>5. CASE t = "folder"
      <3>1. /\ fields = [FileLike EXCEPT !.file_size = OptionalUnsigned,
                                         !.manifest_path = OptionalText]
            /\ forgotten = {"text", "emoji", "transferred_size", "sha256"}
        BY <2>5 DEF PartFields, Forgotten
      <3>2. /\ DOMAIN fields = DOMAIN Textual \union {"transfer_state"}
            /\ fields.text = IgnoredText /\ fields.emoji = IgnoredText
            /\ fields.transfer_id = RequiredText /\ fields.file_name = RequiredText
            /\ fields.file_size = OptionalUnsigned /\ fields.transferred_size = IgnoredNumber
            /\ fields.sha256 = IgnoredText /\ fields.local_path = RequiredText
            /\ fields.manifest_path = OptionalText /\ fields.transfer_state = TransferNames
        BY <1>5, <2>3, <3>1
      <3>. HIDE DEF fields, forgotten
      <3>. QED BY <1>1, <1>2, <1>5, <3>1, <3>2 DEF FieldsFit
    <2>. QED BY <1>3, <2>1, <2>2, <2>4, <2>5
  <1>. QED BY <1>4, <1>7, <1>8, <1>9, TogetherFit

\* A kind but for chunks and for the records of the first version, which are only
\* read.
LEMMA KindsFit ==
  ASSUME NEW k \in CodecKinds, k[1] # "legacy", ~IsChunk(k)
  PROVE  /\ FieldsFit(FieldsOf(k), Forgotten(k), FrameTypes)
         /\ k[1] # "frame" /\ k[1] # "sent" =>
              FieldsFit(FieldsOf(k), Forgotten(k), KeptFields)
PROOF
  <1>1. KeptFields \subseteq FrameTypes /\ NoBody \in KeptFields /\ Envelope \in KeptFields
    BY DEF FrameTypes, KeptFields
  <1>2. \A fields, forgotten : FieldsFit(fields, forgotten, KeptFields)
                                 => FieldsFit(fields, forgotten, FrameTypes)
    BY <1>1 DEF FieldsFit
  <1>3. CASE k \in {"frame"} \X DOMAIN FrameFields
    <2>1. FieldsOf(k) = FrameFields[k[2]] /\ Forgotten(k) = {} /\ k[1] = "frame"
      BY <1>3 DEF FieldsOf, Forgotten
    <2>2. k[2] # "transfer_chunk"
      BY <1>3 DEF IsChunk
    <2>. QED BY <1>3, <2>1, <2>2, FramesFit
  <1>4. CASE k \in {"file"} \X DOMAIN FileFields
    <2>1. FieldsOf(k) = FileFields[k[2]] /\ Forgotten(k) = {}
      BY <1>4 DEF FieldsOf, Forgotten
    <2>. QED BY <1>2, <1>4, <2>1, FilesFit
  <1>5. CASE k \in {"kept"} \X DOMAIN PartFields
    <2>1. FieldsOf(k) = Together(RecordFields, PartFields[k[2]]) /\ k = <<"kept", k[2]>>
      BY <1>5 DEF FieldsOf
    <2>. QED BY <1>2, <1>5, <2>1, PartsFit
  <1>6. CASE k \in {"sent"} \X DOMAIN PartFields
    <2>1. /\ FieldsOf(k) = Framed(Together(RecordFields, PartFields[k[2]]), NoBody)
          /\ k = <<"sent", k[2]>> /\ k[1] = "sent"
      BY <1>6 DEF FieldsOf
    <2>2. FieldsFit(Together(RecordFields, PartFields[k[2]]), Forgotten(k), KeptFields)
      BY <1>6, <2>1, PartsFit
    <2>3. Forgotten(k) \intersect {"envelope", "body"} = {}
      <3>1. k[2] \in {"text", "emoji", "image", "file", "folder"}
        BY <1>6 DEF PartFields
      <3>. QED BY <2>1, <3>1 DEF Forgotten, Textual
    <2>. QED BY <1>1, <1>2, <2>1, <2>2, <2>3, FramedFit
  <1>. QED BY <1>3, <1>4, <1>5, <1>6 DEF CodecKinds

\* A cleared avatar has no picture, before and after writing.
LEMMA AvatarsFit ==
  ASSUME NEW k, k = <<"frame", "avatar">>, NEW m, NEW w,
         \A f \in DOMAIN FieldsOf(k) :
           m[f] \in DOMAIN FieldsOf(k)[f].write /\ w[f] = FieldsOf(k)[f].write[m[f]]
  PROVE  w.body = m.body /\ w.avatar_sha256 = m.avatar_sha256
PROOF
  <1>. DEFINE fields == FieldsOf(k)
  <1>1. fields = Together(Avatar, [envelope |-> Envelope, body |-> AvatarContent])
    BY DEF FieldsOf, FrameFields, Framed
  <1>2. /\ "body" \in DOMAIN fields /\ "avatar_sha256" \in DOMAIN fields
        /\ fields["body"] = AvatarContent /\ fields["avatar_sha256"] = HashOrCleared
    BY <1>1 DEF Together, Avatar
  <1>. HIDE DEF fields
  <1>3. /\ m["body"] \in DOMAIN AvatarContent.write
        /\ m["avatar_sha256"] \in DOMAIN HashOrCleared.write
        /\ w["body"] = AvatarContent.write[m["body"]]
        /\ w["avatar_sha256"] = HashOrCleared.write[m["avatar_sha256"]]
    BY <1>2 DEF fields
  <1>. QED BY <1>3 DEF AvatarContent, HashOrCleared, Plain, Field, AsIs

\* What is written is read as the same, but for the forgotten fields.
LEMMA WrittenIsReadBack ==
  ASSUME NEW k \in CodecKinds, k[1] # "legacy", ~IsChunk(k), NEW m, Encode(k, m) # Refused
  PROVE  Decode(k, Encode(k, m)) =
           [f \in DOMAIN FieldsOf(k) |-> IF f \in Forgotten(k) THEN "missing" ELSE m[f]]
PROOF
  <1>. DEFINE fields == FieldsOf(k)
              w == [f \in DOMAIN fields |-> fields[f].write[m[f]]]
  <1>1. /\ \A f \in DOMAIN fields : m[f] \in DOMAIN fields[f].write
        /\ BodyFits(k, m) /\ Encode(k, m) = w
    BY DEF Encode
  <1>2. \A f \in DOMAIN fields : fields[f] \in IF f \in Forgotten(k) THEN IgnoredFields
                                               ELSE KeptFields \union {PackageSize}
    BY KindsFit DEF FieldsFit, FrameTypes
  <1>3. ASSUME NEW f \in DOMAIN fields
        PROVE  /\ w[f] \in DOMAIN fields[f].read
               /\ fields[f].read[w[f]] = IF f \in Forgotten(k) THEN "missing" ELSE m[f]
    <2>1. m[f] \in DOMAIN fields[f].write /\ w[f] = fields[f].write[m[f]]
      BY <1>1
    <2>2. CASE f \in Forgotten(k)
      <3>1. fields[f] \in IgnoredFields
        BY <1>2, <2>2
      <3>. HIDE DEF w, fields
      <3>. QED BY <2>1, <2>2, <3>1, IgnoredIsMissing
    <2>3. CASE f \notin Forgotten(k)
      <3>1. fields[f] \in KeptFields \/ fields[f] = PackageSize
        BY <1>2, <2>3
      <3>. HIDE DEF w, fields
      <3>2. Keeps(fields[f], m[f])
        BY <2>1, <3>1, KeptFieldsAgree, SizesAreGivenBack DEF Agrees
      <3>. QED BY <2>1, <2>3, <3>2 DEF Keeps
    <2>. QED BY <2>2, <2>3
  <1>4. BodyFits(k, w)
    <2>1. CASE k = <<"frame", "avatar">>
      <3>1. \A f \in DOMAIN fields : w[f] = fields[f].write[m[f]]
        OBVIOUS
      <3>. HIDE DEF w
      <3>2. w.body = m.body /\ w.avatar_sha256 = m.avatar_sha256
        BY <1>1, <2>1, <3>1, AvatarsFit
      <3>. QED BY <1>1, <2>1, <3>2 DEF BodyFits
    <2>2. CASE k # <<"frame", "avatar">>
      BY <2>2 DEF BodyFits
    <2>. QED BY <2>1, <2>2
  <1>5. Decode(k, w) = [f \in DOMAIN fields |-> fields[f].read[w[f]]]
    <2>. HIDE DEF w
    <2>. QED BY <1>3, <1>4 DEF Decode
  <1>. HIDE DEF w, fields
  <1>6. Decode(k, w) =
          [f \in DOMAIN fields |-> IF f \in Forgotten(k) THEN "missing" ELSE m[f]]
    BY <1>3, <1>5
  <1>. QED BY <1>1, <1>6 DEF fields

\* A chunk is refused if its path is empty and given back if it is not.
LEMMA ChunkIsReadBack ==
  ASSUME NEW k, IsChunk(k), NEW m, Encode(k, m) # Refused
  PROVE  Decode(k, Encode(k, m)) = IF EmptyPath(k, m) THEN Refused ELSE GivenBack(k, m)
PROOF
  <1>. DEFINE fields == FieldsOf(k)
              w == [f \in DOMAIN fields |-> fields[f].write[m[f]]]
  <1>1. /\ \A f \in DOMAIN fields : m[f] \in DOMAIN fields[f].write
        /\ Encode(k, m) = w
    BY DEF Encode
  <1>2. k[1] = "frame" /\ k # <<"frame", "avatar">> /\ Forgotten(k) = {}
    BY DEF IsChunk, Forgotten
  <1>3. BodyFits(k, w)
    BY <1>2 DEF BodyFits
  <1>4. \A f \in DOMAIN fields : w[f] = fields[f].write[m[f]]
    OBVIOUS
  <1>5. Decode(k, w) = IF \A f \in DOMAIN fields : w[f] \in DOMAIN fields[f].read
                       THEN [f \in DOMAIN fields |-> fields[f].read[w[f]]]
                       ELSE Refused
    <2>. HIDE DEF w
    <2>. QED BY <1>2, <1>3 DEF Decode
  <1>. HIDE DEF w
  <1>6. /\ "folder" \in DOMAIN fields /\ fields["folder"] = FolderEntryFields
        /\ \A f \in DOMAIN fields \ {"folder"} : fields[f] \in FrameTypes
    BY ChunksFit
  <1>7. GivenBack(k, m) = [f \in DOMAIN fields |->
                             IF f = "folder" /\ m[f] = "no path" THEN "missing" ELSE m[f]]
    BY <1>2 DEF GivenBack
  <1>. HIDE DEF fields
  <1>8. \A f \in DOMAIN fields \ {"folder"} :
          w[f] \in DOMAIN fields[f].read /\ fields[f].read[w[f]] = m[f]
    BY <1>1, <1>4, <1>6, KeptFieldsAgree, SizesAreGivenBack DEF Agrees, Keeps, FrameTypes
  <1>9. CASE EmptyPath(k, m)
    <2>1. m["folder"] = "empty path"
      BY <1>9 DEF EmptyPath
    <2>2. w["folder"] \notin DOMAIN fields["folder"].read
      BY <1>1, <1>4, <1>6, <2>1, EntriesAreGivenBack
    <2>. QED BY <1>1, <1>5, <1>6, <1>9, <2>2
  <1>10. CASE ~EmptyPath(k, m)
    <2>1. m["folder"] # "empty path"
      BY <1>10 DEF EmptyPath
    <2>2. /\ w["folder"] \in DOMAIN fields["folder"].read
          /\ fields["folder"].read[w["folder"]] =
               IF m["folder"] = "no path" THEN "missing" ELSE m["folder"]
      BY <1>1, <1>4, <1>6, <2>1, EntriesAreGivenBack
    <2>3. \A f \in DOMAIN fields :
            /\ w[f] \in DOMAIN fields[f].read
            /\ fields[f].read[w[f]] =
                 IF f = "folder" /\ m[f] = "no path" THEN "missing" ELSE m[f]
      BY <1>8, <2>2
    <2>. QED BY <1>1, <1>5, <1>7, <1>10, <2>3
  <1>. QED BY <1>9, <1>10

\* A message all of whose fields are kept can be written and is read as the same.
LEMMA KeptIsReadBack ==
  ASSUME NEW k, k[1] \in {"file", "kept"}, NEW r,
         r = [f \in DOMAIN FieldsOf(k) |-> r[f]],
         \A f \in DOMAIN FieldsOf(k) : Keeps(FieldsOf(k)[f], r[f]),
         \E f \in DOMAIN FieldsOf(k) : f # "refused"
  PROVE  Encode(k, r) # Refused /\ Decode(k, Encode(k, r)) = r
PROOF
  <1>. DEFINE fields == FieldsOf(k)
              w == [f \in DOMAIN fields |-> fields[f].write[r[f]]]
  <1>1. k # <<"frame", "avatar">> /\ k[1] # "sent" /\ k[1] # "legacy"
    OBVIOUS
  <1>2. (\A m : BodyFits(k, m)) /\ (\A m : HeaderFits(k, m))
    BY <1>1 DEF BodyFits, HeaderFits
  <1>3. \A f \in DOMAIN fields : r[f] \in DOMAIN fields[f].write
    BY DEF Keeps
  <1>4. Encode(k, r) = w
    BY <1>2, <1>3 DEF Encode
  <1>5. w # Refused
    <2>1. DOMAIN w = DOMAIN fields /\ DOMAIN Refused = {"refused"}
      BY DEF Refused
    <2>2. DOMAIN fields # {"refused"}
      OBVIOUS
    <2>. HIDE DEF w, fields
    <2>. QED BY <2>1, <2>2
  <1>6. \A f \in DOMAIN fields : w[f] \in DOMAIN fields[f].read /\ fields[f].read[w[f]] = r[f]
    BY DEF Keeps
  <1>7. Decode(k, w) = [f \in DOMAIN fields |-> fields[f].read[w[f]]]
    <2>. HIDE DEF w
    <2>. QED BY <1>1, <1>2, <1>6 DEF Decode
  <1>. HIDE DEF w
  <1>8. Decode(k, w) = r
    BY <1>6, <1>7
  <1>. QED BY <1>4, <1>5, <1>8

\* What a reader made of a written form can be written.
LEMMA ReadIsKept ==
  ASSUME NEW F \in KeptFields \union IgnoredFields, NEW v \in DOMAIN F.read
  PROVE  Keeps(F, F.read[v]) /\ F.read[v] \in F.holds
PROOF
  BY KeptFieldsAgree, IgnoredIsMissing DEF Agrees

LEMMA FilesAreReadBack ==
  ASSUME NEW k \in CodecKinds, k[1] \in {"file", "kept"}, NEW w, NEW r,
         r = Decode(k, w), r # Refused
  PROVE  Encode(k, r) # Refused /\ Decode(k, Encode(k, r)) = r
PROOF
  <1>. DEFINE fields == FieldsOf(k)
  <1>1. /\ \A f \in DOMAIN fields : w[f] \in DOMAIN fields[f].read
        /\ r = [f \in DOMAIN fields |-> fields[f].read[w[f]]]
    <2>1. k[1] # "legacy"
      OBVIOUS
    <2>. QED BY <2>1 DEF Decode
  <1>2. \A f \in DOMAIN fields : fields[f] \in KeptFields \union IgnoredFields
    BY KindsFit DEF FieldsFit, IsChunk
  <1>3. \E f \in DOMAIN fields : f # "refused"
    <2>1. CASE k[1] = "file"
      <3>1. fields = FileFields[k[2]] /\ k[2] \in {"announcement", "peer_profile", "local_identity"}
        BY <2>1 DEF CodecKinds, FieldsOf, FileFields
      <3>2. "device_id" \in DOMAIN fields
        BY <3>1 DEF FileFields, AnnouncementFields, ProfileFields, IdentityFields
      <3>. QED BY <3>2
    <2>2. CASE k[1] = "kept"
      <3>1. fields = Together(RecordFields, PartFields[k[2]])
        BY <2>2 DEF FieldsOf
      <3>2. "message_id" \in DOMAIN fields
        BY <3>1 DEF Together, RecordFields
      <3>. QED BY <3>2
    <2>. QED BY <2>1, <2>2
  <1>. HIDE DEF fields
  <1>4. \A f \in DOMAIN fields : Keeps(fields[f], r[f])
    BY <1>1, <1>2, ReadIsKept
  <1>5. r = [f \in DOMAIN fields |-> r[f]]
    BY <1>1
  <1>. QED BY <1>3, <1>4, <1>5, KeptIsReadBack DEF fields

\* A record of the first version, which becomes one of the current version.
LEMMA LegacyIsReadBack ==
  ASSUME NEW t \in DOMAIN PartFields, NEW w, NEW r,
         r = Decode(<<"legacy", t>>, w), r # Refused
  PROVE  /\ Encode(<<"kept", t>>, r) # Refused
         /\ Decode(<<"kept", t>>, Encode(<<"kept", t>>, r)) = r
         /\ \A f \in DOMAIN FieldsOf(<<"legacy", t>>) :
              r[f] \in FieldsOf(<<"legacy", t>>)[f].holds
PROOF
  <1>. DEFINE unread == {"parts", "part_id", "transfer_state", "transferred_size"}
  <1>1. PICK fields, legacy : fields = FieldsOf(<<"kept", t>>) /\ legacy = FieldsOf(<<"legacy", t>>)
    OBVIOUS
  <1>2. fields = Together(RecordFields, PartFields[t]) /\ legacy = LegacyFields(t)
    BY <1>1 DEF FieldsOf
  <1>3. legacy = [f \in DOMAIN fields |->
                    IF f \in unread
                    THEN Field(fields[f].usual, fields[f].holds, fields[f].write,
                               [v \in fields[f].holds \cup {"missing", "other"} |->
                                  fields[f].usual])
                    ELSE fields[f]]
    BY <1>2 DEF LegacyFields
  <1>4. PICK read :
          /\ read = [f \in DOMAIN legacy |-> legacy[f].read[w[f]]]
          /\ r = IF "transfer_state" \in DOMAIN legacy
                 THEN [read EXCEPT !.transfer_state = LegacyTransferState(read.delivery_state)]
                 ELSE read
    <2>. DEFINE all == [f \in DOMAIN legacy |-> legacy[f].read[w[f]]]
    <2>1. r = IF "transfer_state" \in DOMAIN legacy
              THEN [all EXCEPT !.transfer_state = LegacyTransferState(all.delivery_state)]
              ELSE all
      BY <1>1 DEF Decode
    <2>. QED BY <2>1
  <1>5. \A f \in DOMAIN fields : w[f] \in DOMAIN legacy[f].read
    BY <1>1, <1>3 DEF Decode
  <1>6. \A f \in DOMAIN fields : fields[f] \in KeptFields \union IgnoredFields
    BY <1>2, PartsFit DEF FieldsFit
  <1>7. /\ "message_id" \in DOMAIN fields /\ "delivery_state" \in DOMAIN fields
        /\ fields["delivery_state"] = DeliveryNames
        /\ "transfer_state" \in DOMAIN fields => fields["transfer_state"] = TransferNames
    <2>1. /\ "message_id" \in DOMAIN fields /\ "delivery_state" \in DOMAIN fields
          /\ fields["delivery_state"] = DeliveryNames
      BY <1>2 DEF Together, RecordFields
    <2>2. "transfer_state" \in DOMAIN fields => fields["transfer_state"] = TransferNames
      <3>1. "transfer_state" \notin DOMAIN RecordFields /\ "transfer_state" \notin DOMAIN Textual
        BY DEF RecordFields, Textual
      <3>2. t \in {"text", "emoji", "image", "file", "folder"}
        BY DEF PartFields
      <3>3. "transfer_state" \in DOMAIN PartFields[t]
              => PartFields[t]["transfer_state"] = TransferNames
        <4>1. /\ "transfer_state" \in DOMAIN FileLike
              /\ FileLike["transfer_state"] = TransferNames
          <5>1. PICK named : named = [Textual EXCEPT !.transfer_id = RequiredText,
                                    !.file_name = RequiredText, !.local_path = RequiredText]
            OBVIOUS
          <5>2. DOMAIN named = DOMAIN Textual
            BY <5>1
          <5>3. FileLike = Together(named, [transfer_state |-> TransferNames])
            BY <5>1 DEF FileLike
          <5>. QED BY <3>1, <5>2, <5>3 DEF Together
        <4>2. CASE t \in {"text", "emoji"}
          BY <3>1, <4>2 DEF PartFields
        <4>3. CASE t \in {"image", "file"}
          <5>1. PartFields[t] = [FileLike EXCEPT !.file_size = RequiredPartSize,
                                   !.transferred_size = OptionalUnsigned, !.sha256 = OptionalText]
            BY <4>3 DEF PartFields, FilePart
          <5>. QED BY <4>1, <5>1
        <4>4. CASE t = "folder"
          BY <4>1, <4>4 DEF PartFields
        <4>. QED BY <3>2, <4>2, <4>3, <4>4
      <3>. QED BY <1>2, <3>1, <3>3 DEF Together
    <2>. QED BY <2>1, <2>2
  <1>8. DOMAIN legacy = DOMAIN fields /\ DOMAIN read = DOMAIN fields /\ DOMAIN r = DOMAIN fields
    BY <1>3, <1>4
  <1>9. r = [f \in DOMAIN fields |-> r[f]]
    BY <1>3, <1>4, <1>8
  <1>10. ASSUME NEW f \in DOMAIN fields
         PROVE  Keeps(fields[f], r[f]) /\ r[f] \in fields[f].holds
    <2>1. CASE f = "transfer_state"
      <3>1. r[f] = LegacyTransferState(read["delivery_state"])
        BY <1>4, <1>8, <2>1
      <3>2. legacy["delivery_state"] = DeliveryNames
        BY <1>3, <1>7
      <3>3. read["delivery_state"] \in {"pending", "sent", "delivered", "received", "completed",
                                       "failed", "cancelled"}
        BY <1>4, <1>5, <1>7, <1>8, <3>2 DEF DeliveryNames, Plain, Field, AsIs
      <3>4. r[f] \in {"offered", "pending", "completed", "failed", "cancelled"}
        BY <3>1, <3>3 DEF LegacyTransferState
      <3>. QED BY <1>7, <2>1, <3>4 DEF Keeps, TransferNames, Plain, Field, AsIs
    <2>2. CASE f \in unread /\ f # "transfer_state"
      <3>1. r[f] = legacy[f].read[w[f]]
        BY <1>4, <1>8, <2>2
      <3>2. legacy[f].read = [v \in fields[f].holds \cup {"missing", "other"} |-> fields[f].usual]
        BY <1>3, <2>2 DEF Field
      <3>3. r[f] = fields[f].usual
        BY <1>5, <3>1, <3>2
      <3>. QED BY <1>6, <3>3, KeptFieldsAgree, IgnoredIsMissing DEF Agrees
    <2>3. CASE f \notin unread
      <3>1. r[f] = fields[f].read[w[f]] /\ w[f] \in DOMAIN fields[f].read
        BY <1>3, <1>4, <1>5, <1>8, <2>3
      <3>. QED BY <1>6, <3>1, ReadIsKept
    <2>. QED BY <2>1, <2>2, <2>3
  <1>11. (<<"kept", t>>)[1] = "kept" /\ \E f \in DOMAIN fields : f # "refused"
    BY <1>7
  <1>12. \A f \in DOMAIN legacy : r[f] \in legacy[f].holds
    <2>1. \A f \in DOMAIN fields : legacy[f].holds = fields[f].holds
      BY <1>3 DEF Field
    <2>. QED BY <1>8, <1>10, <2>1
  <1>. QED BY <1>1, <1>9, <1>10, <1>11, <1>12, KeptIsReadBack

\* The usual values of a message's fields and what is read of them may be held.
LEMMA KindsAreHeld ==
  ASSUME NEW k \in CodecKinds
  PROVE  /\ \A f \in DOMAIN FieldsOf(k) : FieldsOf(k)[f].usual \in FieldsOf(k)[f].holds
         /\ \A w : Decode(k, w) # Refused =>
              \A f \in DOMAIN FieldsOf(k) : Decode(k, w)[f] \in FieldsOf(k)[f].holds
PROOF
  <1>. DEFINE fields == FieldsOf(k)
  <1>1. CASE k[1] # "legacy"
    <2>. DEFINE types == FrameTypes \union IgnoredFields \union {FolderEntryFields}
    <2>1. \A f \in DOMAIN fields : fields[f] \in types
      <3>1. CASE IsChunk(k)
        BY <3>1, ChunksFit
      <3>2. CASE ~IsChunk(k)
        BY <1>1, <3>2, KindsFit DEF FieldsFit
      <3>. QED BY <3>1, <3>2
    <2>2. \A F \in types :
            F.usual \in F.holds /\ \A v \in DOMAIN F.read : F.read[v] \in F.holds
      BY KeptFieldsAgree, IgnoredIsMissing, SizesAreGivenBack, EntriesAreGivenBack
         DEF Agrees, FrameTypes
    <2>3. ASSUME NEW w, Decode(k, w) # Refused
          PROVE  /\ Decode(k, w) = [f \in DOMAIN fields |-> fields[f].read[w[f]]]
                 /\ \A f \in DOMAIN fields : w[f] \in DOMAIN fields[f].read
      BY <1>1, <2>3 DEF Decode
    <2>. HIDE DEF fields
    <2>4. ASSUME NEW w, Decode(k, w) # Refused, NEW f \in DOMAIN fields
          PROVE  Decode(k, w)[f] \in fields[f].holds
      BY <2>1, <2>2, <2>3, <2>4
    <2>. QED BY <2>1, <2>2, <2>4 DEF fields
  <1>2. CASE k[1] = "legacy"
    <2>1. PICK t \in DOMAIN PartFields : k = <<"legacy", t>>
      BY <1>2 DEF CodecKinds
    <2>2. \A w : Decode(k, w) # Refused =>
            \A f \in DOMAIN fields : Decode(k, w)[f] \in fields[f].holds
      BY <2>1, LegacyIsReadBack
    <2>3. \A f \in DOMAIN fields : fields[f].usual \in fields[f].holds
      <3>1. PICK current : current = Together(RecordFields, PartFields[t])
        OBVIOUS
      <3>2. /\ DOMAIN fields = DOMAIN current
            /\ \A f \in DOMAIN current : /\ fields[f].usual = current[f].usual
                                         /\ fields[f].holds = current[f].holds
        BY <2>1, <3>1 DEF FieldsOf, LegacyFields, Field
      <3>3. \A f \in DOMAIN current : current[f] \in KeptFields \union IgnoredFields
        BY <3>1, PartsFit DEF FieldsFit
      <3>4. \A F \in KeptFields \union IgnoredFields : F.usual \in F.holds
        BY KeptFieldsAgree, IgnoredIsMissing DEF Agrees
      <3>. HIDE DEF fields
      <3>. QED BY <3>2, <3>3, <3>4
    <2>. QED BY <2>2, <2>3
  <1>. QED BY <1>1, <1>2

\* What was written and read is of the message.
FormsMatch ==
  /\ stage = "filling" => written = Refused
  /\ stage # "read" => recovered = Refused
  /\ (stage # "filling" /\ ~changed) => written = Encode(kind, memory)
  /\ stage = "read" => written # Refused /\ recovered = Decode(kind, written)

CodecInv == CodecTypeOK /\ FormsMatch

LEMMA CodecInvInit == CodecInit => CodecInv
PROOF
  <1>. SUFFICES ASSUME CodecInit PROVE CodecInv
    OBVIOUS
  <1>1. /\ kind \in CodecKinds /\ written = Refused /\ recovered = Refused
        /\ stage = "filling" /\ odd = 0 /\ changed = FALSE
        /\ memory = [f \in DOMAIN FieldsOf(kind) |-> FieldsOf(kind)[f].usual]
    BY DEF CodecInit
  <1>2. /\ DOMAIN memory = DOMAIN FieldsOf(kind)
        /\ \A f \in DOMAIN memory : memory[f] \in FieldsOf(kind)[f].holds
    BY <1>1, KindsAreHeld
  <1>3. odd \in 0 .. MaxOdd
    BY <1>1, CodecAssumption DEF CodecAssumption
  <1>. QED BY <1>1, <1>2, <1>3 DEF CodecInv, CodecTypeOK, FormsMatch

LEMMA EncodedAs ==
  ASSUME NEW k, NEW m
  PROVE  Encode(k, m) = Refused \/ DOMAIN Encode(k, m) = DOMAIN FieldsOf(k)
PROOF
  BY DEF Encode

LEMMA CodecInvStep == CodecInv /\ [CodecNext]_codecVars => CodecInv'
PROOF
  <1>. SUFFICES ASSUME CodecInv, [CodecNext]_codecVars
                PROVE  CodecInv'
    OBVIOUS
  <1>1. /\ kind \in CodecKinds /\ DOMAIN memory = DOMAIN FieldsOf(kind)
        /\ \A f \in DOMAIN memory : memory[f] \in FieldsOf(kind)[f].holds
        /\ odd \in 0 .. MaxOdd /\ changed \in BOOLEAN
        /\ written = Refused \/ DOMAIN written = DOMAIN memory
    BY DEF CodecInv, CodecTypeOK
  <1>2. MaxOdd \in Nat
    BY CodecAssumption DEF CodecAssumption
  <1>3. ASSUME NEW f \in DOMAIN memory, SetField(f)
        PROVE  CodecInv'
    <2>1. /\ stage = "filling" /\ odd < MaxOdd /\ odd' = odd + 1
          /\ UNCHANGED <<kind, written, recovered, stage, changed>>
      BY <1>3 DEF SetField
    <2>2. PICK v \in FieldsOf(kind)[f].holds : memory' = [memory EXCEPT ![f] = v]
      BY <1>3 DEF SetField
    <2>3. /\ DOMAIN memory' = DOMAIN memory
          /\ \A g \in DOMAIN memory : memory'[g] \in FieldsOf(kind)[g].holds
      BY <1>1, <2>2
    <2>4. odd' \in 0 .. MaxOdd
      BY <1>1, <1>2, <2>1
    <2>5. CodecTypeOK'
      BY <2>1, <2>3, <2>4 DEF CodecInv, CodecTypeOK, FormsMatch
    <2>6. FormsMatch'
      BY <2>1 DEF CodecInv, FormsMatch
    <2>. QED BY <2>5, <2>6 DEF CodecInv
  <1>4. ASSUME NEW f \in DOMAIN memory, Change(f)
        PROVE  CodecInv'
    <2>1. /\ stage = "written" /\ odd < MaxOdd /\ odd' = odd + 1 /\ changed' = TRUE
          /\ written # Refused
          /\ UNCHANGED <<kind, memory, recovered, stage>>
      BY <1>4 DEF Change
    <2>2. PICK v : written' = [written EXCEPT ![f] = v]
      BY <1>4 DEF Change
    <2>3. DOMAIN written' = DOMAIN memory
      BY <1>1, <2>1, <2>2
    <2>4. odd' \in 0 .. MaxOdd
      BY <1>1, <1>2, <2>1
    <2>5. CodecTypeOK'
      BY <2>1, <2>3, <2>4 DEF CodecInv, CodecTypeOK
    <2>6. FormsMatch'
      BY <2>1 DEF CodecInv, FormsMatch
    <2>. QED BY <2>5, <2>6 DEF CodecInv
  <1>5. ASSUME WriteMessage
        PROVE  CodecInv'
    <2>1. /\ stage = "filling" /\ stage' = "written" /\ written' = Encode(kind, memory)
          /\ UNCHANGED <<kind, memory, recovered, odd, changed>>
      BY <1>5 DEF WriteMessage
    <2>2. written' = Refused \/ DOMAIN written' = DOMAIN memory
      BY <1>1, <2>1, EncodedAs
    <2>3. CodecTypeOK'
      BY <2>1, <2>2 DEF CodecInv, CodecTypeOK
    <2>4. FormsMatch'
      BY <2>1 DEF CodecInv, FormsMatch
    <2>. QED BY <2>3, <2>4 DEF CodecInv
  <1>6. ASSUME ReadMessage
        PROVE  CodecInv'
    <2>1. /\ stage = "written" /\ stage' = "read" /\ recovered' = Decode(kind, written)
          /\ written # Refused
          /\ UNCHANGED <<kind, memory, written, odd, changed>>
      BY <1>6 DEF ReadMessage
    <2>2. recovered' # Refused =>
            \A f \in DOMAIN memory : recovered'[f] \in FieldsOf(kind)[f].holds
      BY <1>1, <2>1, KindsAreHeld
    <2>3. CodecTypeOK'
      BY <2>1, <2>2 DEF CodecInv, CodecTypeOK
    <2>4. FormsMatch'
      BY <2>1 DEF CodecInv, FormsMatch
    <2>. QED BY <2>3, <2>4 DEF CodecInv
  <1>7. ASSUME UNCHANGED codecVars
        PROVE  CodecInv'
    BY <1>7 DEF CodecInv, CodecTypeOK, FormsMatch, codecVars
  <1>. QED BY <1>3, <1>4, <1>5, <1>6, <1>7 DEF CodecNext

LEMMA CodecInvHolds == CodecSpec => []CodecInv
PROOF
  BY CodecInvInit, CodecInvStep, PTL DEF CodecSpec

\* A message in memory, its written form and what is read of it have the fields of
\* their kind, and every field a value that its type may hold.
THEOREM CodecTypesHold == CodecSpec => []CodecTypeOK
PROOF
  <1>1. CodecInv => CodecTypeOK
    BY DEF CodecInv
  <1>. QED BY <1>1, CodecInvHolds, PTL

\* Whatever a writer of the program takes, its reader takes and gives back the same
\* but for the forgotten fields, with the one exception of a chunk with an empty
\* path, which it always refuses; and what a reader takes from a file, also of
\* another version, can be written again and is then read as the same.
THEOREM WritersAndReadersAgree == CodecSpec => []CodecsAgree
PROOF
  <1>1. CodecInv => CodecsAgree
    <2>. SUFFICES ASSUME CodecInv PROVE CodecsAgree
      OBVIOUS
    <2>1. kind \in CodecKinds /\ DOMAIN memory = DOMAIN FieldsOf(kind)
      BY DEF CodecInv, CodecTypeOK
    <2>2. WrittenIsRead
      <3>1. SUFFICES ASSUME stage = "read", ~changed, kind[1] # "legacy"
                     PROVE  recovered = IF EmptyPath(kind, memory) THEN Refused
                                        ELSE GivenBack(kind, memory)
        BY DEF WrittenIsRead
      <3>2. /\ written = Encode(kind, memory) /\ written # Refused
            /\ recovered = Decode(kind, written)
        BY <3>1 DEF CodecInv, FormsMatch
      <3>3. CASE IsChunk(kind)
        BY <3>2, <3>3, ChunkIsReadBack
      <3>4. CASE ~IsChunk(kind)
        <4>1. ~EmptyPath(kind, memory)
          BY <3>4 DEF EmptyPath
        <4>2. GivenBack(kind, memory) =
                [f \in DOMAIN FieldsOf(kind) |->
                   IF f \in Forgotten(kind) THEN "missing" ELSE memory[f]]
          BY <3>4 DEF GivenBack
        <4>3. recovered = [f \in DOMAIN FieldsOf(kind) |->
                             IF f \in Forgotten(kind) THEN "missing" ELSE memory[f]]
          BY <2>1, <3>1, <3>2, <3>4, WrittenIsReadBack
        <4>. QED BY <4>1, <4>2, <4>3
      <3>. QED BY <3>3, <3>4
    <2>3. ReadCanBeKept
      <3>1. SUFFICES ASSUME stage = "read", recovered # Refused,
                            kind[1] \in {"file", "kept", "legacy"}
                     PROVE  LET now == IF kind[1] = "legacy" THEN <<"kept", kind[2]>> ELSE kind
                            IN /\ Encode(now, recovered) # Refused
                               /\ Decode(now, Encode(now, recovered)) = recovered
        BY DEF ReadCanBeKept
      <3>2. recovered = Decode(kind, written)
        BY <3>1 DEF CodecInv, FormsMatch
      <3>3. CASE kind[1] = "legacy"
        <4>1. PICK t \in DOMAIN PartFields : kind = <<"legacy", t>>
          BY <2>1, <3>3 DEF CodecKinds
        <4>2. /\ Encode(<<"kept", t>>, recovered) # Refused
              /\ Decode(<<"kept", t>>, Encode(<<"kept", t>>, recovered)) = recovered
          BY <3>1, <3>2, <4>1, LegacyIsReadBack
        <4>. QED BY <4>1, <4>2
      <3>4. CASE kind[1] # "legacy"
        BY <2>1, <3>1, <3>2, <3>4, FilesAreReadBack
      <3>. QED BY <3>3, <3>4
    <2>. QED BY <2>2, <2>3 DEF CodecsAgree
  <1>. QED BY <1>1, CodecInvHolds, PTL
=============================================================================
