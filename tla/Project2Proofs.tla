---------------------------- MODULE Project2Proofs ----------------------------
(***************************************************************************)
(* Project2, and the modules of Project1.  The shell for any lines, as     *)
(* many as are typed: main waits for what it has to, no zombie is          *)
(* forgotten, the history is never read after it was freed, and children   *)
(* run the words that were typed.  The files under /proc for any number of *)
(* readers, any word size and any HZ: what a call returns was true during  *)
(* the call, and a reader that has the file for itself gets the value      *)
(* exactly once.                                                           *)
(***************************************************************************)
EXTENDS Shell, ProcFile, SequenceTheorems, WellFoundedInduction, TLAPS

States == {"running", "unnoticed", "zombie", "reaped"}
Places == {"prompt", "parse", "fork", "signal", "wait", "save", "exited"}

\* What points to a word of a line that was typed.
PointersTo(t) == {p \in (1 .. Len(t)) \X Slots : p[2] < Len(t[p[1]])}

\* An array of arguments; the last of its elements is always null.
ArraysOf(t) == {a \in [Slots -> PointersTo(t) \cup {NULL}] : a[MaxArgs] = NULL}

\* What a child may read at such a place.
Texts == STRING \cup {Garbage}

Jobs ==
  [state : States, line : Nat, ifpara : BOOLEAN,
   argv : Seq(Texts), left : Seq(Texts), files : Seq(STRING)]

TypeOK ==
  /\ typed \in Seq(Lines)
  /\ pc \in Places /\ (pc \notin {"prompt", "exited"} => typed # <<>>)
  /\ temp \in ArraysOf(typed) /\ father \in ArraysOf(typed) /\ child \in ArraysOf(typed)
  /\ command.ifpara \in BOOLEAN /\ command.ifpipe \in BOOLEAN
  /\ command.redirect \in PointersTo(typed) \cup {NULL}
  /\ command.filename \in PointersTo(typed) \cup {NULL}
  /\ jobs \in Seq(Jobs)

-----------------------------------------------------------------------------
LEMMA MinFacts ==
  ASSUME NEW S \in SUBSET Nat, S # {}
  PROVE  Min(S) \in S /\ \A y \in S : Min(S) <= y
<1>1. PICK x \in S : \A y \in S : ~ (<<y, x>> \in OpToRel(<, Nat))
  BY NatLessThanWellFounded, WFMin, Zenon
<1>2. \A y \in S : x <= y
  <2> TAKE y \in S
  <2>1. y < x => <<y, x>> \in OpToRel(<, Nat)
    BY DEF OpToRel
  <2>2. ~ (y < x)
    BY <1>1, <2>1, Zenon
  <2>3. x \in Nat /\ y \in Nat
    OBVIOUS
  <2>4. QED
    BY <2>2, <2>3
<1>3. QED
  BY <1>2 DEF Min

LEMMA MaxFacts ==
  ASSUME NEW n \in Nat, NEW S \in SUBSET (0 .. n), S # {}
  PROVE  Max(S) \in S /\ \A y \in S : Max(S) >= y
<1> DEFINE T == {n - x : x \in S}
<1>1. \A x \in S : n - x \in Nat
  OBVIOUS
<1>2. T \in SUBSET Nat
  BY <1>1
<1>3. T # {}
  OBVIOUS
<1>4. PICK t \in T : \A y \in T : t <= y
  BY <1>2, <1>3, MinFacts
<1>5. PICK x \in S : \A y \in S : x >= y
  BY <1>4
<1>6. QED
  BY <1>5 DEF Max

\* The least of a set of numbers is the one that is.
LEMMA MinIs ==
  ASSUME NEW S \in SUBSET Nat, NEW m \in S, \A y \in S : m <= y
  PROVE  Min(S) = m
<1>1. Min(S) \in S /\ Min(S) <= m
  BY MinFacts
<1>2. Min(S) \in Nat /\ m \in Nat /\ m <= Min(S)
  BY <1>1
<1>3. QED
  BY <1>1, <1>2

LEMMA MaxIs ==
  ASSUME NEW n \in Nat, NEW S \in SUBSET (0 .. n), NEW m \in S, \A y \in S : m >= y
  PROVE  Max(S) = m
<1>1. Max(S) \in S /\ Max(S) >= m
  BY MaxFacts
<1>2. m >= Max(S) /\ m \in 0 .. n /\ Max(S) \in 0 .. n
  BY <1>1, Zenon
<1>3. QED
  BY <1>1, <1>2

\* The beginning of a sequence, and the part behind it.
LEMMA PartsOf ==
  ASSUME NEW S, NEW s \in Seq(S), NEW n \in 0 .. Len(s)
  PROVE  /\ SubSeq(s, 1, n) = [k \in 1 .. n |-> s[k]]
         /\ SubSeq(s, 1, n) \in Seq(S) /\ Len(SubSeq(s, 1, n)) = n
         /\ SubSeq(s, n + 1, Len(s)) = [k \in 1 .. Len(s) - n |-> s[n + k]]
         /\ SubSeq(s, n + 1, Len(s)) \in Seq(S) /\ Len(SubSeq(s, n + 1, Len(s))) = Len(s) - n
<1>1. /\ SubSeq(s, 1, n) \in Seq(S) /\ Len(SubSeq(s, 1, n)) = n
      /\ \A k \in 1 .. n : SubSeq(s, 1, n)[k] = s[k]
  BY SubSeqProperties
<1>2. SubSeq(s, 1, n) = [k \in 1 .. n |-> s[k]]
  BY <1>1
<1>3. /\ SubSeq(s, n + 1, Len(s)) \in Seq(S) /\ Len(SubSeq(s, n + 1, Len(s))) = Len(s) - n
      /\ \A k \in 1 .. Len(s) - n : SubSeq(s, n + 1, Len(s))[k] = s[n + k]
  BY SubSeqProperties
<1>4. SubSeq(s, n + 1, Len(s)) = [k \in 1 .. Len(s) - n |-> s[n + k]]
  BY <1>3
<1>5. QED
  BY <1>1, <1>2, <1>3, <1>4

-----------------------------------------------------------------------------
(***************************************************************************)
(* Which line the arrays hold.  The history is kept up to the line before  *)
(* the one that is run; the arrays a command is run from are taken from    *)
(* that line itself once it is parsed.  Lines that are "!!" leave both at  *)
(* the last line that was not.                                             *)
(***************************************************************************)
Own(n) == {k \in 1 .. n : typed[k] # Recall}
Kept   == IF pc \in {"prompt", "exited"} THEN Len(typed) ELSE Len(typed) - 1
Taken  == IF pc = "parse" THEN Len(typed) - 1 ELSE Len(typed)

\* The array src holds line h and its null pointer.
IsLine(src, h) ==
  /\ \A i \in 0 .. Len(typed[h]) - 1 : src[i] = <<h, i>>
  /\ src[Len(typed[h])] = NULL

\* No pointer in the history was freed, and those that were are older lines'.
HistoryInv ==
  /\ buffer \in ArraysOf(typed) /\ freed \subseteq (1 .. Kept) \X Slots
  /\ \A k \in Slots : buffer[k] # NULL =>
       buffer[k] \notin freed /\ \E m \in 1 .. Kept : buffer[k] = <<m, k>>
  /\ IF Own(Kept) = {}
       THEN buffer = NoWords
       ELSE /\ IsLine(buffer, Max(Own(Kept)))
            /\ buffer_len = Len(typed[Max(Own(Kept))])

\* The words of line h are in temp, those of its sides in father and child.
HoldsWords(h) ==
  LET words == Words(typed[h])
      bar   == Bar(words)
  IN  /\ \A i \in 0 .. Len(words) - 1 : temp[i] = <<h, i>>
      /\ temp[Len(words)] = NULL
      /\ bar # 0 => /\ \A i \in 0 .. bar - 2 : father[i] = <<h, i>>
                    /\ \A i \in 0 .. Len(words) - bar - 1 : child[i] = <<h, i + bar>>

\* The flags are those of line h.
HasFlags(h) ==
  LET stop == Len(Words(typed[h]))
  IN  /\ command.ifpipe <=> Bar(Words(typed[h])) # 0
      /\ IF stop < Len(typed[h]) /\ typed[h][stop + 1] \in {"<", ">"}
           THEN /\ command.redirect = <<h, stop>>
                /\ command.filename = IF stop + 1 < Len(typed[h]) THEN <<h, stop + 1>> ELSE NULL
           ELSE command.redirect = NULL

ParsedInv ==
  IF Own(Taken) = {}
    THEN temp = NoWords /\ (pc = "fork" => command = NoFlags)
    ELSE /\ HoldsWords(Max(Own(Taken)))
         /\ pc = "fork" => HasFlags(Max(Own(Taken)))

-----------------------------------------------------------------------------
\* Where the words of a line end, said without taking a least element.
EndsAt(l, k) == l[k] \in {"<", ">"} \/ (l[k] = "&" /\ k = Len(l))

IsStop(l, s) ==
  /\ s \in 0 .. Len(l)
  /\ \A k \in 1 .. s : ~ EndsAt(l, k)
  /\ s < Len(l) => EndsAt(l, s + 1)

\* There is one place only where they end.
LEMMA OneStop ==
  ASSUME NEW l \in Seq(STRING), NEW s, NEW t, IsStop(l, s), IsStop(l, t)
  PROVE  s = t
<1>1. s \in 0 .. Len(l) /\ t \in 0 .. Len(l) /\ Len(l) \in Nat
  BY DEF IsStop
<1>2. ~ (s < t) /\ ~ (t < s)
  BY <1>1 DEF IsStop
<1>3. QED
  BY <1>1, <1>2

\* The words are those in front of that place.
LEMMA WordsEnd ==
  ASSUME NEW l \in Seq(STRING)
  PROVE  /\ IsStop(l, Len(Words(l)))
         /\ Words(l) = [k \in 1 .. Len(Words(l)) |-> l[k]]
         /\ Words(l) \in Seq(STRING)
<1> DEFINE ends == {k \in DOMAIN l : l[k] \in {"<", ">"} \/ (l[k] = "&" /\ k = Len(l))}
           m == Min(ends \cup {Len(l) + 1})
<1>1. Len(l) \in Nat /\ DOMAIN l = 1 .. Len(l)
  OBVIOUS
<1>2. ends \cup {Len(l) + 1} \in SUBSET Nat /\ ends \cup {Len(l) + 1} # {}
  BY <1>1
<1>3. m \in ends \cup {Len(l) + 1} /\ \A y \in ends \cup {Len(l) + 1} : m <= y
  BY <1>2, MinFacts
<1> HIDE DEF m
<1>4. m \in 1 .. Len(l) + 1
  BY <1>1, <1>3
<1>5. IsStop(l, m - 1)
  <2>1. m - 1 \in 0 .. Len(l)
    BY <1>1, <1>4
  <2>2. ASSUME NEW k \in 1 .. m - 1 PROVE ~ EndsAt(l, k)
    <3>1. k \in 1 .. Len(l) /\ ~ (m <= k)
      BY <1>1, <1>4
    <3>2. QED
      BY <1>1, <1>3, <3>1 DEF EndsAt
  <2>3. ASSUME m - 1 < Len(l) PROVE EndsAt(l, m - 1 + 1)
    <3>1. m \in ends /\ m - 1 + 1 = m
      BY <1>1, <1>3, <1>4, <2>3
    <3>2. QED
      BY <3>1 DEF EndsAt
  <2>4. QED
    BY <2>1, <2>2, <2>3 DEF IsStop
<1>6. Words(l) = SubSeq(l, 1, m - 1)
  BY DEF Words, m
<1>7. m - 1 \in 0 .. Len(l)
  BY <1>1, <1>4
<1>8. QED
  BY <1>5, <1>6, <1>7, PartsOf

\* The last "|" of some words.
LEMMA BarFacts ==
  ASSUME NEW w \in Seq(STRING)
  PROVE  /\ Bar(w) \in 0 .. Len(w)
         /\ Bar(w) # 0 => w[Bar(w)] = "|"
         /\ \A k \in Bar(w) + 1 .. Len(w) : w[k] # "|"
<1> DEFINE S == {k \in DOMAIN w : w[k] = "|"} \cup {0}
<1>1. Len(w) \in Nat /\ DOMAIN w = 1 .. Len(w)
  OBVIOUS
<1>2. S \in SUBSET (0 .. Len(w)) /\ S # {}
  BY <1>1
<1>3. Max(S) \in S /\ \A y \in S : Max(S) >= y
  BY <1>1, <1>2, MaxFacts
<1>4. Bar(w) = Max(S)
  BY DEF Bar
<1> HIDE DEF S
<1>5. Bar(w) \in 0 .. Len(w)
  BY <1>2, <1>3, <1>4
<1>6. Bar(w) # 0 => w[Bar(w)] = "|"
  BY <1>3, <1>4 DEF S
<1>7. ASSUME NEW k \in Bar(w) + 1 .. Len(w) PROVE w[k] # "|"
  <2>1. k \in 1 .. Len(w) /\ ~ (Bar(w) >= k)
    BY <1>1, <1>5
  <2>2. QED
    BY <1>1, <1>3, <1>4, <2>1 DEF S
<1>8. QED
  BY <1>5, <1>6, <1>7

-----------------------------------------------------------------------------
\* Lines are sequences of words that fit into the arrays.
LEMMA LineFacts ==
  ASSUME typed \in Seq(Lines), NEW h \in 1 .. Len(typed)
  PROVE  typed[h] \in Seq(STRING) /\ Len(typed[h]) \in 1 .. MaxArgs
<1>1. typed[h] \in Lines
  OBVIOUS
<1>2. QED
  BY <1>1, ShellAssumption

\* A pointer leads to its word, and is not null.
LEMMA PointerFacts ==
  ASSUME typed \in Seq(Lines), NEW p \in PointersTo(typed)
  PROVE  /\ Text(p) \in STRING /\ p # NULL
         /\ \E h \in 1 .. Len(typed) : \E i \in 0 .. Len(typed[h]) - 1 : p = <<h, i>>
<1>1. PICK h \in 1 .. Len(typed), i \in Slots : p = <<h, i>> /\ i < Len(typed[h])
  BY DEF PointersTo
<1>2. typed[h] \in Seq(STRING) /\ Len(typed[h]) \in Nat
  BY LineFacts
<1>3. i \in 0 .. Len(typed[h]) - 1 /\ i + 1 \in 1 .. Len(typed[h])
  BY <1>1, <1>2 DEF Slots
<1>4. Text(p) = typed[h][i + 1]
  BY <1>1 DEF Text
<1>5. Text(p) \in STRING
  BY <1>2, <1>3, <1>4
<1>6. p # NULL
  BY <1>1, <1>3, ShellAssumption
<1>7. QED
  BY <1>1, <1>3, <1>5, <1>6

LEMMA PointerTo ==
  ASSUME typed \in Seq(Lines), NEW h \in 1 .. Len(typed), NEW i \in 0 .. Len(typed[h]) - 1
  PROVE  <<h, i>> \in PointersTo(typed) /\ <<h, i>> # NULL /\ Text(<<h, i>>) = typed[h][i + 1]
<1>1. Len(typed[h]) \in 1 .. MaxArgs /\ MaxArgs \in Nat
  BY LineFacts, ShellAssumption
<1>2. i \in Slots /\ i < Len(typed[h])
  BY <1>1 DEF Slots
<1>3. <<h, i>> \in PointersTo(typed)
  BY <1>2 DEF PointersTo
<1>4. QED
  BY <1>3, PointerFacts DEF Text

\* What execvp finds in an array with a null pointer at its end: at least the
\* words in front of any place up to which there is none, and no more if there is.
LEMMA ExecutedFacts ==
  ASSUME typed \in Seq(Lines), NEW a \in ArraysOf(typed), NEW n \in Slots,
         \A i \in 0 .. n - 1 : a[i] # NULL
  PROVE  /\ Executed(a) \in Seq(Texts) /\ n <= Len(Executed(a))
         /\ a[n] = NULL => Len(Executed(a)) = n
         /\ \A k \in 1 .. n :
              Executed(a)[k] = IF a[k - 1] \in freed THEN Garbage ELSE Text(a[k - 1])
<1> DEFINE S == {i \in Slots : a[i] = NULL}
           m == Min(S)
<1>1. MaxArgs \in Nat /\ a \in [Slots -> PointersTo(typed) \cup {NULL}] /\ a[MaxArgs] = NULL
  BY ShellAssumption DEF ArraysOf
<1>2. S \in SUBSET Nat /\ MaxArgs \in S
  BY <1>1 DEF Slots
<1>3. m \in S /\ \A y \in S : m <= y
  BY <1>2, MinFacts
<1> HIDE DEF m
<1>4. m \in Slots /\ m \in Nat /\ n \in Nat
  BY <1>1, <1>3 DEF Slots
<1>5. n <= m
  <2>1. ~ (m \in 0 .. n - 1)
    BY <1>3
  <2>2. QED
    BY <1>4, <2>1
<1>6. a[n] = NULL => m = n
  <2>1. a[n] = NULL => m <= n
    BY <1>3
  <2>2. QED
    BY <1>4, <1>5, <2>1
<1>7. Executed(a) = [k \in 1 .. m |-> IF a[k - 1] \in freed THEN Garbage ELSE Text(a[k - 1])]
  BY DEF Executed, m
<1>8. \A k \in 1 .. m : Text(a[k - 1]) \in STRING
  <2> TAKE k \in 1 .. m
  <2>1. k - 1 \in Slots /\ ~ (m <= k - 1)
    BY <1>1, <1>4 DEF Slots
  <2>2. a[k - 1] \in PointersTo(typed)
    BY <1>1, <1>3, <2>1
  <2>3. QED
    BY <2>2, PointerFacts
<1>9. \A k \in 1 .. m : (IF a[k - 1] \in freed THEN Garbage ELSE Text(a[k - 1])) \in Texts
  BY <1>8, Zenon DEF Texts
<1>10. Executed(a) \in [1 .. m -> Texts]
  BY <1>7, <1>9
<1>11. Executed(a) \in Seq(Texts) /\ Len(Executed(a)) = m
  BY <1>4, <1>10
<1>12. \A k \in 1 .. n : k \in 1 .. m
  BY <1>4, <1>5
<1>13. QED
  BY <1>5, <1>6, <1>7, <1>11, <1>12

\* What was typed before stays what it was.
LEMMA OlderLines ==
  ASSUME typed \in Seq(Lines), NEW l \in Lines
  PROVE  /\ Append(typed, l) \in Seq(Lines) /\ Len(Append(typed, l)) = Len(typed) + 1
         /\ \A h \in 1 .. Len(typed) : Append(typed, l)[h] = typed[h]
         /\ Append(typed, l)[Len(typed) + 1] = l
         /\ PointersTo(typed) \subseteq PointersTo(Append(typed, l))
         /\ ArraysOf(typed) \subseteq ArraysOf(Append(typed, l))
<1>1. /\ Append(typed, l) \in Seq(Lines) /\ Len(Append(typed, l)) = Len(typed) + 1
      /\ \A h \in 1 .. Len(typed) : Append(typed, l)[h] = typed[h]
      /\ Append(typed, l)[Len(typed) + 1] = l
  BY AppendProperties
<1>2. ASSUME NEW p \in PointersTo(typed) PROVE p \in PointersTo(Append(typed, l))
  <2>1. p \in (1 .. Len(typed)) \X Slots /\ p[2] < Len(typed[p[1]])
    BY DEF PointersTo
  <2>2. p[1] \in 1 .. Len(typed) /\ p[1] \in 1 .. Len(typed) + 1
    BY <2>1
  <2>3. p \in (1 .. Len(Append(typed, l))) \X Slots
    BY <1>1, <2>1, <2>2
  <2>4. QED
    BY <1>1, <2>1, <2>2, <2>3 DEF PointersTo
<1>3. QED
  BY <1>1, <1>2 DEF ArraysOf

-----------------------------------------------------------------------------
\* Where parsing stops in an array that holds line h.
LEMMA StopFacts ==
  ASSUME typed \in Seq(Lines), NEW h \in 1 .. Len(typed), NEW src, IsLine(src, h),
         NEW l, l = typed[h], NEW n, n = Len(l)
  PROVE  /\ Background(src, n) <=> l[n] = "&"
         /\ End(src, n) = IF l[n] = "&" THEN n - 1 ELSE n
         /\ Stop(src, n) = Len(Words(l)) /\ Stop(src, n) \in 0 .. End(src, n)
         /\ Stop(src, n) < End(src, n)
              <=> Stop(src, n) < n /\ l[Stop(src, n) + 1] \in {"<", ">"}
         /\ \A i \in 0 .. n - 1 : Text(src[i]) = l[i + 1]
<1>1. l \in Seq(STRING) /\ n \in 1 .. MaxArgs /\ n \in Nat
  BY LineFacts, ShellAssumption
<1>2. \A i \in 0 .. n - 1 : Text(src[i]) = l[i + 1]
  BY <1>1, PointerTo DEF IsLine
<1>3. Background(src, n) <=> l[n] = "&"
  BY <1>1, <1>2 DEF Background
<1>4. End(src, n) = IF l[n] = "&" THEN n - 1 ELSE n
  BY <1>3 DEF End
<1> DEFINE e == End(src, n)
           T == {i \in 0 .. e - 1 : Text(src[i]) \in {"<", ">"}} \cup {e}
           m == Min(T)
<1>5. e \in {n - 1, n} /\ e \in Nat
  BY <1>1, <1>4
<1> HIDE DEF e
<1>6. T \in SUBSET Nat /\ T # {}
  BY <1>5
<1>7. m \in T /\ \A y \in T : m <= y
  BY <1>6, MinFacts
<1>8. Stop(src, n) = m
  BY DEF Stop, e
<1> HIDE DEF m
<1>9. m \in 0 .. e /\ m \in 0 .. n
  BY <1>5, <1>7
<1>10. m < e => l[m + 1] \in {"<", ">"}
  BY <1>2, <1>5, <1>7, <1>9
<1>11. IsStop(l, m)
  <2>1. ASSUME NEW k \in 1 .. m PROVE ~ EndsAt(l, k)
    <3>1. k - 1 \in 0 .. e - 1 /\ ~ (m <= k - 1) /\ k - 1 \in 0 .. n - 1 /\ k - 1 + 1 = k
      BY <1>1, <1>5, <1>9
    <3>2. Text(src[k - 1]) \notin {"<", ">"}
      BY <1>7, <3>1
    <3>3. l[k] \notin {"<", ">"}
      BY <1>2, <3>1, <3>2
    <3>4. ~ (l[k] = "&" /\ k = Len(l))
      BY <1>1, <1>4, <1>9 DEF e
    <3>5. QED
      BY <3>3, <3>4 DEF EndsAt
  <2>2. ASSUME m < Len(l) PROVE EndsAt(l, m + 1)
    <3>1. CASE m < e
      BY <1>10, <3>1 DEF EndsAt
    <3>2. CASE m = e
      <4>1. l[n] = "&" /\ m + 1 = n
        BY <1>1, <1>4, <1>9, <2>2, <3>2 DEF e
      <4>2. QED
        BY <4>1 DEF EndsAt
    <3>3. QED
      BY <1>5, <1>9, <3>1, <3>2
  <2>3. QED
    BY <1>1, <1>9, <2>1, <2>2 DEF IsStop
<1>12. m = Len(Words(l))
  BY <1>1, <1>11, WordsEnd, OneStop
<1>13. ASSUME m < n, l[m + 1] \in {"<", ">"} PROVE m < e
  <2>1. m = n - 1 => l[n] # "&"
    BY <1>1, <1>9, <1>13
  <2>2. QED
    BY <1>1, <1>4, <1>9, <1>13, <2>1 DEF e
<1>14. m < e <=> m < n /\ l[m + 1] \in {"<", ">"}
  BY <1>1, <1>5, <1>9, <1>10, <1>13
<1>15. QED
  BY <1>2, <1>3, <1>4, <1>8, <1>9, <1>12, <1>14 DEF e

\* The last "|" that parsing finds is that of the words.
LEMMA BarsFound ==
  ASSUME NEW w \in Seq(STRING), NEW src, \A i \in 0 .. Len(w) - 1 : Text(src[i]) = w[i + 1],
         NEW bars, bars = {i \in 0 .. Len(w) - 1 : Text(src[i]) = "|"}
  PROVE  /\ bars = {} <=> Bar(w) = 0
         /\ bars # {} => Max(bars) = Bar(w) - 1
<1>1. /\ Bar(w) \in 0 .. Len(w) /\ Len(w) \in Nat
      /\ Bar(w) # 0 => w[Bar(w)] = "|"
      /\ \A k \in Bar(w) + 1 .. Len(w) : w[k] # "|"
  BY BarFacts
<1>2. bars \in SUBSET (0 .. Len(w))
  BY <1>1
<1>3. \A i \in bars : i <= Bar(w) - 1
  <2> TAKE i \in bars
  <2>1. i \in 0 .. Len(w) - 1 /\ w[i + 1] = "|" /\ i + 1 \in 1 .. Len(w)
    BY <1>1
  <2>2. ~ (i + 1 \in Bar(w) + 1 .. Len(w))
    BY <1>1, <2>1
  <2>3. QED
    BY <1>1, <2>1, <2>2
<1>4. Bar(w) # 0 => Bar(w) - 1 \in bars
  BY <1>1
<1>5. bars # {} => Bar(w) # 0
  BY <1>1, <1>2, <1>3
<1>6. bars # {} => Max(bars) = Bar(w) - 1
  <2> HAVE bars # {}
  <2>1. Bar(w) - 1 \in bars /\ \A i \in bars : Bar(w) - 1 >= i
    BY <1>1, <1>2, <1>3, <1>4, <1>5
  <2>2. QED
    BY <1>1, <1>2, <2>1, MaxIs
<1>7. QED
  BY <1>4, <1>5, <1>6

-----------------------------------------------------------------------------
\* What parsing makes of line h, typed or recalled.
LEMMA ParseFacts ==
  ASSUME TypeOK, NEW h \in 1 .. Len(typed), NEW src \in ArraysOf(typed), IsLine(src, h),
         Parse(src, Len(typed[h])), UNCHANGED typed
  PROVE  /\ temp' \in ArraysOf(typed) /\ father' \in ArraysOf(typed) /\ child' \in ArraysOf(typed)
         /\ command'.ifpara \in BOOLEAN /\ command'.ifpipe \in BOOLEAN
         /\ command'.redirect \in PointersTo(typed) \cup {NULL}
         /\ command'.filename \in PointersTo(typed) \cup {NULL}
         /\ HasFlags(h)'
         /\ h = Len(typed) => HoldsWords(h)'
         /\ len = 1 /\ HoldsWords(h) => HoldsWords(h)'
<1> DEFINE l == typed[h]
           n == Len(l)
           stop == Stop(src, n)
           end == End(src, n)
           w == Words(l)
           bar == Bar(w)
           bars == {i \in 0 .. stop - 1 : Text(src[i]) = "|"}
<1>1. typed \in Seq(Lines) /\ l \in Seq(STRING) /\ n \in 1 .. MaxArgs /\ n \in Nat /\ MaxArgs \in Nat
  BY LineFacts, ShellAssumption DEF TypeOK
<1>2. /\ stop = Len(w) /\ stop \in 0 .. end
      /\ end = IF l[n] = "&" THEN n - 1 ELSE n
      /\ stop < end <=> stop < n /\ l[stop + 1] \in {"<", ">"}
      /\ \A i \in 0 .. n - 1 : Text(src[i]) = l[i + 1]
  <2>1. typed \in Seq(Lines) /\ l = typed[h] /\ n = Len(l) /\ w = Words(l)
    BY <1>1
  <2> HIDE DEF l, n, w
  <2>2. QED
    BY <2>1, StopFacts
<1>3. /\ temp' = NewTemp(src, stop)
      /\ father' = IF bars = {} THEN father ELSE NewFather(temp', Max(bars))
      /\ child' = IF bars = {} THEN child ELSE NewChild(temp', Max(bars))
      /\ command' = [ifpara |-> Background(src, n), ifpipe |-> bars # {},
                     redirect |-> IF stop < end THEN src[stop] ELSE NULL,
                     filename |-> IF stop < end THEN src[stop + 1] ELSE NULL]
  BY DEF Parse
<1>4. /\ temp \in ArraysOf(typed) /\ father \in ArraysOf(typed) /\ child \in ArraysOf(typed)
      /\ \A i \in 0 .. n - 1 : src[i] = <<h, i>>
      /\ src[n] = NULL
  BY DEF TypeOK, IsLine
<1>5. \A i \in 0 .. n - 1 : <<h, i>> \in PointersTo(typed) /\ <<h, i>> # NULL
  BY <1>1, PointerTo
<1>6. w \in Seq(STRING) /\ w = [k \in 1 .. Len(w) |-> l[k]]
  BY <1>1, WordsEnd
<1> HIDE DEF l, n, stop, end, w, bar
<1>7. stop \in 0 .. n /\ stop \in Nat
  BY <1>1, <1>2
<1>8. \A i \in 0 .. Len(w) - 1 : Text(src[i]) = w[i + 1]
  <2> TAKE i \in 0 .. Len(w) - 1
  <2>1. i \in 0 .. n - 1 /\ i + 1 \in 1 .. Len(w)
    BY <1>1, <1>2, <1>7
  <2>2. w[i + 1] = l[i + 1]
    BY <1>6, <2>1
  <2>3. QED
    BY <1>2, <2>1, <2>2
<1>9. (bars = {} <=> bar = 0) /\ (bars # {} => Max(bars) = bar - 1) /\ bar \in 0 .. stop
  <2>1. bars = {i \in 0 .. Len(w) - 1 : Text(src[i]) = "|"}
    BY <1>2
  <2> HIDE DEF bars
  <2>2. w \in Seq(STRING)
    BY <1>6
  <2>3. (bars = {} <=> Bar(w) = 0) /\ (bars # {} => Max(bars) = Bar(w) - 1)
    BY <1>8, <2>1, <2>2, BarsFound
  <2>5. Bar(w) \in 0 .. Len(w)
    BY <2>2, BarFacts
  <2>6. QED
    BY <1>2, <2>3, <2>5 DEF bar
<1> HIDE DEF bars
<1>10. /\ \A i \in 0 .. stop - 1 : temp'[i] = <<h, i>>
       /\ temp'[stop] = NULL
       /\ temp' \in ArraysOf(typed)
  <2>1. temp' = [i \in Slots |-> CASE i < stop -> src[i] [] i = stop -> NULL [] i > stop -> temp[i]]
    BY <1>3 DEF NewTemp
  <2>2. \A i \in 0 .. stop - 1 : i \in Slots /\ temp'[i] = <<h, i>>
    BY <1>1, <1>4, <1>7, <2>1 DEF Slots
  <2>3. temp'[stop] = NULL
    BY <1>1, <1>7, <2>1 DEF Slots
  <2>4. \A i \in Slots : temp'[i] \in PointersTo(typed) \cup {NULL}
    <3> TAKE i \in Slots
    <3>1. i \in Nat /\ src[i] \in PointersTo(typed) \cup {NULL} /\ temp[i] \in PointersTo(typed) \cup {NULL}
      BY <1>4 DEF Slots, ArraysOf
    <3>2. QED
      BY <1>7, <2>1, <3>1
  <2>5. temp'[MaxArgs] = NULL
    BY <1>1, <1>4, <1>7, <2>1 DEF Slots, ArraysOf
  <2>6. QED
    BY <2>1, <2>2, <2>3, <2>4, <2>5 DEF ArraysOf
<1>11. /\ father' \in ArraysOf(typed)
       /\ bar # 0 => \A i \in 0 .. bar - 2 : father'[i] = <<h, i>>
  <2>1. CASE bar = 0
    BY <1>3, <1>4, <1>9, <2>1
  <2>2. CASE bar # 0
    <3>1. father' = [i \in Slots |-> IF i < bar - 1 THEN temp'[i] ELSE father[i]]
      BY <1>3, <1>9, <2>2 DEF NewFather
    <3>2. bar - 1 \in 0 .. stop - 1 /\ stop - 1 < MaxArgs
      BY <1>1, <1>7, <1>9, <2>2
    <3>3. father' \in ArraysOf(typed)
      BY <1>1, <1>4, <1>10, <3>1, <3>2 DEF Slots, ArraysOf
    <3>4. \A i \in 0 .. bar - 2 : father'[i] = <<h, i>>
      <4> TAKE i \in 0 .. bar - 2
      <4>1. i \in Slots /\ i < bar - 1 /\ i \in 0 .. stop - 1
        BY <1>1, <1>7, <1>9, <3>2 DEF Slots
      <4>2. QED
        BY <1>10, <3>1, <4>1
    <3>5. QED
      BY <3>3, <3>4
  <2>3. QED
    BY <2>1, <2>2
<1>12. len \in 1 .. MaxArgs
  <2>1. Len(typed) \in 1 .. Len(typed)
    BY <1>1
  <2>2. Line = typed[Len(typed)]
    BY DEF Line, Last
  <2>3. QED
    BY <1>1, <2>1, <2>2, LineFacts DEF len
<1>13. ASSUME bar # 0
       PROVE  child' = [i \in Slots |-> IF i + bar < len THEN temp'[i + bar] ELSE child[i]]
  <2>1. \A i \in Slots : i + (bar - 1) + 1 = i + bar
    BY <1>1, <1>9, <1>7 DEF Slots
  <2>2. child' = [i \in Slots |-> IF i + (bar - 1) + 1 < len THEN temp'[i + (bar - 1) + 1] ELSE child[i]]
    BY <1>3, <1>9, <1>13 DEF NewChild
  <2>3. QED
    BY <2>1, <2>2
<1>14. child' \in ArraysOf(typed)
  <2>1. CASE bar = 0
    BY <1>3, <1>4, <1>9, <2>1
  <2>2. CASE bar # 0
    <3>1. child' = [i \in Slots |-> IF i + bar < len THEN temp'[i + bar] ELSE child[i]]
      BY <1>13, <2>2
    <3>2. \A i \in Slots : i + bar < len => i + bar \in Slots
      BY <1>1, <1>7, <1>9, <1>12 DEF Slots
    <3>3. \A i \in Slots : child'[i] \in PointersTo(typed) \cup {NULL}
      BY <1>4, <1>10, <3>1, <3>2 DEF ArraysOf
    <3>4. MaxArgs \in Slots /\ ~ (MaxArgs + bar < len)
      BY <1>1, <1>7, <1>9, <1>12 DEF Slots
    <3>5. child'[MaxArgs] = NULL
      BY <1>4, <3>1, <3>4 DEF ArraysOf
    <3>6. QED
      BY <3>1, <3>3, <3>5 DEF ArraysOf
  <2>3. QED
    BY <2>1, <2>2
<1>15. ASSUME h = Len(typed), bar # 0
       PROVE  \A i \in 0 .. stop - bar - 1 : child'[i] = <<h, i + bar>>
  <2> TAKE i \in 0 .. stop - bar - 1
  <2>1. len = n
    BY <1>15 DEF len, Line, Last, n, l
  <2>2. i \in Slots /\ i + bar < len /\ i + bar \in 0 .. stop - 1
    BY <1>1, <1>7, <1>9, <2>1 DEF Slots
  <2>3. QED
    BY <1>10, <1>13, <1>15, <2>2
<1>16. ASSUME len = 1, HoldsWords(h), bar # 0
       PROVE  \A i \in 0 .. stop - bar - 1 : child'[i] = <<h, i + bar>>
  <2> TAKE i \in 0 .. stop - bar - 1
  <2>1. i \in Slots /\ ~ (i + bar < len)
    BY <1>1, <1>7, <1>9, <1>16 DEF Slots
  <2>2. child'[i] = child[i]
    BY <1>13, <1>16, <2>1
  <2>3. child[i] = <<h, i + bar>>
    BY <1>2, <1>16 DEF HoldsWords, w, l, bar
  <2>4. QED
    BY <2>2, <2>3
<1>17. ASSUME bar # 0 => \A i \in 0 .. stop - bar - 1 : child'[i] = <<h, i + bar>>
       PROVE  HoldsWords(h)'
  BY <1>2, <1>10, <1>11, <1>17 DEF HoldsWords, w, l, bar
<1>18. /\ command'.ifpara \in BOOLEAN /\ command'.ifpipe \in BOOLEAN
       /\ command'.ifpipe <=> bar # 0
       /\ command'.redirect = IF stop < end THEN src[stop] ELSE NULL
       /\ command'.filename = IF stop < end THEN src[stop + 1] ELSE NULL
  BY <1>3, <1>9 DEF Background
<1>19. ASSUME stop < end
       PROVE  src[stop] = <<h, stop>> /\ src[stop + 1] = IF stop + 1 < n THEN <<h, stop + 1>> ELSE NULL
  <2>1. stop \in 0 .. n - 1
    BY <1>1, <1>2, <1>7, <1>19
  <2>2. stop + 1 = n \/ (stop + 1 < n /\ stop + 1 \in 0 .. n - 1)
    BY <1>1, <2>1
  <2>3. ~ (n < n)
    BY <1>1
  <2>4. QED
    BY <1>4, <2>1, <2>2, <2>3
<1>20. HasFlags(h)'
  BY <1>2, <1>18, <1>19 DEF HasFlags, w, l, bar, n
<1>21. /\ command'.redirect \in PointersTo(typed) \cup {NULL}
       /\ command'.filename \in PointersTo(typed) \cup {NULL}
  <2>1. CASE stop < end
    <3>1. stop \in 0 .. n - 1 /\ (stop + 1 < n => stop + 1 \in 0 .. n - 1)
      BY <1>1, <1>2, <1>7, <2>1
    <3>2. QED
      BY <1>5, <1>18, <1>19, <2>1, <3>1
  <2>2. CASE ~ (stop < end)
    BY <1>18, <2>2
  <2>3. QED
    BY <2>1, <2>2
<1>22. QED
  BY <1>10, <1>11, <1>14, <1>15, <1>16, <1>17, <1>18, <1>20, <1>21

-----------------------------------------------------------------------------
MainInv == TypeOK /\ HistoryInv /\ ParsedInv

\* The last line that is not "!!", among the first n.
LEMMA LastOwn ==
  ASSUME NEW n \in Nat, Own(n) # {}
  PROVE  Max(Own(n)) \in 1 .. n /\ typed[Max(Own(n))] # Recall
<1>1. Own(n) \in SUBSET (0 .. n)
  BY DEF Own
<1>2. Max(Own(n)) \in Own(n)
  BY <1>1, MaxFacts
<1>3. QED
  BY <1>2 DEF Own

\* One line more is the last such line, or changes nothing.
LEMMA OwnNext ==
  ASSUME NEW n \in Nat \ {0}
  PROVE  /\ typed[n] # Recall => Own(n) # {} /\ Max(Own(n)) = n
         /\ typed[n] = Recall => Own(n) = Own(n - 1)
<1>1. ASSUME typed[n] # Recall PROVE Own(n) # {} /\ Max(Own(n)) = n
  <2>1. Own(n) \in SUBSET (0 .. n) /\ n \in Own(n) /\ \A y \in Own(n) : n >= y
    BY <1>1 DEF Own
  <2>2. QED
    BY <2>1, MaxIs
<1>2. ASSUME typed[n] = Recall PROVE Own(n) = Own(n - 1)
  <2>1. \A k : k \in 1 .. n <=> k \in 1 .. n - 1 \/ k = n
    OBVIOUS
  <2>2. QED
    BY <1>2, <2>1 DEF Own
<1>3. QED
  BY <1>1, <1>2

\* Nothing is typed, kept or taken apart at the start.
LEMMA MainStart == Init => MainInv
<1> SUFFICES ASSUME Init PROVE MainInv
  OBVIOUS
<1>1. typed = <<>> /\ Len(typed) = 0 /\ 1 .. 0 = {} /\ MaxArgs \in Nat
  BY ShellAssumption DEF Init
<1>2. NoWords \in ArraysOf(typed)
  BY <1>1 DEF NoWords, ArraysOf, Slots
<1>3. Own(Len(typed)) = {} /\ Kept = Len(typed) /\ Taken = Len(typed)
  BY <1>1 DEF Own, Kept, Taken, Init
<1>4. TypeOK
  <2>1. typed \in Seq(Lines) /\ jobs \in Seq(Jobs)
    BY DEF Init
  <2>2. QED
    BY <1>2, <2>1 DEF Init, TypeOK, Places, NoFlags
<1>5. HistoryInv
  BY <1>2, <1>3 DEF Init, HistoryInv, NoWords
<1>6. ParsedInv
  BY <1>3 DEF Init, ParsedInv
<1>7. QED
  BY <1>4, <1>5, <1>6 DEF MainInv

\* Steps that leave the arrays alone.
LEMMA SameWords ==
  ASSUME MainInv, UNCHANGED <<typed, arrays, parsed>>, TypeOK',
         \/ pc' = pc
         \/ pc = "prompt" /\ pc' = "exited"
         \/ pc \in {"fork", "signal", "wait"} /\ pc' \in {"signal", "wait", "save"}
  PROVE  MainInv'
<1> USE DEF arrays, parsed
<1>1. Kept' = Kept /\ Taken' = Taken /\ (pc' = "fork" => pc = "fork")
  BY DEF Kept, Taken
<1>2. \A n : Own(n)' = Own(n)
  BY DEF Own
<1>3. HistoryInv'
  BY <1>1, <1>2 DEF MainInv, HistoryInv, IsLine
<1>4. ParsedInv'
  BY <1>1, <1>2 DEF MainInv, ParsedInv, HoldsWords, HasFlags
<1>5. QED
  BY <1>3, <1>4 DEF MainInv

\* A line is typed: the history and the arrays stay as the line before left them.
LEMMA ReadLineStep ==
  ASSUME MainInv, NEW l \in Lines \cup {<<"exit">>}, ReadLine(l)
  PROVE  MainInv'
<1> USE DEF arrays, parsed, MainGoto
<1>1. CASE l = <<"exit">>
  <2>1. TypeOK'
    BY <1>1 DEF MainInv, TypeOK, ReadLine, Places
  <2>2. QED
    BY <1>1, <2>1, SameWords DEF ReadLine
<1>2. CASE l # <<"exit">>
  <2>1. /\ pc = "prompt" /\ pc' = "parse" /\ l \in Lines
        /\ typed \in Seq(Lines) /\ Len(typed) \in Nat /\ typed' = Append(typed, l)
        /\ UNCHANGED <<arrays, parsed, jobs>>
    BY <1>2 DEF MainInv, TypeOK, ReadLine
  <2>2. /\ typed' \in Seq(Lines) /\ Len(typed') = Len(typed) + 1
        /\ \A h \in 1 .. Len(typed) : typed'[h] = typed[h]
        /\ PointersTo(typed) \subseteq PointersTo(typed')
        /\ ArraysOf(typed) \subseteq ArraysOf(typed')
    BY <2>1, OlderLines
  <2>3. Kept = Len(typed) /\ Kept' = Len(typed) /\ Taken = Len(typed) /\ Taken' = Len(typed)
    BY <2>1, <2>2 DEF Kept, Taken
  <2>4. Own(Kept)' = Own(Kept) /\ Own(Taken)' = Own(Taken)
    BY <2>2, <2>3 DEF Own
  <2>5. TypeOK'
    <3>1. typed' # <<>>
      BY <2>1, <2>2
    <3>2. QED
      BY <2>1, <2>2, <3>1 DEF MainInv, TypeOK, Places
  <2>6. HistoryInv'
    <3>1. HistoryInv
      BY DEF MainInv
    <3>2. ASSUME Own(Kept) # {}
          PROVE  IsLine(buffer, Max(Own(Kept)))' /\ buffer_len' = Len(typed[Max(Own(Kept))])'
      <4>1. Max(Own(Kept)) \in 1 .. Len(typed)
        BY <2>1, <2>3, <3>2, LastOwn
      <4>2. typed'[Max(Own(Kept))] = typed[Max(Own(Kept))]
        BY <2>2, <4>1
      <4>3. QED
        BY <2>1, <2>4, <3>1, <3>2, <4>2 DEF HistoryInv, IsLine
    <3>3. IF Own(Kept)' = {}
            THEN buffer' = NoWords
            ELSE IsLine(buffer, Max(Own(Kept)))' /\ buffer_len' = Len(typed[Max(Own(Kept))])'
      BY <2>1, <2>4, <3>1, <3>2 DEF HistoryInv
    <3>4. QED
      BY <2>1, <2>2, <2>3, <3>1, <3>3 DEF HistoryInv
  <2>7. ParsedInv'
    <3>1. ParsedInv
      BY DEF MainInv
    <3>2. ASSUME Own(Taken) # {} PROVE HoldsWords(Max(Own(Taken)))'
      <4>1. Max(Own(Taken)) \in 1 .. Len(typed)
        BY <2>1, <2>3, <3>2, LastOwn
      <4>2. typed'[Max(Own(Taken))] = typed[Max(Own(Taken))]
        BY <2>2, <4>1
      <4>3. QED
        BY <2>1, <2>4, <3>1, <3>2, <4>2 DEF ParsedInv, HoldsWords
    <3>3. QED
      BY <2>1, <2>4, <3>1, <3>2 DEF ParsedInv
  <2>8. QED
    BY <2>5, <2>6, <2>7 DEF MainInv
<1>3. QED
  BY <1>1, <1>2

\* The line being run, which is the last one that was typed.
LEMMA LineIs ==
  ASSUME TypeOK, typed # <<>>
  PROVE  /\ Len(typed) \in Nat \ {0} /\ Len(typed) \in 1 .. Len(typed)
         /\ Line = typed[Len(typed)] /\ len = Len(typed[Len(typed)])
         /\ len \in 1 .. MaxArgs /\ MaxArgs \in Nat
         /\ args \in ArraysOf(typed) /\ IsLine(args, Len(typed))
<1>1. /\ typed \in Seq(Lines) /\ Len(typed) \in Nat \ {0} /\ Len(typed) \in 1 .. Len(typed)
  BY DEF TypeOK
<1>2. Line = typed[Len(typed)] /\ len = Len(typed[Len(typed)])
  BY DEF Line, len, Last
<1>3. len \in 1 .. MaxArgs /\ MaxArgs \in Nat
  BY <1>1, <1>2, LineFacts, ShellAssumption
<1>4. \A i \in 0 .. len - 1 : <<Len(typed), i>> \in PointersTo(typed)
  BY <1>1, <1>2, PointerTo
<1>5. \A i \in Slots : i < len => i \in 0 .. len - 1
  BY <1>3 DEF Slots
<1>6. args \in ArraysOf(typed)
  BY <1>3, <1>4, <1>5 DEF args, ArraysOf, Slots
<1>7. IsLine(args, Len(typed))
  BY <1>2, <1>3 DEF args, IsLine, Slots
<1>8. QED
  BY <1>1, <1>2, <1>3, <1>6, <1>7

\* The history is empty exactly as long as every line was "!!".
LEMMA HistoryFacts ==
  ASSUME TypeOK, HistoryInv, NEW n \in 0 .. Len(typed), Kept = n
  PROVE  /\ Own(n) = {} => buffer[0] = NULL
         /\ Own(n) # {} => /\ buffer[0] # NULL /\ Max(Own(n)) \in 1 .. Len(typed)
                           /\ IsLine(buffer, Max(Own(n)))
                           /\ buffer_len = Len(typed[Max(Own(n))])
<1>1. typed \in Seq(Lines) /\ n \in Nat /\ Len(typed) \in Nat /\ 0 \in Slots
  BY ShellAssumption DEF TypeOK, Slots
<1>2. CASE Own(n) = {}
  BY <1>1, <1>2 DEF HistoryInv, NoWords
<1>3. CASE Own(n) # {}
  <2> DEFINE h == Max(Own(n))
  <2>1. h \in 1 .. Len(typed)
    BY <1>1, <1>3, LastOwn
  <2>2. IsLine(buffer, h) /\ buffer_len = Len(typed[h])
    BY <1>3 DEF HistoryInv
  <2>3. 0 \in 0 .. Len(typed[h]) - 1
    BY <1>1, <2>1, LineFacts, ShellAssumption
  <2>4. buffer[0] # NULL
    BY <1>1, <2>1, <2>2, <2>3, PointerTo DEF IsLine
  <2>5. QED
    BY <1>3, <2>1, <2>2, <2>4
<1>4. QED
  BY <1>2, <1>3

\* The line, or what "!!" recalls, is taken apart.
LEMMA ParseLineStep ==
  ASSUME MainInv, ParseLine
  PROVE  MainInv'
<1> DEFINE n == Len(typed)
<1>1. /\ TypeOK /\ HistoryInv /\ ParsedInv
      /\ pc = "parse" /\ pc' = "fork" /\ UNCHANGED <<typed, arrays, jobs, signals>>
  BY DEF MainInv, ParseLine, MainGoto
<1>2. typed # <<>>
  BY <1>1 DEF TypeOK
<1>3. /\ n \in Nat \ {0} /\ n \in 1 .. n /\ Line = typed[n] /\ len = Len(typed[n])
      /\ args \in ArraysOf(typed) /\ IsLine(args, n)
  BY <1>1, <1>2, LineIs
<1>4. Kept = n - 1 /\ Taken = n - 1 /\ Kept' = n - 1 /\ Taken' = n
  BY <1>1 DEF Kept, Taken
<1>5. \A m : Own(m)' = Own(m)
  BY <1>1 DEF Own
<1>6. HistoryInv'
  BY <1>1, <1>4, <1>5 DEF HistoryInv, IsLine, arrays
<1>7. ASSUME NEW h \in 1 .. n, NEW src \in ArraysOf(typed), IsLine(src, h),
             Parse(src, Len(typed[h])),
             Own(n) # {}, Max(Own(n)) = h,
             h = n \/ (len = 1 /\ HoldsWords(h))
      PROVE  MainInv'
  <2>1. /\ temp' \in ArraysOf(typed) /\ father' \in ArraysOf(typed) /\ child' \in ArraysOf(typed)
        /\ command'.ifpara \in BOOLEAN /\ command'.ifpipe \in BOOLEAN
        /\ command'.redirect \in PointersTo(typed) \cup {NULL}
        /\ command'.filename \in PointersTo(typed) \cup {NULL}
        /\ HasFlags(h)' /\ HoldsWords(h)'
    BY <1>1, <1>7, ParseFacts
  <2>2. TypeOK'
    BY <1>1, <1>2, <2>1 DEF TypeOK, Places
  <2>3. ParsedInv'
    BY <1>4, <1>5, <1>7, <2>1 DEF ParsedInv
  <2>4. QED
    BY <1>6, <2>2, <2>3 DEF MainInv
<1>8. CASE Line # Recall
  BY <1>3, <1>7, <1>8, OwnNext DEF ParseLine
<1>9. CASE Line = Recall
  <2>1. Own(n) = Own(n - 1) /\ len = 1
    <3>1. typed[n] = Recall
      BY <1>3, <1>9
    <3>2. Own(n) = Own(n - 1)
      BY <1>3, <3>1, OwnNext
    <3>3. Len(Recall) = 1
      BY DEF Recall
    <3>4. QED
      BY <1>3, <3>1, <3>2, <3>3
  <2>2. n - 1 \in 0 .. Len(typed) /\ n - 1 \in Nat
    BY <1>3
  <2>3. CASE Own(n) # {}
    <3>1. /\ buffer[0] # NULL /\ Max(Own(n)) \in 1 .. n
          /\ IsLine(buffer, Max(Own(n))) /\ buffer_len = Len(typed[Max(Own(n))])
      BY <1>1, <1>4, <2>1, <2>2, <2>3, HistoryFacts
    <3>2. Parse(buffer, buffer_len)
      BY <1>9, <3>1 DEF ParseLine
    <3>3. HoldsWords(Max(Own(n)))
      BY <1>1, <1>4, <2>1, <2>3 DEF ParsedInv
    <3>4. buffer \in ArraysOf(typed)
      BY <1>1 DEF HistoryInv
    <3>5. QED
      BY <1>7, <2>1, <2>3, <3>1, <3>2, <3>3, <3>4
  <2>4. CASE Own(n) = {}
    <3>1. buffer[0] = NULL
      BY <1>1, <1>4, <2>1, <2>2, <2>4, HistoryFacts
    <3>2. command' = NoFlags /\ UNCHANGED <<temp, father, child>>
      BY <1>9, <3>1 DEF ParseLine
    <3>3. TypeOK'
      BY <1>1, <1>2, <3>2 DEF TypeOK, Places, NoFlags
    <3>4. temp = NoWords
      BY <1>1, <1>4, <2>1, <2>4 DEF ParsedInv
    <3>5. ParsedInv'
      BY <1>4, <1>5, <2>4, <3>2, <3>4 DEF ParsedInv, NoWords
    <3>6. QED
      BY <1>6, <3>3, <3>5 DEF MainInv
  <2>5. QED
    BY <2>3, <2>4
<1>10. QED
  BY <1>8, <1>9

\* What the line overwrites in the history is freed, and nothing else.
LEMMA SaveHistoryStep ==
  ASSUME MainInv, SaveHistory
  PROVE  MainInv'
<1> DEFINE n == Len(typed)
<1>1. /\ TypeOK /\ HistoryInv /\ ParsedInv
      /\ pc = "save" /\ pc' = "prompt" /\ UNCHANGED <<typed, parsed, jobs, signals>>
  BY DEF MainInv, SaveHistory, MainGoto
<1>2. /\ n \in Nat \ {0} /\ Line = typed[n] /\ len = Len(typed[n])
      /\ len \in 1 .. MaxArgs /\ MaxArgs \in Nat /\ args \in ArraysOf(typed) /\ IsLine(args, n)
  BY <1>1, LineIs DEF TypeOK
<1>3. Kept = n - 1 /\ Taken = n /\ Kept' = n /\ Taken' = n
  BY <1>1 DEF Kept, Taken
<1>4. \A m : Own(m)' = Own(m)
  BY <1>1 DEF Own
<1>5. TypeOK'
  BY <1>1 DEF TypeOK, Places, parsed
<1>6. ParsedInv'
  BY <1>1, <1>3, <1>4 DEF ParsedInv, HoldsWords, parsed
<1>7. CASE Line = Recall
  <2>1. Own(n) = Own(n - 1) /\ UNCHANGED arrays
    BY <1>2, <1>7, OwnNext DEF SaveHistory
  <2>2. \A m : m \in 1 .. n - 1 => m \in 1 .. n
    BY <1>2
  <2>3. freed \subseteq (1 .. n) \X Slots
    BY <1>1, <1>3, <2>2 DEF HistoryInv
  <2>4. HistoryInv'
    BY <1>1, <1>3, <1>4, <2>1, <2>2, <2>3 DEF HistoryInv, IsLine, arrays
  <2>5. QED
    BY <1>5, <1>6, <2>4 DEF MainInv
<1>8. CASE Line # Recall
  <2> DEFINE over == {buffer[k] : k \in Overwritten} \ {NULL}
  <2>1. /\ freed' = freed \cup over
        /\ buffer' = [k \in Slots |-> IF k \in Overwritten THEN args[k] ELSE buffer[k]]
        /\ buffer_len' = len
    BY <1>8 DEF SaveHistory
  <2>2. Overwritten = 0 .. len /\ Overwritten \subseteq Slots
    BY <1>2 DEF Overwritten, Slots
  <2>3. buffer' \in ArraysOf(typed')
    BY <1>1, <1>2, <2>1 DEF HistoryInv, ArraysOf, Slots
  <2>4. \A p \in over : \E m \in 1 .. n - 1, k \in Overwritten : p = <<m, k>>
    <3> TAKE p \in over
    <3>1. PICK k \in Overwritten : p = buffer[k] /\ p # NULL
      OBVIOUS
    <3>2. \E m \in 1 .. n - 1 : buffer[k] = <<m, k>>
      BY <1>1, <1>3, <2>2, <3>1 DEF HistoryInv
    <3>3. QED
      BY <3>1, <3>2
  <2>5. freed \subseteq (1 .. n - 1) \X Slots
    BY <1>1, <1>3 DEF HistoryInv
  <2>6. freed' \subseteq (1 .. n) \X Slots
    <3>1. \A m : m \in 1 .. n - 1 => m \in 1 .. n
      BY <1>2
    <3>2. over \subseteq (1 .. n) \X Slots
      BY <2>2, <2>4, <3>1
    <3>3. freed \subseteq (1 .. n) \X Slots
      BY <2>5, <3>1
    <3>4. QED
      BY <2>1, <3>2, <3>3
  <2> HIDE DEF over
  <2>7. ASSUME NEW k \in Slots, buffer'[k] # NULL
        PROVE  buffer'[k] \notin freed' /\ \E m \in 1 .. n : buffer'[k] = <<m, k>>
    <3>1. CASE k \in Overwritten
      <4>1. buffer'[k] = <<n, k>>
        BY <1>2, <2>1, <2>7, <3>1 DEF args
      <4>2. n \notin 1 .. n - 1
        BY <1>2
      <4>3. <<n, k>> \notin over
        BY <2>4, <4>2
      <4>4. <<n, k>> \notin freed
        BY <2>5, <4>2
      <4>5. n \in 1 .. n
        BY <1>2
      <4>6. QED
        BY <2>1, <4>1, <4>3, <4>4, <4>5
    <3>2. CASE k \notin Overwritten
      <4>1. buffer'[k] = buffer[k] /\ buffer[k] # NULL
        BY <2>1, <2>7, <3>2
      <4>2. PICK m \in 1 .. n - 1 : buffer[k] = <<m, k>>
        BY <1>1, <1>3, <4>1 DEF HistoryInv
      <4>3. buffer[k] \notin over
        BY <2>4, <3>2, <4>2
      <4>4. buffer[k] \notin freed
        BY <1>1, <4>1 DEF HistoryInv
      <4>5. m \in 1 .. n
        BY <1>2
      <4>6. QED
        BY <2>1, <4>1, <4>2, <4>3, <4>4, <4>5
    <3>3. QED
      BY <3>1, <3>2
  <2>8. IsLine(buffer, n)'
    <3>1. \A i \in 0 .. len : i \in Slots /\ buffer'[i] = args[i]
      BY <2>1, <2>2
    <3>2. len \in 0 .. len /\ \A i \in 0 .. len - 1 : i \in 0 .. len
      BY <1>2
    <3>3. QED
      BY <1>1, <1>2, <3>1, <3>2 DEF IsLine
  <2>9. Own(n) # {} /\ Max(Own(n)) = n
    BY <1>2, <1>8, OwnNext
  <2>10. HistoryInv'
    BY <1>1, <1>2, <1>3, <1>4, <2>1, <2>3, <2>6, <2>7, <2>8, <2>9 DEF HistoryInv
  <2>11. QED
    BY <1>5, <1>6, <2>10 DEF MainInv
<1>9. QED
  BY <1>7, <1>8

LEMMA ShortSequences ==
  ASSUME NEW S, NEW x \in S, NEW y \in S
  PROVE  <<x>> \in Seq(S) /\ <<x, y>> \in Seq(S)
OBVIOUS

\* What a child is forked with.
NewJob ==
  [state |-> "running", line |-> Len(typed), ifpara |-> command.ifpara,
   argv |-> Executed(IF command.ifpipe THEN child ELSE temp),
   left |-> IF command.ifpipe THEN Executed(father) ELSE <<>>,
   files |-> IF command.ifpipe THEN <<>> ELSE Redirection]

LEMMA NewJobType == TypeOK => NewJob \in Jobs
<1> SUFFICES ASSUME TypeOK PROVE NewJob \in Jobs
  OBVIOUS
<1>1. 0 \in Slots /\ typed \in Seq(Lines) /\ Len(typed) \in Nat
  BY ShellAssumption DEF Slots, TypeOK
<1>2. ASSUME NEW a \in ArraysOf(typed) PROVE Executed(a) \in Seq(Texts)
  BY <1>1, ExecutedFacts
<1>3. \A p \in PointersTo(typed) : Text(p) \in STRING
  BY <1>1, PointerFacts
<1>4. Redirection \in Seq(STRING)
  <2> DEFINE r == command.redirect
             f == command.filename
  <2>1. r \in PointersTo(typed) \cup {NULL} /\ f \in PointersTo(typed) \cup {NULL}
    BY DEF TypeOK
  <2>2. /\ r = NULL => Redirection = <<>>
        /\ r # NULL /\ f = NULL => Redirection = <<Text(r)>>
        /\ r # NULL /\ f # NULL => Redirection = <<Text(r), Text(f)>>
    BY DEF Redirection
  <2> HIDE DEF r, f
  <2>3. CASE r = NULL
    BY <2>2, <2>3
  <2>4. CASE r # NULL /\ f = NULL
    <3>1. Text(r) \in STRING
      BY <1>3, <2>1, <2>4
    <3>2. QED
      BY <2>2, <2>4, <3>1, ShortSequences
  <2>5. CASE r # NULL /\ f # NULL
    <3>1. Text(r) \in STRING /\ Text(f) \in STRING
      BY <1>3, <2>1, <2>5
    <3>2. QED
      BY <2>2, <2>5, <3>1, ShortSequences
  <2>6. QED
    BY <2>3, <2>4, <2>5
<1>5. Executed(IF command.ifpipe THEN child ELSE temp) \in Seq(Texts)
  BY <1>2 DEF TypeOK
<1>6. (IF command.ifpipe THEN Executed(father) ELSE <<>>) \in Seq(Texts)
  BY <1>2 DEF TypeOK
<1>7. (IF command.ifpipe THEN <<>> ELSE Redirection) \in Seq(STRING)
  <2>1. <<>> \in Seq(STRING)
    OBVIOUS
  <2>2. QED
    BY <1>4, <2>1, Zenon
<1>8. command.ifpara \in BOOLEAN /\ "running" \in States
  BY DEF TypeOK, States
<1>9. QED
  BY <1>1, <1>5, <1>6, <1>7, <1>8 DEF NewJob, Jobs

\* All that happens to the jobs is that one is added, or one changes its state.
JobsChange ==
  \/ jobs' = jobs
  \/ pc = "fork" /\ jobs' = Append(jobs, NewJob)
  \/ \E j \in 1 .. Len(jobs), s \in States : jobs' = [jobs EXCEPT ![j].state = s]

LEMMA JobsStep ==
  ASSUME TypeOK, [Next]_vars
  PROVE  JobsChange /\ jobs' \in Seq(Jobs)
<1>1. jobs \in Seq(Jobs) /\ DOMAIN jobs = 1 .. Len(jobs) /\ Len(jobs) \in Nat
  BY DEF TypeOK
<1>2. JobsChange
  <2>1. ASSUME ForkChild PROVE JobsChange
    BY <2>1 DEF ForkChild, MainGoto, JobsChange, NewJob
  <2>2. ASSUME WaitForChild PROVE JobsChange
    <3>1. jobs' = [jobs EXCEPT ![Len(jobs)].state = "reaped"]
      BY <2>2 DEF WaitForChild, Awaited
    <3>2. CASE Len(jobs) \in 1 .. Len(jobs)
      BY <3>1, <3>2 DEF JobsChange, States
    <3>3. CASE Len(jobs) \notin 1 .. Len(jobs)
      <4>1. jobs' = jobs
        BY <1>1, <3>1, <3>3
      <4>2. QED
        BY <4>1 DEF JobsChange
    <3>4. QED
      BY <3>2, <3>3
  <2>3. ASSUME HandlerReaps PROVE JobsChange
    <3>1. \E j \in 1 .. Len(jobs) : jobs' = [jobs EXCEPT ![j].state = "reaped"]
      BY <1>1, <2>3 DEF HandlerReaps, Unreaped
    <3>2. QED
      BY <3>1 DEF JobsChange, States
  <2>4. ASSUME NEW j \in DOMAIN jobs, ChildEnds(j) PROVE JobsChange
    <3>1. \E s \in States : jobs' = [jobs EXCEPT ![j].state = s]
      BY <2>4 DEF ChildEnds, States
    <3>2. QED
      BY <1>1, <3>1 DEF JobsChange
  <2>5. ASSUME UNCHANGED jobs PROVE JobsChange
    BY <2>5 DEF JobsChange
  <2>6. QED
    BY <2>1, <2>2, <2>3, <2>4, <2>5
    DEF Next, MainRuns, Handler, ReadLine, ParseLine, ForkFails, InstallHandler, SaveHistory,
        HandlerStarts, HandlerLeaves, Terminated, vars
<1>3. ASSUME jobs' = jobs PROVE jobs' \in Seq(Jobs)
  BY <1>1, <1>3
<1>4. ASSUME jobs' = Append(jobs, NewJob) PROVE jobs' \in Seq(Jobs)
  BY <1>1, <1>4, NewJobType, AppendProperties
<1>5. ASSUME NEW j \in 1 .. Len(jobs), NEW s \in States, jobs' = [jobs EXCEPT ![j].state = s]
      PROVE  jobs' \in Seq(Jobs)
  <2>1. jobs[j] \in Jobs
    BY <1>1
  <2>2. [jobs[j] EXCEPT !.state = s] \in Jobs
    BY <2>1 DEF Jobs
  <2>3. jobs' = [jobs EXCEPT ![j] = [jobs[j] EXCEPT !.state = s]]
    BY <1>5
  <2>4. QED
    BY <1>1, <2>2, <2>3, ExceptSeq
<1>6. QED
  BY <1>2, <1>3, <1>4, <1>5 DEF JobsChange

LEMMA StateOnly ==
  ASSUME NEW job \in Jobs, NEW s
  PROVE  /\ [job EXCEPT !.state = s].state = s
         /\ [job EXCEPT !.state = s].ifpara = job.ifpara
         /\ [job EXCEPT !.state = s].line = job.line
         /\ [job EXCEPT !.state = s].argv = job.argv
         /\ [job EXCEPT !.state = s].left = job.left
         /\ [job EXCEPT !.state = s].files = job.files
BY DEF Jobs

\* A job is forked as NewJob, and afterwards only its state changes.
LEMMA JobsOf ==
  ASSUME TypeOK, JobsChange
  PROVE  /\ Len(jobs) \in Nat /\ Len(jobs') \in {Len(jobs), Len(jobs) + 1}
         /\ \A j \in 1 .. Len(jobs) :
              /\ jobs'[j].ifpara = jobs[j].ifpara /\ jobs'[j].line = jobs[j].line
              /\ jobs'[j].argv = jobs[j].argv /\ jobs'[j].left = jobs[j].left
              /\ jobs'[j].files = jobs[j].files
         /\ Len(jobs') # Len(jobs) => pc = "fork" /\ jobs'[Len(jobs) + 1] = NewJob
<1>1. jobs \in Seq(Jobs) /\ Len(jobs) \in Nat /\ \A j \in 1 .. Len(jobs) : jobs[j] \in Jobs
  BY DEF TypeOK
<1>2. CASE jobs' = jobs
  BY <1>1, <1>2
<1>3. CASE pc = "fork" /\ jobs' = Append(jobs, NewJob)
  BY <1>1, <1>3, NewJobType, AppendProperties
<1>4. ASSUME NEW j \in 1 .. Len(jobs), NEW s \in States, jobs' = [jobs EXCEPT ![j].state = s]
      PROVE  /\ Len(jobs') = Len(jobs)
             /\ \A i \in 1 .. Len(jobs) :
                  /\ jobs'[i].ifpara = jobs[i].ifpara /\ jobs'[i].line = jobs[i].line
                  /\ jobs'[i].argv = jobs[i].argv /\ jobs'[i].left = jobs[i].left
                  /\ jobs'[i].files = jobs[i].files
  <2> DEFINE new == [jobs[j] EXCEPT !.state = s]
  <2>1. /\ Len(jobs') = Len(jobs)
        /\ \A i \in 1 .. Len(jobs) : jobs'[i] = IF i = j THEN new ELSE jobs[i]
    BY <1>1, <1>4
  <2>2. /\ new.ifpara = jobs[j].ifpara /\ new.line = jobs[j].line
        /\ new.argv = jobs[j].argv /\ new.left = jobs[j].left /\ new.files = jobs[j].files
    BY <1>1, StateOnly
  <2> HIDE DEF new
  <2>3. QED
    BY <2>1, <2>2
<1>5. QED
  BY <1>1, <1>2, <1>3, <1>4 DEF JobsChange

\* Every step keeps what the history and the arrays hold.
LEMMA MainStep ==
  ASSUME MainInv, [Next]_vars
  PROVE  MainInv'
<1>1. TypeOK /\ jobs' \in Seq(Jobs)
  BY JobsStep DEF MainInv
<1>2. ASSUME UNCHANGED <<typed, arrays, parsed>>,
             \/ pc' = pc
             \/ pc \in {"fork", "signal", "wait"} /\ pc' \in {"signal", "wait", "save"}
      PROVE  MainInv'
  <2>1. TypeOK'
    BY <1>1, <1>2 DEF TypeOK, Places, parsed
  <2>2. QED
    BY <1>2, <2>1, SameWords
<1>3. QED
  BY <1>2, ReadLineStep, ParseLineStep, SaveHistoryStep
  DEF Next, MainRuns, Handler, MainGoto, ForkChild, ForkFails, InstallHandler, WaitForChild,
      HandlerStarts, HandlerReaps, HandlerLeaves, ChildEnds, Terminated, vars

-----------------------------------------------------------------------------
\* The history at the prompt is the line before.
LEMMA HistoryIsOwned ==
  ASSUME MainInv
  PROVE  HistoryOwned
<1>1. TypeOK /\ HistoryInv /\ typed \in Seq(Lines) /\ Len(typed) \in Nat
  BY DEF MainInv, TypeOK
<1>2. \A k \in Slots : buffer[k] = NULL \/ buffer[k] \notin freed
  BY <1>1 DEF HistoryInv
<1>3. \A k, m \in Slots : k # m => buffer[k] = NULL \/ buffer[k] # buffer[m]
  <2> TAKE k, m \in Slots
  <2>1. buffer[k] # NULL => \E n \in 1 .. Kept : buffer[k] = <<n, k>>
    BY <1>1 DEF HistoryInv
  <2>2. buffer[m] # NULL => \E n \in 1 .. Kept : buffer[m] = <<n, m>>
    BY <1>1 DEF HistoryInv
  <2>3. QED
    BY <2>1, <2>2
<1>4. ASSUME pc = "prompt" PROVE Executed(buffer) = Meant(Len(typed))
  <2>1. Kept = Len(typed) /\ buffer \in ArraysOf(typed) /\ 0 \in Slots
    BY <1>1, <1>4, ShellAssumption DEF Kept, HistoryInv, Slots
  <2>2. CASE Own(Len(typed)) = {}
    <3>1. buffer[0] = NULL
      BY <1>1, <2>1, <2>2, HistoryFacts
    <3>2. Executed(buffer) \in Seq(Texts) /\ Len(Executed(buffer)) = 0
      BY <1>1, <2>1, <3>1, ExecutedFacts
    <3>3. QED
      BY <2>2, <3>2 DEF Meant, Own
  <2>3. CASE Own(Len(typed)) # {}
    <3> DEFINE h == Max(Own(Len(typed)))
               n == Len(typed[h])
    <3>1. h \in 1 .. Len(typed) /\ IsLine(buffer, h)
      BY <1>1, <2>1, <2>3, HistoryFacts
    <3>2. typed[h] \in Seq(STRING) /\ n \in 1 .. MaxArgs
      BY <1>1, <3>1, LineFacts
    <3> HIDE DEF h
    <3>3. \A i \in 0 .. n - 1 : buffer[i] = <<h, i>> /\ buffer[i] # NULL /\ Text(buffer[i]) = typed[h][i + 1]
      BY <1>1, <3>1, PointerTo DEF IsLine
    <3>4. n \in Slots /\ buffer[n] = NULL
      BY <3>1, <3>2, ShellAssumption DEF IsLine, Slots
    <3> HIDE DEF n
    <3>5. /\ Executed(buffer) \in Seq(Texts) /\ Len(Executed(buffer)) = n
          /\ \A k \in 1 .. n :
               Executed(buffer)[k] = IF buffer[k - 1] \in freed THEN Garbage ELSE Text(buffer[k - 1])
      BY <1>1, <2>1, <3>3, <3>4, ExecutedFacts
    <3>6. \A k \in 1 .. n : Executed(buffer)[k] = typed[h][k]
      <4> TAKE k \in 1 .. n
      <4>1. k - 1 \in 0 .. n - 1 /\ k - 1 \in Slots /\ k - 1 + 1 = k
        BY <3>2, ShellAssumption DEF n, Slots
      <4>2. buffer[k - 1] \notin freed /\ Text(buffer[k - 1]) = typed[h][k]
        BY <1>2, <3>3, <4>1
      <4>3. QED
        BY <3>5, <4>2
    <3>7. Executed(buffer) = typed[h]
      BY <3>2, <3>5, <3>6 DEF n
    <3>8. Meant(Len(typed)) = typed[h]
      BY <2>3 DEF Meant, Own, h
    <3>9. QED
      BY <3>7, <3>8
  <2>4. QED
    BY <2>2, <2>3
<1>5. QED
  BY <1>2, <1>3, <1>4 DEF HistoryOwned

(***************************************************************************)
(* The history is a line of its own: nothing in it was freed or is twice   *)
(* in it, so that the next line may free it, and "!!" finds in it what was *)
(* typed (osh.c:72-75, 231-239).                                           *)
(***************************************************************************)
THEOREM HistoryKept == Spec => []HistoryOwned
<1>1. MainInv /\ [Next]_vars => MainInv'
  BY MainStep
<1>2. MainInv => HistoryOwned
  BY HistoryIsOwned
<1>3. QED
  BY <1>1, <1>2, MainStart, PTL DEF Spec

-----------------------------------------------------------------------------
LEMMA PrefixIs ==
  ASSUME NEW S, NEW T, NEW s \in Seq(S), NEW t \in Seq(T), Len(s) <= Len(t),
         \A k \in 1 .. Len(s) : s[k] = t[k]
  PROVE  IsPrefix(s, t)
<1>1. Len(s) \in 0 .. Len(t) /\ Len(s) \in 0 .. Len(s)
  OBVIOUS
<1>2. SubSeq(s, 1, Len(s)) = [k \in 1 .. Len(s) |-> s[k]]
  BY <1>1, PartsOf
<1>3. SubSeq(t, 1, Len(s)) = [k \in 1 .. Len(s) |-> t[k]]
  BY <1>1, PartsOf
<1>4. [k \in 1 .. Len(s) |-> s[k]] = [k \in 1 .. Len(s) |-> t[k]]
  OBVIOUS
<1>5. QED
  BY <1>2, <1>3, <1>4 DEF IsPrefix

\* What a redirection says, read off the line.
LEMMA FilesAre ==
  ASSUME NEW l \in Seq(STRING), NEW s, s = Len(Words(l))
  PROVE  IF s < Len(l) /\ l[s + 1] \in {"<", ">"}
           THEN Files(l) = IF s + 1 < Len(l) THEN <<l[s + 1], l[s + 2]>> ELSE <<l[s + 1]>>
           ELSE Files(l) = <<>>
<1> DEFINE rest == SubSeq(l, s + 1, Len(l))
<1>1. s \in 0 .. Len(l) /\ Len(l) \in Nat /\ (s < Len(l) => EndsAt(l, s + 1))
  BY WordsEnd DEF IsStop
<1>2. rest = [k \in 1 .. Len(l) - s |-> l[s + k]]
  BY <1>1, PartsOf
<1>3. rest \in Seq(STRING) /\ Len(rest) = Len(l) - s
  <2>1. \A i \in s + 1 .. Len(l) : l[i] \in STRING
    BY <1>1
  <2>2. QED
    BY <1>1, <2>1, SubSeqProperties
<1>4. Files(l) = IF rest = <<>> \/ rest = <<"&">> THEN <<>>
                 ELSE SubSeq(rest, 1, Min({2, Len(rest)}))
  BY DEF Files
<1> HIDE DEF rest
<1>5. CASE s = Len(l)
  <2>1. rest = <<>>
    BY <1>1, <1>3, <1>5
  <2>2. QED
    BY <1>1, <1>4, <1>5, <2>1
<1>6. CASE s < Len(l) /\ l[s + 1] \notin {"<", ">"}
  <2>1. l[s + 1] = "&" /\ Len(rest) = 1
    BY <1>1, <1>3, <1>6 DEF EndsAt
  <2>2. rest[1] = "&"
    BY <1>1, <1>2, <2>1, <1>3
  <2>3. rest = <<"&">>
    BY <1>3, <2>1, <2>2
  <2>4. QED
    BY <1>4, <1>6, <2>3
<1>7. CASE s < Len(l) /\ l[s + 1] \in {"<", ">"}
  <2>1. Len(rest) >= 1 /\ rest[1] = l[s + 1] /\ Len(rest) \in Nat
    BY <1>1, <1>2, <1>3, <1>7
  <2>2. rest # <<>> /\ rest # <<"&">>
    BY <1>7, <2>1
  <2>3. Files(l) = SubSeq(rest, 1, Min({2, Len(rest)}))
    BY <1>4, <2>2
  <2>4. CASE Len(rest) = 1
    <3>1. Min({2, Len(rest)}) = 1
      BY <2>4, MinIs
    <3>2. SubSeq(rest, 1, 1) = [k \in 1 .. 1 |-> rest[k]]
      BY <1>3, <2>4, PartsOf
    <3>3. [k \in 1 .. 1 |-> rest[k]] = <<l[s + 1]>>
      BY <2>1
    <3>4. Len(l) - s = 1
      BY <1>3, <2>4, Zenon
    <3>5. ~ (s + 1 < Len(l))
      BY <1>1, <3>4
    <3>6. QED
      BY <1>7, <2>3, <3>1, <3>2, <3>3, <3>5
  <2>5. CASE Len(rest) # 1
    <3>1. Len(rest) >= 2 /\ s + 1 < Len(l) /\ 2 \in 1 .. Len(l) - s
      BY <1>1, <1>3, <2>1, <2>5
    <3>2. Min({2, Len(rest)}) = 2
      BY <2>1, <3>1, MinIs
    <3>3. rest[2] = l[s + 2]
      BY <1>2, <3>1
    <3>4. SubSeq(rest, 1, 2) = [k \in 1 .. 2 |-> rest[k]]
      BY <1>3, <2>1, <3>1, PartsOf
    <3>5. [k \in 1 .. 2 |-> rest[k]] = <<l[s + 1], l[s + 2]>>
      BY <2>1, <3>3
    <3>6. QED
      BY <1>7, <2>3, <3>1, <3>2, <3>4, <3>5
  <2>6. QED
    BY <2>4, <2>5
<1>8. QED
  BY <1>1, <1>5, <1>6, <1>7

\* An array that holds a part of line h, none of it freed, is executed as that.
PointsTo(a, h, from, n) == \A i \in 0 .. n - 1 : a[i] = <<h, i + from>>

Executes(a, h, from, n) ==
  /\ Executed(a) \in Seq(Texts) /\ n <= Len(Executed(a))
  /\ \A k \in 1 .. n : Executed(a)[k] = typed[h][from + k]
  /\ a[n] = NULL => Len(Executed(a)) = n

LEMMA ExecutesPart ==
  ASSUME typed \in Seq(Lines), NEW h \in 1 .. Len(typed), NEW a \in ArraysOf(typed),
         NEW from \in Nat, NEW n \in Nat, from + n <= Len(typed[h]),
         \A i \in 0 .. Len(typed[h]) - 1 : <<h, i>> \notin freed,
         PointsTo(a, h, from, n)
  PROVE  Executes(a, h, from, n)
<1>1. Len(typed[h]) \in 1 .. MaxArgs /\ MaxArgs \in Nat
  BY LineFacts, ShellAssumption
<1>2. \A i \in 0 .. n - 1 :
        /\ i + from \in 0 .. Len(typed[h]) - 1 /\ a[i] = <<h, i + from>>
        /\ <<h, i + from>> # NULL /\ Text(<<h, i + from>>) = typed[h][i + from + 1]
        /\ <<h, i + from>> \notin freed
  <2> TAKE i \in 0 .. n - 1
  <2>1. i + from \in 0 .. Len(typed[h]) - 1
    BY <1>1
  <2>2. QED
    BY <2>1, PointerTo DEF PointsTo
<1>3. n \in Slots
  BY <1>1 DEF Slots
<1>4. /\ Executed(a) \in Seq(Texts) /\ n <= Len(Executed(a))
      /\ a[n] = NULL => Len(Executed(a)) = n
      /\ \A k \in 1 .. n :
           Executed(a)[k] = IF a[k - 1] \in freed THEN Garbage ELSE Text(a[k - 1])
  <2>1. \A i \in 0 .. n - 1 : a[i] # NULL
    BY <1>2
  <2>2. QED
    BY <1>3, <2>1, ExecutedFacts
<1>5. \A k \in 1 .. n : Executed(a)[k] = typed[h][from + k]
  <2> TAKE k \in 1 .. n
  <2>1. k - 1 \in 0 .. n - 1 /\ (k - 1) + from + 1 = from + k
    OBVIOUS
  <2>2. a[k - 1] \notin freed /\ Text(a[k - 1]) = typed[h][from + k]
    BY <1>2, <2>1
  <2>3. QED
    BY <1>4, <2>2
<1>6. QED
  BY <1>4, <1>5 DEF Executes

\* What is forked runs the words that were meant.
RunsWords(job, l) ==
  LET words == Words(l)
  IN  IF Bar(words) = 0
        THEN job.argv = words /\ job.files = Files(l)
        ELSE IsPrefix(LeftSide(words), job.left) /\ IsPrefix(RightSide(words), job.argv)

LEMMA ForksWords ==
  ASSUME MainInv, pc = "fork"
  PROVE  RunsWords(NewJob, Meant(Len(typed)))
<1> DEFINE n == Len(typed)
<1>1. /\ TypeOK /\ HistoryInv /\ ParsedInv /\ typed \in Seq(Lines) /\ n \in Nat
      /\ Taken = n /\ Kept = n - 1 /\ n # 0
      /\ temp \in ArraysOf(typed) /\ father \in ArraysOf(typed) /\ child \in ArraysOf(typed)
  BY DEF MainInv, TypeOK, Taken, Kept
<1>2. /\ NewJob.argv = Executed(IF command.ifpipe THEN child ELSE temp)
      /\ NewJob.left = IF command.ifpipe THEN Executed(father) ELSE <<>>
      /\ NewJob.files = IF command.ifpipe THEN <<>> ELSE Redirection
  BY DEF NewJob
<1>3. CASE Own(n) = {}
  <2>1. command = NoFlags /\ temp = NoWords /\ Meant(n) = <<>>
    BY <1>1, <1>3 DEF ParsedInv, Meant, Own
  <2>2. <<>> \in Seq(STRING) /\ Len(<<>>) = 0
    OBVIOUS
  <2>3. Len(Words(<<>>)) \in 0 .. 0 /\ Words(<<>>) \in Seq(STRING)
    BY <2>2, WordsEnd DEF IsStop
  <2>4. Words(<<>>) = <<>>
    BY <2>3
  <2>5. Bar(<<>>) = 0
    <3>1. Bar(<<>>) \in 0 .. Len(<<>>)
      BY <2>2, BarFacts, Zenon
    <3>2. QED
      BY <2>2, <3>1
  <2>6. Files(<<>>) = <<>>
    <3>1. 0 = Len(Words(<<>>)) /\ ~ (0 < Len(<<>>))
      BY <2>2, <2>4
    <3>2. QED
      BY <2>2, <3>1, FilesAre, Zenon
  <2>7. 0 \in Slots /\ temp[0] = NULL
    BY <2>1, ShellAssumption DEF NoWords, Slots
  <2>8. Executed(temp) \in Seq(Texts) /\ Len(Executed(temp)) = 0
    BY <1>1, <2>7, ExecutedFacts
  <2>9. NewJob.argv = <<>> /\ NewJob.files = <<>>
    BY <1>2, <2>1, <2>8 DEF NoFlags, Redirection
  <2>10. QED
    BY <2>1, <2>4, <2>5, <2>6, <2>9 DEF RunsWords
<1>4. CASE Own(n) # {}
  <2> DEFINE h == Max(Own(n))
             l == typed[h]
             w == Words(l)
             s == Len(w)
             bar == Bar(w)
  <2>1. h \in 1 .. n /\ l # Recall
    BY <1>1, <1>4, LastOwn
  <2>2. HoldsWords(h) /\ HasFlags(h) /\ Meant(n) = l
    BY <1>1, <1>4 DEF ParsedInv, Meant, Own
  <2>3. l \in Seq(STRING) /\ Len(l) \in 1 .. MaxArgs /\ MaxArgs \in Nat
    BY <1>1, <2>1, LineFacts, ShellAssumption
  <2>4. \A i \in 0 .. Len(l) - 1 : <<h, i>> \notin freed
    <3>1. CASE h = n
      <4>1. n \notin 1 .. Kept
        BY <1>1
      <4>2. QED
        BY <1>1, <3>1, <4>1 DEF HistoryInv
    <3>2. CASE h # n
      <4>1. typed[n] = Recall /\ n \in Nat \ {0}
        BY <1>1, <3>2, OwnNext
      <4>2. Own(n) = Own(n - 1) /\ n - 1 \in 0 .. Len(typed)
        BY <4>1, OwnNext
      <4>3. IsLine(buffer, h)
        BY <1>1, <1>4, <4>2, HistoryFacts
      <4>4. \A i \in 0 .. Len(l) - 1 : i \in Slots /\ buffer[i] = <<h, i>> /\ <<h, i>> # NULL
        BY <1>1, <2>1, <2>3, <4>3, PointerTo DEF IsLine, Slots
      <4>5. QED
        BY <1>1, <4>4 DEF HistoryInv
    <3>3. QED
      BY <3>1, <3>2
  <2> HIDE DEF h
  <2>5. /\ s \in 0 .. Len(l) /\ w = [k \in 1 .. s |-> l[k]] /\ w \in Seq(STRING)
        /\ bar \in 0 .. s
    BY <2>3, WordsEnd, BarFacts DEF IsStop
  <2>6. /\ \A i \in 0 .. s - 1 : temp[i] = <<h, i>>
        /\ temp[s] = NULL
        /\ bar # 0 => /\ \A i \in 0 .. bar - 2 : father[i] = <<h, i>>
                      /\ \A i \in 0 .. s - bar - 1 : child[i] = <<h, i + bar>>
    BY <2>2 DEF HoldsWords
  <2>7. /\ command.ifpipe <=> bar # 0
        /\ IF s < Len(l) /\ l[s + 1] \in {"<", ">"}
             THEN /\ command.redirect = <<h, s>>
                  /\ command.filename = IF s + 1 < Len(l) THEN <<h, s + 1>> ELSE NULL
             ELSE command.redirect = NULL
    BY <2>2 DEF HasFlags
  <2>8. \A i \in 0 .. Len(l) - 1 : <<h, i>> # NULL /\ Text(<<h, i>>) = l[i + 1]
    BY <1>1, <2>1, PointerTo
  <2>12. \A i \in 0 .. Len(typed[h]) - 1 : <<h, i>> \notin freed
    BY <2>4
  <2> HIDE DEF l, w, s, bar
  <2>9. CASE bar = 0
    <3>1. NewJob.argv = Executed(temp) /\ NewJob.files = Redirection
      BY <1>2, <2>7, <2>9
    <3>2. 0 \in Nat /\ s \in Nat /\ 0 + s <= Len(typed[h]) /\ PointsTo(temp, h, 0, s)
      BY <2>3, <2>5, <2>6 DEF PointsTo, l
    <3>3. /\ Executed(temp) \in Seq(Texts) /\ Len(Executed(temp)) = s
          /\ \A k \in 1 .. s : Executed(temp)[k] = l[0 + k]
      <4>1. Executes(temp, h, 0, s)
        BY <1>1, <2>1, <2>12, <3>2, ExecutesPart
      <4>2. QED
        BY <2>6, <4>1 DEF Executes, l
    <3>4. \A k \in 1 .. s : Executed(temp)[k] = w[k]
      BY <2>5, <3>3
    <3>5. Executed(temp) = w
      <4>1. Len(w) = s
        BY DEF s
      <4>2. QED
        BY <2>5, <3>3, <3>4, <4>1
    <3>6. Redirection = Files(l)
      <4>1. IF s < Len(l) /\ l[s + 1] \in {"<", ">"}
              THEN Files(l) = IF s + 1 < Len(l) THEN <<l[s + 1], l[s + 2]>> ELSE <<l[s + 1]>>
              ELSE Files(l) = <<>>
        BY <2>3, FilesAre DEF s, w
      <4>2. CASE ~ (s < Len(l) /\ l[s + 1] \in {"<", ">"})
        BY <2>7, <4>1, <4>2 DEF Redirection
      <4>3. CASE s < Len(l) /\ l[s + 1] \in {"<", ">"}
        <5>1. command.redirect = <<h, s>> /\ <<h, s>> # NULL /\ Text(<<h, s>>) = l[s + 1]
          BY <2>3, <2>5, <2>7, <2>8, <4>3
        <5>2. CASE s + 1 < Len(l)
          <6>1. s + 1 \in 0 .. Len(l) - 1 /\ s + 1 + 1 = s + 2
            BY <2>3, <2>5, <5>2
          <6>2. /\ command.filename = <<h, s + 1>> /\ <<h, s + 1>> # NULL
                /\ Text(<<h, s + 1>>) = l[s + 2]
            BY <2>7, <2>8, <4>3, <5>2, <6>1
          <6>3. QED
            BY <4>1, <4>3, <5>1, <5>2, <6>2 DEF Redirection
        <5>3. CASE ~ (s + 1 < Len(l))
          BY <2>7, <4>1, <4>3, <5>1, <5>3 DEF Redirection
        <5>4. QED
          BY <5>2, <5>3
      <4>4. QED
        BY <4>2, <4>3
    <3>7. QED
      BY <2>2, <2>9, <3>1, <3>5, <3>6 DEF RunsWords, bar, w
  <2>10. CASE bar # 0
    <3>1. NewJob.argv = Executed(child) /\ NewJob.left = Executed(father)
      BY <1>2, <2>7, <2>10
    <3>2. bar - 1 \in Nat /\ s - bar \in Nat /\ bar \in Nat /\ bar - 1 \in 0 .. s /\ Len(w) = s
      BY <2>3, <2>5, <2>10 DEF s
    <3>3. IsPrefix(LeftSide(w), NewJob.left)
      <4>1. 0 \in Nat /\ 0 + (bar - 1) <= Len(typed[h]) /\ PointsTo(father, h, 0, bar - 1)
        <5>1. \A i : i \in 0 .. (bar - 1) - 1 => i \in 0 .. bar - 2 /\ i + 0 = i
          BY <3>2
        <5>2. QED
          BY <2>3, <2>5, <2>6, <2>10, <3>2, <5>1 DEF PointsTo, l
      <4>2. /\ Executed(father) \in Seq(Texts) /\ bar - 1 <= Len(Executed(father))
            /\ \A k \in 1 .. bar - 1 : Executed(father)[k] = l[0 + k]
        <5>1. Executes(father, h, 0, bar - 1)
          BY <1>1, <2>1, <2>12, <3>2, <4>1, ExecutesPart
        <5>2. QED
          BY <5>1 DEF Executes, l
      <4>3. /\ SubSeq(w, 1, bar - 1) = [k \in 1 .. bar - 1 |-> w[k]]
            /\ SubSeq(w, 1, bar - 1) \in Seq(STRING) /\ Len(SubSeq(w, 1, bar - 1)) = bar - 1
        BY <2>5, <3>2, PartsOf
      <4>4. \A k \in 1 .. bar - 1 : SubSeq(w, 1, bar - 1)[k] = Executed(father)[k]
        BY <2>3, <2>5, <3>2, <4>2, <4>3
      <4>5. IsPrefix(SubSeq(w, 1, bar - 1), Executed(father))
        BY <4>2, <4>3, <4>4, PrefixIs
      <4>6. QED
        BY <3>1, <4>5 DEF LeftSide, bar
    <3>4. IsPrefix(RightSide(w), NewJob.argv)
      <4>1. bar + (s - bar) <= Len(typed[h]) /\ PointsTo(child, h, bar, s - bar)
        BY <2>3, <2>5, <2>6, <2>10 DEF PointsTo, l
      <4>2. /\ Executed(child) \in Seq(Texts) /\ s - bar <= Len(Executed(child))
            /\ \A k \in 1 .. s - bar : Executed(child)[k] = l[bar + k]
        <5>1. Executes(child, h, bar, s - bar)
          BY <1>1, <2>1, <2>12, <3>2, <4>1, ExecutesPart
        <5>2. QED
          BY <5>1 DEF Executes, l
      <4>3. /\ SubSeq(w, bar + 1, s) = [k \in 1 .. s - bar |-> w[bar + k]]
            /\ SubSeq(w, bar + 1, s) \in Seq(STRING) /\ Len(SubSeq(w, bar + 1, s)) = s - bar
        BY <2>5, <3>2, PartsOf
      <4>4. \A k \in 1 .. s - bar : SubSeq(w, bar + 1, s)[k] = Executed(child)[k]
        <5> TAKE k \in 1 .. s - bar
        <5>1. bar + k \in 1 .. s
          BY <2>3, <2>5, <3>2
        <5>2. w[bar + k] = l[bar + k]
          BY <2>5, <5>1
        <5>3. QED
          BY <4>2, <4>3, <5>2
      <4>5. IsPrefix(SubSeq(w, bar + 1, s), Executed(child))
        BY <4>2, <4>3, <4>4, PrefixIs
      <4>6. QED
        BY <3>1, <3>2, <4>5 DEF RightSide, bar
    <3>5. QED
      BY <2>2, <2>10, <3>3, <3>4 DEF RunsWords, bar, w
  <2>11. QED
    BY <2>9, <2>10
<1>5. QED
  BY <1>3, <1>4

\* Every child that was forked runs what its line meant.
RunInv ==
  /\ MainInv
  /\ \A j \in 1 .. Len(jobs) :
       jobs[j].line \in 1 .. Len(typed) /\ RunsWords(jobs[j], Meant(jobs[j].line))

\* What is typed later changes nothing about what a line means.
LEMMA MeantStays ==
  ASSUME typed \in Seq(Lines), typed' = typed \/ \E l \in Lines : typed' = Append(typed, l)
  PROVE  /\ Len(typed) \in Nat /\ Len(typed') \in Nat /\ Len(typed) <= Len(typed')
         /\ \A n \in 1 .. Len(typed) : Meant(n)' = Meant(n)
<1>1. /\ Len(typed) \in Nat /\ Len(typed') \in Nat /\ Len(typed) <= Len(typed')
      /\ \A k \in 1 .. Len(typed) : typed'[k] = typed[k]
  BY AppendProperties
<1>2. ASSUME NEW n \in 1 .. Len(typed) PROVE Meant(n)' = Meant(n)
  <2>1. \A k \in 1 .. n : typed'[k] = typed[k]
    BY <1>1
  <2>2. Own(n)' = Own(n)
    BY <2>1 DEF Own
  <2>3. CASE Own(n) = {}
    BY <2>2, <2>3 DEF Meant, Own
  <2>4. CASE Own(n) # {}
    <3>1. n \in Nat
      OBVIOUS
    <3>2. Max(Own(n)) \in 1 .. n
      BY <2>4, <3>1, LastOwn
    <3>3. Meant(n) = typed[Max(Own(n))] /\ Meant(n)' = typed'[Max(Own(n))]
      BY <2>2, <2>4 DEF Meant, Own
    <3>4. QED
      BY <2>1, <3>2, <3>3
  <2>5. QED
    BY <2>3, <2>4
<1>3. QED
  BY <1>1, <1>2

LEMMA TypedStep ==
  ASSUME [Next]_vars
  PROVE  typed' = typed \/ \E l \in Lines : typed' = Append(typed, l)
BY DEF Next, MainRuns, Handler, ReadLine, ParseLine, ForkChild, ForkFails, InstallHandler,
       WaitForChild, SaveHistory, HandlerStarts, HandlerReaps, HandlerLeaves, ChildEnds,
       Terminated, vars

LEMMA RunStep ==
  ASSUME RunInv, [Next]_vars
  PROVE  RunInv'
<1>1. MainInv /\ MainInv' /\ TypeOK /\ typed \in Seq(Lines)
  BY MainStep DEF RunInv, MainInv, TypeOK
<1>2. /\ Len(typed) \in Nat /\ Len(typed') \in Nat /\ Len(typed) <= Len(typed')
      /\ \A n \in 1 .. Len(typed) : Meant(n)' = Meant(n)
  BY <1>1, TypedStep, MeantStays
<1>3. JobsChange
  BY <1>1, JobsStep
<1>4. ASSUME NEW j \in 1 .. Len(jobs)
      PROVE  (jobs[j].line \in 1 .. Len(typed) /\ RunsWords(jobs[j], Meant(jobs[j].line)))'
  <2>1. PICK n \in 1 .. Len(typed) : n = jobs[j].line /\ RunsWords(jobs[j], Meant(n))
    BY DEF RunInv
  <2>2. /\ jobs'[j].line = n /\ jobs'[j].argv = jobs[j].argv
        /\ jobs'[j].left = jobs[j].left /\ jobs'[j].files = jobs[j].files
    BY <1>1, <1>3, <2>1, JobsOf
  <2>3. Meant(jobs[j].line)' = Meant(n)
    <3>1. Meant(jobs[j].line)' = Meant(n)'
      BY <2>2 DEF Meant
    <3>2. QED
      BY <1>2, <3>1
  <2>4. (jobs[j].line \in 1 .. Len(typed))'
    BY <1>2, <2>2
  <2>5. RunsWords(jobs[j], Meant(jobs[j].line))'
    BY <2>1, <2>2, <2>3 DEF RunsWords
  <2>6. QED
    BY <2>4, <2>5
<1>5. ASSUME NEW j \in Nat, j = Len(jobs) + 1, Len(jobs') # Len(jobs)
      PROVE  (jobs[j].line \in 1 .. Len(typed) /\ RunsWords(jobs[j], Meant(jobs[j].line)))'
  <2>1. pc = "fork" /\ jobs'[j] = NewJob
    BY <1>1, <1>3, <1>5, JobsOf
  <2>2. PICK n \in 1 .. Len(typed) : n = Len(typed)
    <3>1. Len(typed) # 0
      BY <1>1, <2>1 DEF TypeOK
    <3>2. QED
      BY <1>2, <3>1
  <2>3. NewJob.line = n
    BY <2>2 DEF NewJob
  <2>4. RunsWords(NewJob, Meant(n))
    BY <1>1, <2>1, <2>2, ForksWords
  <2>5. Meant(jobs[j].line)' = Meant(n)
    <3>1. Meant(jobs[j].line)' = Meant(n)'
      BY <2>1, <2>3 DEF Meant
    <3>2. QED
      BY <1>2, <3>1
  <2>6. (jobs[j].line \in 1 .. Len(typed))'
    BY <1>2, <2>1, <2>3
  <2>7. RunsWords(jobs[j], Meant(jobs[j].line))'
    BY <2>1, <2>4, <2>5 DEF RunsWords
  <2>8. QED
    BY <2>6, <2>7
<1>6. \A j \in 1 .. Len(jobs') :
        (jobs[j].line \in 1 .. Len(typed) /\ RunsWords(jobs[j], Meant(jobs[j].line)))'
  <2>1. Len(jobs) \in Nat /\ Len(jobs') \in {Len(jobs), Len(jobs) + 1}
    BY <1>1, <1>3, JobsOf
  <2>2. QED
    BY <1>4, <1>5, <2>1
<1>7. QED
  BY <1>1, <1>6 DEF RunInv

(***************************************************************************)
(* Whatever lines are typed, and however many: no child is given a word    *)
(* of another line or one that was freed, nor a redirection that its line  *)
(* does not ask for (osh.c:68-145, 165-229).                               *)
(***************************************************************************)
THEOREM WordsRun == Spec => []RunsItsWords
<1>1. Init => RunInv
  <2> SUFFICES ASSUME Init PROVE RunInv
    OBVIOUS
  <2>1. Len(jobs) = 0 /\ 1 .. 0 = {}
    BY DEF Init
  <2>2. QED
    BY <2>1, MainStart DEF RunInv
<1>2. RunInv /\ [Next]_vars => RunInv'
  BY RunStep
<1>3. RunInv => RunsItsWords
  <2> SUFFICES ASSUME RunInv PROVE RunsItsWords
    OBVIOUS
  <2>1. DOMAIN jobs = 1 .. Len(jobs)
    BY DEF RunInv, MainInv, TypeOK
  <2>2. QED
    BY <2>1 DEF RunInv, RunsItsWords, RunsWords
<1>4. QED
  BY <1>1, <1>2, <1>3, PTL DEF Spec

-----------------------------------------------------------------------------
\* A foreground command runs only while main waits for it.
WaitInv ==
  \A j \in 1 .. Len(jobs) :
    jobs[j].ifpara \/ jobs[j].state # "running" \/ (pc = "wait" /\ j = Len(jobs))

\* A zombie has ended with the handler installed, which is there for good.
ZombieInv ==
  /\ installed \in BOOLEAN /\ pending \in BOOLEAN /\ handling \in BOOLEAN
  /\ \A j \in 1 .. Len(jobs) : jobs[j].state = "zombie" => installed /\ (pending \/ handling)

\* The state of one job changes.
LEMMA OneState ==
  ASSUME TypeOK, NEW j \in 1 .. Len(jobs), NEW s, jobs' = [jobs EXCEPT ![j].state = s]
  PROVE  /\ Len(jobs') = Len(jobs)
         /\ \A i \in 1 .. Len(jobs) : /\ jobs'[i].state = IF i = j THEN s ELSE jobs[i].state
                                      /\ jobs'[i].ifpara = jobs[i].ifpara
<1> DEFINE new == [jobs[j] EXCEPT !.state = s]
<1>1. jobs \in Seq(Jobs) /\ Len(jobs) \in Nat /\ \A i \in 1 .. Len(jobs) : jobs[i] \in Jobs
  BY DEF TypeOK
<1>2. Len(jobs') = Len(jobs) /\ \A i \in 1 .. Len(jobs) : jobs'[i] = IF i = j THEN new ELSE jobs[i]
  BY <1>1
<1>3. new.state = s /\ new.ifpara = jobs[j].ifpara
  BY <1>1, StateOnly
<1> HIDE DEF new
<1>4. QED
  BY <1>2, <1>3

\* The waited-for child was forked last, as the only foreground child that runs.
LEMMA WaitStep ==
  ASSUME TypeOK, WaitInv, [Next]_vars
  PROVE  WaitInv'
<1>1. jobs \in Seq(Jobs) /\ Len(jobs) \in Nat /\ DOMAIN jobs = 1 .. Len(jobs)
  BY DEF TypeOK
<1>2. ASSUME UNCHANGED jobs, pc # "wait" \/ UNCHANGED pc PROVE WaitInv'
  BY <1>2 DEF WaitInv
<1>3. ASSUME NEW j \in 1 .. Len(jobs), NEW s, s # "running",
             jobs' = [jobs EXCEPT ![j].state = s],
             UNCHANGED pc \/ j = Len(jobs)
      PROVE  WaitInv'
  BY <1>1, <1>3, OneState DEF WaitInv
<1>4. ASSUME ForkChild PROVE WaitInv'
  <2>1. pc = "fork" /\ pc' = (IF command.ifpara THEN "signal" ELSE "wait")
        /\ jobs' = Append(jobs, NewJob)
    BY <1>4 DEF ForkChild, MainGoto, NewJob
  <2>2. Len(jobs') = Len(jobs) + 1 /\ \A i \in 1 .. Len(jobs) : jobs'[i] = jobs[i]
    BY <1>1, <2>1, NewJobType, AppendProperties
  <2>3. jobs'[Len(jobs) + 1] = NewJob
    BY <1>1, <2>1, NewJobType, AppendProperties
  <2>4. NewJob.ifpara = command.ifpara
    BY DEF NewJob
  <2>5. \A i \in 1 .. Len(jobs) : jobs[i].ifpara \/ jobs[i].state # "running"
    BY <2>1 DEF WaitInv
  <2>6. \A i \in 1 .. Len(jobs') : i \in 1 .. Len(jobs) \/ i = Len(jobs')
    BY <1>1, <2>2
  <2>7. jobs'[Len(jobs')].ifpara \/ pc' = "wait"
    BY <2>1, <2>2, <2>3, <2>4, Zenon
  <2>8. QED
    BY <2>2, <2>5, <2>6, <2>7 DEF WaitInv
<1>5. ASSUME WaitForChild PROVE WaitInv'
  <2>1. PICK j \in Awaited : jobs' = [jobs EXCEPT ![j].state = "reaped"]
    BY <1>5 DEF WaitForChild
  <2>2. j = Len(jobs)
    BY <2>1 DEF Awaited
  <2>3. CASE Len(jobs) = 0
    <3>1. jobs' = jobs
      BY <1>1, <2>1, <2>2, <2>3
    <3>2. QED
      BY <2>3, <3>1 DEF WaitInv
  <2>4. CASE Len(jobs) # 0
    <3>1. j \in 1 .. Len(jobs)
      BY <1>1, <2>2, <2>4
    <3>2. QED
      BY <1>3, <2>1, <2>2, <3>1
  <2>5. QED
    BY <2>3, <2>4
<1>6. ASSUME HandlerReaps PROVE WaitInv'
  BY <1>1, <1>3, <1>6 DEF HandlerReaps, Unreaped
<1>7. ASSUME NEW j \in DOMAIN jobs, ChildEnds(j) PROVE WaitInv'
  <2>1. PICK s \in {"zombie", "unnoticed"} : jobs' = [jobs EXCEPT ![j].state = s]
    BY <1>7 DEF ChildEnds
  <2>2. QED
    BY <1>1, <1>3, <1>7, <2>1 DEF ChildEnds
<1>8. QED
  BY <1>2, <1>4, <1>5, <1>6, <1>7
  DEF Next, MainRuns, Handler, MainGoto, ReadLine, ParseLine, ForkFails, InstallHandler,
      SaveHistory, HandlerStarts, HandlerLeaves, Terminated, vars

(***************************************************************************)
(* Nobody gets a prompt while a foreground command runs: the handler may   *)
(* reap any child in main's place, but only one that ended                 *)
(* (osh.c:159-162).                                                        *)
(***************************************************************************)
THEOREM PromptWaits == Spec => []ForegroundWaited
<1>1. Init => TypeOK /\ WaitInv
  <2> SUFFICES ASSUME Init PROVE TypeOK /\ WaitInv
    OBVIOUS
  <2>1. Len(jobs) = 0 /\ 1 .. 0 = {}
    BY DEF Init
  <2>2. QED
    BY <2>1, MainStart DEF MainInv, WaitInv
<1>2. Init => MainInv
  BY MainStart
<1>3. MainInv /\ [Next]_vars => MainInv'
  BY MainStep
<1>4. MainInv /\ WaitInv /\ [Next]_vars => WaitInv'
  BY WaitStep DEF MainInv
<1>5. MainInv /\ WaitInv => ForegroundWaited
  BY DEF MainInv, TypeOK, WaitInv, ForegroundWaited
<1>6. QED
  BY <1>1, <1>2, <1>3, <1>4, <1>5, PTL DEF Spec

LEMMA ZombieStep ==
  ASSUME TypeOK, ZombieInv, [Next]_vars
  PROVE  ZombieInv'
<1>1. jobs \in Seq(Jobs) /\ Len(jobs) \in Nat /\ DOMAIN jobs = 1 .. Len(jobs)
  BY DEF TypeOK
<1>2. ASSUME UNCHANGED <<jobs, signals>> PROVE ZombieInv'
  BY <1>2, Zenon DEF ZombieInv, signals
<1>3. ASSUME ForkChild PROVE ZombieInv'
  <2>1. jobs' = Append(jobs, NewJob) /\ UNCHANGED signals
    BY <1>3 DEF ForkChild, NewJob
  <2>2. /\ Len(jobs') = Len(jobs) + 1 /\ jobs'[Len(jobs) + 1] = NewJob
        /\ \A i \in 1 .. Len(jobs) : jobs'[i] = jobs[i]
    BY <1>1, <2>1, NewJobType, AppendProperties
  <2>3. NewJob.state = "running"
    BY DEF NewJob
  <2>4. \A i \in 1 .. Len(jobs') : jobs'[i].state = "zombie" => i \in 1 .. Len(jobs) /\ jobs[i].state = "zombie"
    BY <1>1, <2>2, <2>3
  <2>5. QED
    BY <2>1, <2>4, Zenon DEF ZombieInv, signals
<1>4. ASSUME NEW j \in 1 .. Len(jobs), jobs' = [jobs EXCEPT ![j].state = "reaped"],
             UNCHANGED signals
      PROVE  ZombieInv'
  <2>1. \A i \in 1 .. Len(jobs') : jobs'[i].state = "zombie" => i \in 1 .. Len(jobs) /\ jobs[i].state = "zombie"
    BY <1>1, <1>4, OneState
  <2>2. QED
    BY <1>4, <2>1, Zenon DEF ZombieInv, signals
<1>5. ASSUME WaitForChild PROVE ZombieInv'
  <2>1. PICK j \in Awaited : jobs' = [jobs EXCEPT ![j].state = "reaped"]
    BY <1>5 DEF WaitForChild
  <2>2. j = Len(jobs) /\ UNCHANGED signals
    BY <1>5, <2>1 DEF Awaited, WaitForChild
  <2>3. CASE Len(jobs) = 0
    <3>1. jobs' = jobs
      BY <1>1, <2>1, <2>2, <2>3
    <3>2. QED
      BY <1>2, <2>2, <3>1
  <2>4. CASE Len(jobs) # 0
    <3>1. j \in 1 .. Len(jobs)
      BY <1>1, <2>2, <2>4
    <3>2. QED
      BY <1>4, <2>1, <2>2, <3>1
  <2>5. QED
    BY <2>3, <2>4
<1>6. ASSUME HandlerReaps PROVE ZombieInv'
  BY <1>1, <1>4, <1>6 DEF HandlerReaps, Unreaped
<1>7. ASSUME InstallHandler PROVE ZombieInv'
  BY <1>7, Zenon DEF InstallHandler, ZombieInv
<1>8. ASSUME HandlerStarts PROVE ZombieInv'
  BY <1>8, Zenon DEF HandlerStarts, ZombieInv
<1>9. ASSUME HandlerLeaves PROVE ZombieInv'
  <2>1. \A i \in 1 .. Len(jobs) : jobs[i].state # "zombie"
    BY <1>1, <1>9 DEF HandlerLeaves, Unreaped
  <2>2. QED
    BY <1>9, <2>1, Zenon DEF HandlerLeaves, ZombieInv
<1>10. ASSUME NEW j \in DOMAIN jobs, ChildEnds(j) PROVE ZombieInv'
  <2>1. PICK s \in {"zombie", "unnoticed"} :
          s = (IF installed THEN "zombie" ELSE "unnoticed") /\ jobs' = [jobs EXCEPT ![j].state = s]
    BY <1>10 DEF ChildEnds
  <2>2. Len(jobs') = Len(jobs)
        /\ \A i \in 1 .. Len(jobs) : jobs'[i].state = IF i = j THEN s ELSE jobs[i].state
    BY <1>1, <2>1, OneState
  <2>3. pending' = installed /\ UNCHANGED <<installed, handling>>
    BY <1>10 DEF ChildEnds
  <2>4. \A i \in 1 .. Len(jobs') : jobs'[i].state = "zombie" => installed
    <3> TAKE i \in 1 .. Len(jobs')
    <3>1. CASE i = j
      <4>1. "unnoticed" # "zombie"
        OBVIOUS
      <4>2. i \in 1 .. Len(jobs)
        BY <2>2
      <4>3. jobs'[i].state = s
        BY <2>2, <3>1, <4>2
      <4>4. QED
        BY <2>1, <4>1, <4>3, Zenon
    <3>2. CASE i # j
      <4>1. i \in 1 .. Len(jobs) /\ jobs'[i].state = jobs[i].state
        BY <2>2, <3>2
      <4>2. QED
        BY <4>1, Zenon DEF ZombieInv
    <3>3. QED
      BY <3>1, <3>2
  <2>5. QED
    BY <2>3, <2>4, Zenon DEF ZombieInv
<1>11. QED
  BY <1>2, <1>3, <1>5, <1>6, <1>7, <1>8, <1>9, <1>10
  DEF Next, MainRuns, Handler, ReadLine, ParseLine, ForkFails, SaveHistory, Terminated, vars

(***************************************************************************)
(* However the ends of children and the deliveries of SIGCHLD interleave,  *)
(* a child whose end was signalled is reaped or about to be (osh.c:18-23). *)
(***************************************************************************)
THEOREM NoZombieForgotten == Spec => []ZombiesCollected
<1>1. Init => ZombieInv
  <2> SUFFICES ASSUME Init PROVE ZombieInv
    OBVIOUS
  <2>1. Len(jobs) = 0 /\ 1 .. 0 = {}
    BY DEF Init
  <2>2. QED
    BY <2>1 DEF Init, ZombieInv
<1>2. Init => MainInv
  BY MainStart
<1>3. MainInv /\ [Next]_vars => MainInv'
  BY MainStep
<1>4. MainInv /\ ZombieInv /\ [Next]_vars => ZombieInv'
  BY ZombieStep DEF MainInv
<1>5. MainInv /\ ZombieInv => ZombiesCollected
  <2>1. MainInv => DOMAIN jobs = 1 .. Len(jobs)
    BY DEF MainInv, TypeOK
  <2>2. QED
    BY <2>1, Zenon DEF ZombieInv, ZombiesCollected
<1>6. QED
  BY <1>1, <1>2, <1>3, <1>4, <1>5, PTL DEF Spec

-----------------------------------------------------------------------------
(***************************************************************************)
(* The files under /proc: the pid module, and those of Project1, which are *)
(* read by the same calls.                                                 *)
(***************************************************************************)
FilePlaces   == {"closed", "test", "reset", "lookup", "mark", "format", "copy"}
Outcomes == {"none", "cut short", "nothing", "value", "repeated"}

NumbersOK ==
  /\ jiffies \in 0 .. WordSize - 1 /\ jiffies_init \in 0 .. WordSize - 1
  /\ ticks \in 0 .. MaxTicks

\* A function with a value per reader.
PerReader(f) == f = [r \in Readers |-> f[r]]

CallsOK ==
  /\ place \in [Readers -> FilePlaces]
  /\ PerReader(tsk) /\ PerReader(value) /\ PerReader(seen)

ObservedOK ==
  /\ count \in [Readers -> 0 .. 2] /\ overlapped \in BOOLEAN
  /\ previous \in Outcomes /\ latest \in Outcomes

FileTypes ==
  /\ module \in {"jiffies", "seconds", "pid"} /\ completed \in BOOLEAN
  /\ NumbersOK /\ CallsOK /\ ObservedOK

-----------------------------------------------------------------------------
(***************************************************************************)
(* The values.  The counter tells how often it has ticked, although it may *)
(* have wrapped; what the file is about now is among what it was about     *)
(* during each call, and so is the task that a call has looked up.         *)
(***************************************************************************)
CounterTold == jiffies = (jiffies_init + ticks) % WordSize

CallObserved(r) ==
  place[r] # "closed" => /\ Subject \in seen[r]
                      /\ tsk[r] \in seen[r] \cup {NoTask, Exited}

\* What the value of a call by r must be when it is copied.
Current(r) ==
  /\ module = "jiffies" => \E t \in seen[r] : value[r] = <<(jiffies_init + t) % WordSize>>
  /\ module = "seconds" => \E t \in seen[r] : value[r] = <<t \div HZ>>
  /\ module = "pid" => value[r] \in (seen[r] \cup {Exited}) \X seen[r]

CallInv(r) == CallObserved(r) /\ (place[r] = "copy" => Current(r))

ValueInv == FileTypes /\ CounterTold /\ \A r \in Readers : CallInv(r)

LEMMA CallsAreCurrent == ValueInv => ValuesCurrent
BY DEF ValueInv, FileTypes, CallInv, ValuesCurrent, Current

\* One tick more: the counter goes on modulo its size.
LEMMA TickTold ==
  ASSUME NEW j \in 0 .. WordSize - 1, NEW t \in Nat, t + 1 < WordSize
  PROVE  /\ (((j + t) % WordSize) + 1) % WordSize = (j + (t + 1)) % WordSize
         /\ (j + t) % WordSize \in 0 .. WordSize - 1
<1>1. \A x \in 0 .. 2 * WordSize - 1 :
        x % WordSize = IF x < WordSize THEN x ELSE x - WordSize
  BY ProcFileAssumption
<1>2. j + t \in 0 .. 2 * WordSize - 1 /\ j + (t + 1) \in 0 .. 2 * WordSize - 1
  BY ProcFileAssumption
<1>3. ((j + t) % WordSize) + 1 \in 0 .. 2 * WordSize - 1
  BY <1>1, <1>2, ProcFileAssumption
<1>4. QED
  BY <1>1, <1>2, <1>3, ProcFileAssumption

\* The time since loading is told across the wrap.
LEMMA ElapsedTold ==
  ASSUME NEW j \in 0 .. WordSize - 1, NEW t \in Nat, t < WordSize
  PROVE  (((j + t) % WordSize) - j) % WordSize = t
<1>1. (j + t) % WordSize = IF j + t < WordSize THEN j + t ELSE j + t - WordSize
  BY ProcFileAssumption
<1>2. ((j + t) % WordSize) - j = t \/ ((j + t) % WordSize) - j = t - WordSize
  BY <1>1, ProcFileAssumption
<1>3. t % WordSize = t /\ (t - WordSize) % WordSize = t
  BY ProcFileAssumption
<1>4. QED
  BY <1>2, <1>3

-----------------------------------------------------------------------------
\* What the steps of proc_read are, whichever module is loaded.
LEMMA ReaderSteps ==
  ASSUME NEW r \in Readers, ReadStep(r)
  PROVE  \/ \E next \in {"mark", "lookup"} : Test(r, next)
         \/ Reset(r) \/ Mark(r) \/ Copy(r)
         \/ module = "pid" /\ (Lookup(r) \/ Fails(r))
         \/ module = "jiffies" /\ Format(r, <<jiffies>>)
         \/ module = "seconds" /\ Format(r, <<Seconds>>)
         \/ module = "pid" /\ tsk[r] # NoTask /\ Format(r, <<tsk[r], l_pid>>)
BY DEF ReadStep, ReadJiffies, ReadSeconds, ReadPid

LEMMA TypeStart == FileInit => FileTypes
<1> SUFFICES ASSUME FileInit PROVE FileTypes
  OBVIOUS
<1>1. NumbersOK
  BY ProcFileAssumption DEF FileInit, NumbersOK
<1>2. CallsOK
  BY DEF FileInit, CallsOK, PerReader, FilePlaces
<1>3. ObservedOK
  <2>1. count \in [Readers -> 0 .. 2]
    BY DEF FileInit
  <2>2. QED
    BY <2>1, Zenon DEF FileInit, ObservedOK, Outcomes
<1>4. QED
  BY <1>1, <1>2, <1>3 DEF FileInit, FileTypes

\* Steps of readers leave the numbers alone, and keep the other types.
LEMMA ReaderTypeStep ==
  ASSUME FileTypes, NEW r \in Readers, Open(r) \/ Abandon(r) \/ ReadStep(r)
  PROVE  FileTypes'
<1>1. ASSUME Open(r) PROVE FileTypes'
  <2>1. CallsOK'
    BY <1>1 DEF FileTypes, Open, Goto, Calls, CallsOK, PerReader, FilePlaces
  <2>2. ObservedOK'
    <3>1. /\ count' = count /\ previous' \in {"none", previous}
          /\ latest' \in {"none", latest}
      BY <1>1 DEF Open
    <3>2. overlapped' = TRUE \/ overlapped' = overlapped
      BY <1>1, Zenon DEF Open
    <3>3. overlapped' \in BOOLEAN
      BY <3>2, Zenon DEF FileTypes, ObservedOK
    <3>4. previous' \in Outcomes /\ latest' \in Outcomes
      BY <3>1 DEF FileTypes, ObservedOK, Outcomes
    <3>5. count' \in [Readers -> 0 .. 2]
      BY <3>1 DEF FileTypes, ObservedOK
    <3>6. QED
      BY <3>3, <3>4, <3>5 DEF ObservedOK
  <2>3. QED
    BY <1>1, <2>1, <2>2 DEF FileTypes, Open, NumbersOK, kernel
<1>2. ASSUME NEW outcome \in Outcomes, Ends(r, outcome),
             NEW from, Goto(r, from, "closed")
      PROVE  CallsOK' /\ ObservedOK'
  <2>1. CallsOK'
    BY <1>2 DEF FileTypes, Ends, Goto, CallsOK, PerReader, FilePlaces
  <2>2. ObservedOK'
    <3>1. overlapped' = overlapped
      BY <1>2, Zenon DEF Ends
    <3>2. overlapped' \in BOOLEAN
      BY <3>1, Zenon DEF FileTypes, ObservedOK
    <3>3. previous' \in {previous, latest} /\ latest' \in {latest, outcome}
      BY <1>2 DEF Ends
    <3>4. previous' \in Outcomes /\ latest' \in Outcomes
      BY <3>3 DEF FileTypes, ObservedOK
    <3>5. count' \in [Readers -> 0 .. 2]
      BY <1>2 DEF FileTypes, ObservedOK, Ends
    <3>6. QED
      BY <3>2, <3>4, <3>5 DEF ObservedOK
  <2>3. QED
    BY <2>1, <2>2
<1>3. ASSUME Abandon(r) PROVE FileTypes'
  <2>1. CallsOK' /\ ObservedOK'
    BY <1>2, <1>3 DEF Abandon, Outcomes
  <2>2. QED
    BY <1>3, <2>1 DEF FileTypes, Abandon, NumbersOK, kernel
<1>4. ASSUME NEW next \in {"mark", "lookup"}, Test(r, next) PROVE FileTypes'
  <2>1. CallsOK'
    BY <1>4 DEF FileTypes, Test, Goto, CallsOK, PerReader, FilePlaces
  <2>2. QED
    BY <1>4, <2>1 DEF FileTypes, Test, NumbersOK, ObservedOK, kernel, observed
<1>5. ASSUME Reset(r) PROVE FileTypes'
  <2>1. Outcome(r) \in Outcomes
    BY DEF Outcome, Outcomes
  <2>2. CallsOK' /\ ObservedOK'
    BY <1>2, <1>5, <2>1 DEF Reset
  <2>3. QED
    BY <1>5, <2>2 DEF FileTypes, Reset, NumbersOK, kernel
<1>6. ASSUME Mark(r) PROVE FileTypes'
  <2>1. CallsOK'
    BY <1>6 DEF FileTypes, Mark, Goto, CallsOK, PerReader, FilePlaces
  <2>2. QED
    BY <1>6, <2>1 DEF FileTypes, Mark, NumbersOK, ObservedOK, kernel, observed
<1>7. ASSUME Copy(r) PROVE FileTypes'
  <2>1. CallsOK'
    BY <1>7 DEF FileTypes, Copy, Calls, Goto, CallsOK, PerReader, FilePlaces
  <2>2. ObservedOK'
    BY <1>7 DEF FileTypes, Copy, ObservedOK
  <2>3. QED
    BY <1>7, <2>1, <2>2 DEF FileTypes, Copy, NumbersOK, kernel
<1>8. ASSUME Lookup(r) PROVE FileTypes'
  <2>1. CallsOK'
    BY <1>8 DEF FileTypes, Lookup, Goto, CallsOK, PerReader, FilePlaces
  <2>2. QED
    BY <1>8, <2>1 DEF FileTypes, Lookup, NumbersOK, ObservedOK, kernel, observed
<1>9. ASSUME Fails(r) PROVE FileTypes'
  <2>1. CallsOK' /\ ObservedOK'
    BY <1>2, <1>9 DEF Fails, Outcomes
  <2>2. QED
    BY <1>9, <2>1 DEF FileTypes, Fails, NumbersOK, kernel
<1>10. ASSUME NEW v, Format(r, v) PROVE FileTypes'
  <2>1. CallsOK'
    BY <1>10 DEF FileTypes, Format, Goto, CallsOK, PerReader, FilePlaces
  <2>2. QED
    BY <1>10, <2>1 DEF FileTypes, Format, NumbersOK, ObservedOK, kernel, observed
<1>11. QED
  BY <1>1, <1>3, <1>4, <1>5, <1>6, <1>7, <1>8, <1>9, <1>10, ReaderSteps

\* So do the steps of the kernel and of writers.
LEMMA TypeStep ==
  ASSUME FileTypes, [FileNext]_fileVars
  PROVE  FileTypes'
<1>1. ASSUME NEW p \in Pids, WritePid(p) PROVE FileTypes'
  BY <1>1 DEF FileTypes, WritePid, Changes, NumbersOK, CallsOK, PerReader, ObservedOK, observed
<1>2. ASSUME NEW p \in Pids, StartOrExit(p) PROVE FileTypes'
  BY <1>2 DEF FileTypes, StartOrExit, NumbersOK, CallsOK, PerReader, ObservedOK, observed
<1>3. ASSUME Tick PROVE FileTypes'
  <2>1. NumbersOK'
    BY <1>3, ProcFileAssumption DEF FileTypes, Tick, NumbersOK
  <2>2. QED
    BY <1>3, <2>1 DEF FileTypes, Tick, Changes, CallsOK, PerReader, ObservedOK, observed
<1>4. ASSUME UNCHANGED fileVars PROVE FileTypes'
  BY <1>4 DEF FileTypes, fileVars, kernel, observed, NumbersOK, CallsOK, PerReader, ObservedOK
<1>5. QED
  BY <1>1, <1>2, <1>3, <1>4, ReaderTypeStep DEF FileNext

-----------------------------------------------------------------------------
\* Loaded, the counter says that it has not ticked, and there are no calls.
LEMMA ValueStart == FileInit => ValueInv
<1> SUFFICES ASSUME FileInit PROVE ValueInv
  OBVIOUS
<1>1. FileTypes
  BY TypeStart
<1>2. CounterTold
  <2>1. jiffies \in 0 .. WordSize - 1 /\ jiffies_init = jiffies /\ ticks = 0
    BY <1>1 DEF FileInit, FileTypes, NumbersOK
  <2>2. jiffies % WordSize = jiffies /\ jiffies + 0 = jiffies
    BY <2>1, ProcFileAssumption
  <2>3. QED
    BY <2>1, <2>2 DEF CounterTold
<1>3. \A r \in Readers : CallInv(r)
  BY DEF FileInit, CallInv, CallObserved
<1>4. QED
  BY <1>1, <1>2, <1>3 DEF ValueInv

\* What a step must leave alone for the call of o to stay as it is.
SameCall(o) ==
  /\ UNCHANGED <<module, jiffies_init, Subject>>
  /\ place'[o] = place[o] /\ tsk'[o] = tsk[o] /\ value'[o] = value[o] /\ seen'[o] = seen[o]

LEMMA SameCallKept ==
  ASSUME NEW o \in Readers, CallInv(o), SameCall(o)
  PROVE  CallInv(o)'
BY DEF CallInv, CallObserved, Current, SameCall

\* A step that only makes the file be about something more.
LEMMA CallObservesMore ==
  ASSUME FileTypes, FileTypes', NEW s, Changes(s), Subject' = s,
         UNCHANGED <<module, jiffies_init, place, value>>,
         NEW r \in Readers, CallInv(r), tsk'[r] \in {tsk[r], Exited}
  PROVE  CallInv(r)'
<1>1. place[r] # "closed" => seen'[r] = seen[r] \cup {s}
  BY DEF Changes
<1>2. CallObserved(r)'
  BY <1>1 DEF CallInv, CallObserved
<1>3. ASSUME place[r] = "copy" PROVE Current(r)'
  <2>1. Current(r) /\ seen[r] \subseteq seen'[r]
    BY <1>1, <1>3 DEF CallInv
  <2>2. QED
    BY <2>1 DEF Current
<1>4. QED
  BY <1>2, <1>3 DEF CallInv

\* Steps of reader r leave the calls of the others alone, and keep its own.
LEMMA ReaderValueStep ==
  ASSUME ValueInv, NEW r \in Readers, Open(r) \/ Abandon(r) \/ ReadStep(r)
  PROVE  ValueInv'
<1> USE DEF kernel, observed
<1>1. FileTypes /\ FileTypes'
  BY ReaderTypeStep DEF ValueInv
<1>2. UNCHANGED <<module, jiffies_init, kernel>>
  BY ReaderSteps DEF Open, Abandon, Test, Reset, Mark, Copy, Lookup, Fails, Format
<1>3. CounterTold'
  BY <1>2 DEF ValueInv, CounterTold
<1>4. UNCHANGED Subject
  BY <1>2 DEF Subject
<1>5. ASSUME NEW o \in Readers \ {r}
      PROVE  place'[o] = place[o] /\ tsk'[o] = tsk[o] /\ value'[o] = value[o] /\ seen'[o] = seen[o]
  <2> USE <1>1 DEF FileTypes, CallsOK, PerReader, Goto
  <2>1. CASE Open(r)
    BY <2>1 DEF Open, Calls
  <2>2. CASE Abandon(r)
    BY <2>2 DEF Abandon, Ends
  <2>3. CASE Reset(r)
    BY <2>3 DEF Reset, Ends
  <2>4. CASE Fails(r)
    BY <2>4 DEF Fails, Ends
  <2>5. CASE Copy(r)
    BY <2>5 DEF Copy, Calls
  <2>6. CASE Lookup(r)
    BY <2>6 DEF Lookup
  <2>7. CASE Mark(r)
    BY <2>7 DEF Mark
  <2>8. ASSUME NEW v, Format(r, v)
        PROVE  place'[o] = place[o] /\ tsk'[o] = tsk[o] /\ value'[o] = value[o] /\ seen'[o] = seen[o]
    BY <2>8 DEF Format
  <2>9. ASSUME NEW next, Test(r, next)
        PROVE  place'[o] = place[o] /\ tsk'[o] = tsk[o] /\ value'[o] = value[o] /\ seen'[o] = seen[o]
    BY <2>9 DEF Test
  <2>10. QED
    BY <2>1, <2>2, <2>3, <2>4, <2>5, <2>6, <2>7, <2>8, <2>9, ReaderSteps
<1>6. \A o \in Readers \ {r} : CallInv(o)'
  BY <1>2, <1>4, <1>5, SameCallKept DEF ValueInv, SameCall
<1>7. CallInv(r)
  BY DEF ValueInv
<1> USE DEF FileTypes, CallsOK, PerReader, Goto
<1>8. ASSUME NEW from, NEW to, to \notin {"closed", "copy"}, Goto(r, from, to), Calls(r)
      PROVE  CallInv(r)'
  BY <1>1, <1>4, <1>8 DEF Calls, CallInv, CallObserved
<1>9. ASSUME NEW from, Goto(r, from, "closed") PROVE CallInv(r)'
  BY <1>1, <1>9 DEF CallInv, CallObserved
<1>10. ASSUME NEW from, NEW to, to # "copy", from # "closed", Goto(r, from, to),
              UNCHANGED <<tsk, seen>>
       PROVE  CallInv(r)'
  BY <1>1, <1>4, <1>7, <1>10 DEF CallInv, CallObserved
<1>11. ASSUME module = "pid", Lookup(r) PROVE CallInv(r)'
  <2>1. place'[r] = "mark" /\ seen'[r] = seen[r] /\ place[r] = "lookup"
    BY <1>1, <1>11 DEF Lookup
  <2>2. tsk'[r] \in {l_pid, NoTask} /\ l_pid \in seen[r]
    BY <1>1, <1>7, <1>11, <2>1 DEF Lookup, CallInv, CallObserved, Subject
  <2>3. QED
    BY <1>4, <1>7, <2>1, <2>2 DEF CallInv, CallObserved
<1>12. ASSUME NEW v, Format(r, v),
              \/ module = "jiffies" /\ v = <<jiffies>>
              \/ module = "seconds" /\ v = <<Seconds>>
              \/ module = "pid" /\ tsk[r] # NoTask /\ v = <<tsk[r], l_pid>>
       PROVE  CallInv(r)'
  <2>1. place[r] = "format" /\ seen' = seen /\ tsk' = tsk /\ value'[r] = v
    BY <1>1, <1>12 DEF Format
  <2>2. CallObserved(r) /\ Subject \in seen[r] /\ tsk[r] \in seen[r] \cup {NoTask, Exited}
    BY <1>7, <2>1 DEF CallInv, CallObserved
  <2>3. ASSUME module = "jiffies" /\ v = <<jiffies>> PROVE Current(r)'
    BY <1>2, <2>1, <2>2, <2>3 DEF ValueInv, CounterTold, Current, Subject
  <2>4. ASSUME module = "seconds" /\ v = <<Seconds>> PROVE Current(r)'
    <3>1. Seconds = ticks \div HZ
      <4>1. /\ jiffies_init \in 0 .. WordSize - 1 /\ ticks \in Nat /\ ticks < WordSize
            /\ jiffies = (jiffies_init + ticks) % WordSize
        BY ProcFileAssumption DEF ValueInv, CounterTold, NumbersOK
      <4>2. (jiffies - jiffies_init) % WordSize = ticks
        BY <4>1, ElapsedTold
      <4>3. QED
        BY <4>2 DEF Seconds
    <3>2. QED
      BY <1>2, <2>1, <2>2, <2>4, <3>1 DEF Current, Subject
  <2>5. ASSUME module = "pid" /\ tsk[r] # NoTask /\ v = <<tsk[r], l_pid>> PROVE Current(r)'
    BY <1>2, <2>1, <2>2, <2>5 DEF Current, Subject
  <2>6. Current(r)'
    BY <1>12, <2>3, <2>4, <2>5
  <2>7. QED
    BY <1>4, <2>1, <2>2, <2>6 DEF CallInv, CallObserved
<1>13. ASSUME Open(r) \/ Copy(r) PROVE CallInv(r)'
  BY <1>8, <1>13 DEF Open, Copy
<1>14. ASSUME Abandon(r) \/ Reset(r) \/ Fails(r) PROVE CallInv(r)'
  BY <1>9, <1>14 DEF Abandon, Reset, Fails
<1>15. ASSUME Mark(r) \/ \E next \in {"mark", "lookup"} : Test(r, next) PROVE CallInv(r)'
  BY <1>10, <1>15 DEF Mark, Test
<1>16. CallInv(r)'
  BY <1>11, <1>12, <1>13, <1>14, <1>15, ReaderSteps
<1>17. QED
  BY <1>1, <1>3, <1>6, <1>16 DEF ValueInv

\* Steps of the kernel and of writers only make the file be about more.
LEMMA ValueStep ==
  ASSUME ValueInv, [FileNext]_fileVars
  PROVE  ValueInv'
<1>1. FileTypes /\ FileTypes'
  BY TypeStep DEF ValueInv
<1>2. ASSUME NEW p \in Pids, WritePid(p) PROVE ValueInv'
  <2>1. CounterTold'
    BY <1>2 DEF ValueInv, CounterTold, WritePid
  <2>2. \A r \in Readers : CallInv(r)'
    BY <1>1, <1>2, CallObservesMore DEF ValueInv, WritePid, Subject
  <2>3. QED
    BY <1>1, <2>1, <2>2 DEF ValueInv
<1>3. ASSUME NEW p \in Pids, StartOrExit(p) PROVE ValueInv'
  <2>1. CounterTold'
    BY <1>3 DEF ValueInv, CounterTold, StartOrExit
  <2>2. \A r \in Readers : tsk'[r] \in {tsk[r], Exited}
    BY <1>3 DEF StartOrExit
  <2>3. \A r \in Readers : CallInv(r)'
    BY <1>3, <2>2 DEF ValueInv, CallInv, CallObserved, Current, Subject, StartOrExit
  <2>4. QED
    BY <1>1, <2>1, <2>3 DEF ValueInv
<1>4. ASSUME Tick PROVE ValueInv'
  <2>1. CounterTold'
    <3>1. /\ jiffies_init \in 0 .. WordSize - 1 /\ ticks \in Nat /\ ticks + 1 < WordSize
          /\ jiffies = (jiffies_init + ticks) % WordSize
      BY <1>4, ProcFileAssumption DEF ValueInv, FileTypes, CounterTold, NumbersOK, Tick
    <3>2. /\ jiffies' = (jiffies + 1) % WordSize
          /\ ticks' = ticks + 1 /\ jiffies_init' = jiffies_init
      BY <1>4 DEF Tick
    <3>3. jiffies' = (jiffies_init + (ticks + 1)) % WordSize
      BY <3>1, <3>2, TickTold
    <3>4. QED
      BY <3>2, <3>3 DEF CounterTold
  <2>2. \A r \in Readers : CallInv(r)'
    BY <1>1, <1>4, CallObservesMore DEF ValueInv, Tick, Subject
  <2>3. QED
    BY <1>1, <2>1, <2>2 DEF ValueInv
<1>5. ASSUME UNCHANGED fileVars PROVE ValueInv'
  BY <1>1, <1>5 DEF ValueInv, CounterTold, CallInv, CallObserved, Current, Subject, fileVars, kernel
<1>6. QED
  BY <1>2, <1>3, <1>4, <1>5, ReaderValueStep DEF FileNext

(***************************************************************************)
(* What a call of proc_read returns was true during the call: in seconds   *)
(* and jiffies also when the counter has wrapped, and in pid whatever is   *)
(* written, and whichever processes exit, between two of its lines         *)
(* (jiffies.c:43, seconds.c:45, pid.c:74-83).                              *)
(***************************************************************************)
THEOREM ReadingsCurrent == FileSpec => []ValuesCurrent
<1>1. ValueInv /\ [FileNext]_fileVars => ValueInv'
  BY ValueStep
<1>2. QED
  BY <1>1, ValueStart, CallsAreCurrent, PTL DEF FileSpec

-----------------------------------------------------------------------------
(***************************************************************************)
(* A file that only one process has open.  Until it is marked, completed   *)
(* is set only when the reading before this one was cut short, and count   *)
(* tells where between the two calls the reading is.                       *)
(***************************************************************************)
Marked(r) == count[r] = 1 \/ (count[r] = 0 /\ latest = "cut short")

Reading(r) ==
  /\ place[r] = "test" => IF completed THEN Marked(r) ELSE count[r] = 0
  /\ place[r] = "reset" => completed /\ Marked(r)
  /\ place[r] \in {"lookup", "mark"} => count[r] = 0 /\ ~ completed
  /\ place[r] \in {"format", "copy"} => count[r] = 0 /\ completed
  /\ place[r] = "closed" => count[r] = 0

Alone ==
  /\ \A r, o \in Readers : place[r] # "closed" /\ place[o] # "closed" => r = o
  /\ (\A r \in Readers : place[r] = "closed") /\ completed => latest = "cut short"
  /\ \A r \in Readers : Reading(r)

LoneInv == FileTypes /\ LoneReaderServed /\ (~ overlapped => Alone)

\* Nobody has the file open at the start.
LEMMA LoneStart == FileInit => LoneInv
<1> SUFFICES ASSUME FileInit PROVE LoneInv
  OBVIOUS
<1>1. LoneReaderServed /\ Alone
  BY DEF FileInit, LoneReaderServed, Alone, Reading
<1>2. QED
  BY <1>1, TypeStart DEF LoneInv

\* Steps of the reader that has the file open.
LEMMA LoneReaderStep ==
  ASSUME LoneInv, FileTypes', ~ overlapped', NEW r \in Readers,
         Abandon(r) \/ ReadStep(r)
  PROVE  LoneReaderServed' /\ Alone'
<1> USE DEF FileTypes, CallsOK, ObservedOK, Goto
<1>1. ~ overlapped
  BY ReaderSteps DEF Abandon, Ends, Test, Reset, Mark, Copy, Lookup, Fails, Format, observed
<1>2. Alone /\ LoneReaderServed /\ Reading(r)
  BY <1>1 DEF LoneInv, Alone
<1>3. place[r] # "closed" /\ \A o \in Readers \ {r} : place[o] = "closed" /\ count[o] = 0
  <2>1. place[r] # "closed"
    BY ReaderSteps DEF Abandon, Test, Reset, Mark, Copy, Lookup, Fails, Format, LoneInv
  <2>2. QED
    BY <1>2, <2>1 DEF Alone, Reading
<1>4. ASSUME NEW from, NEW to, Goto(r, from, to), to # "closed",
             \A o \in Readers \ {r} : count'[o] = count[o], Reading(r)',
             previous' = previous, latest' = latest
      PROVE  LoneReaderServed' /\ Alone'
  <2>1. place'[r] = to /\ \A o \in Readers \ {r} : place'[o] = "closed" /\ count'[o] = 0
    BY <1>3, <1>4 DEF LoneInv
  <2>2. LoneReaderServed'
    BY <1>2, <1>1, <1>4 DEF LoneReaderServed
  <2>3. QED
    BY <1>4, <2>1, <2>2 DEF Alone, Reading
<1>5. ASSUME NEW from, Goto(r, from, "closed"), NEW outcome, Ends(r, outcome),
             outcome # "repeated", outcome = "nothing" => latest = "cut short",
             completed' => outcome = "cut short"
      PROVE  LoneReaderServed' /\ Alone'
  <2>1. \A o \in Readers : place'[o] = "closed" /\ count'[o] = 0
    BY <1>3, <1>5 DEF LoneInv, Ends
  <2>2. previous' = latest /\ latest' = outcome
    BY <1>1, <1>5 DEF Ends
  <2>3. QED
    BY <1>5, <2>1, <2>2 DEF LoneReaderServed, Alone, Reading
<1>6. CASE Abandon(r) \/ Fails(r)
  <2>1. Goto(r, "test", "closed") \/ Goto(r, "format", "closed") \/ Goto(r, "copy", "closed")
    BY <1>6 DEF Abandon, Fails
  <2>2. Ends(r, "cut short")
    BY <1>6 DEF Abandon, Fails
  <2>3. QED
    BY <1>5, <2>1, <2>2
<1>7. CASE Reset(r)
  <2>1. Goto(r, "reset", "closed") /\ ~ completed' /\ Ends(r, Outcome(r))
    BY <1>7 DEF Reset
  <2>2. Marked(r)
    BY <1>2, <2>1 DEF Reading
  <2>3. Outcome(r) # "repeated" /\ (Outcome(r) = "nothing" => latest = "cut short")
    <3>1. CASE count[r] = 1
      BY <3>1 DEF Outcome
    <3>2. CASE count[r] = 0 /\ latest = "cut short"
      BY <3>2 DEF Outcome
    <3>3. QED
      BY <2>2, <3>1, <3>2 DEF Marked
  <2>4. QED
    BY <1>5, <2>1, <2>3
<1>8. CASE Mark(r)
  <2>1. /\ place[r] = "mark" /\ place'[r] = "format" /\ completed'
        /\ count' = count /\ previous' = previous /\ latest' = latest
    BY <1>8 DEF Mark, observed, LoneInv
  <2>2. Reading(r)'
    BY <1>2, <2>1 DEF Reading
  <2>3. QED
    BY <1>4, <1>8, <2>1, <2>2 DEF Mark
<1>9. CASE Lookup(r)
  <2>1. /\ place[r] = "lookup" /\ place'[r] = "mark" /\ completed' = completed
        /\ count' = count /\ previous' = previous /\ latest' = latest
    BY <1>9 DEF Lookup, observed, LoneInv
  <2>2. Reading(r)'
    BY <1>2, <2>1 DEF Reading
  <2>3. QED
    BY <1>4, <1>9, <2>1, <2>2 DEF Lookup
<1>10. ASSUME NEW next \in {"mark", "lookup"}, Test(r, next) PROVE LoneReaderServed' /\ Alone'
  <2>1. /\ place[r] = "test" /\ place'[r] = (IF completed THEN "reset" ELSE next)
        /\ completed' = completed
        /\ count' = count /\ previous' = previous /\ latest' = latest
    BY <1>10 DEF Test, observed, LoneInv
  <2>2. Reading(r)'
    BY <1>2, <2>1 DEF Reading, Marked
  <2>3. Goto(r, "test", "reset") \/ Goto(r, "test", next)
    BY <1>10 DEF Test
  <2>4. QED
    BY <1>4, <2>1, <2>2, <2>3
<1>11. ASSUME NEW v, Format(r, v) PROVE LoneReaderServed' /\ Alone'
  <2>1. /\ place[r] = "format" /\ place'[r] = "copy" /\ completed' = completed
        /\ count' = count /\ previous' = previous /\ latest' = latest
    BY <1>11 DEF Format, observed, LoneInv
  <2>2. Reading(r)'
    BY <1>2, <2>1 DEF Reading
  <2>3. QED
    BY <1>4, <1>11, <2>1, <2>2 DEF Format
<1>12. CASE Copy(r)
  <2>1. /\ place[r] = "copy" /\ place'[r] = "test" /\ completed' = completed
        /\ previous' = previous /\ latest' = latest
    BY <1>12 DEF Copy, LoneInv
  <2>2. count' = [count EXCEPT ![r] = IF @ = 0 THEN 1 ELSE 2]
    BY <1>12 DEF Copy
  <2>3. count[r] = 0 /\ count'[r] = 1 /\ \A o \in Readers \ {r} : count'[o] = count[o]
    BY <1>2, <2>1, <2>2 DEF Reading, LoneInv
  <2>4. Reading(r)'
    BY <1>2, <2>1, <2>3 DEF Reading, Marked
  <2>5. QED
    BY <1>4, <1>12, <2>1, <2>3, <2>4 DEF Copy
<1>13. QED
  BY <1>6, <1>7, <1>8, <1>9, <1>10, <1>11, <1>12, ReaderSteps

\* A process that opens the file finds it as the last one left it.
LEMMA LoneOpens ==
  ASSUME LoneInv, FileTypes', ~ overlapped', NEW r \in Readers, Open(r)
  PROVE  LoneReaderServed' /\ Alone'
<1> USE DEF FileTypes, CallsOK, ObservedOK, Goto
<1>1. /\ \A o \in Readers : place[o] = "closed"
      /\ ~ overlapped /\ previous' = previous /\ latest' = latest
  BY DEF Open
<1>2. Alone /\ LoneReaderServed
  BY <1>1 DEF LoneInv
<1>3. /\ completed' = completed /\ count' = count
      /\ place'[r] = "test" /\ \A o \in Readers \ {r} : place'[o] = "closed"
  BY <1>1 DEF Open, LoneInv
<1>4. QED
  BY <1>1, <1>2, <1>3 DEF LoneReaderServed, Alone, Reading, Marked

LEMMA LoneStep ==
  ASSUME LoneInv, [FileNext]_fileVars
  PROVE  LoneInv'
<1>1. FileTypes'
  BY TypeStep DEF LoneInv
<1>2. ASSUME overlapped' PROVE LoneInv'
  BY <1>1, <1>2 DEF LoneInv, LoneReaderServed
<1>3. ASSUME ~ overlapped', UNCHANGED <<completed, place, observed>> PROVE LoneInv'
  BY <1>1, <1>3 DEF LoneInv, LoneReaderServed, Alone, Reading, Marked, observed
<1>4. ASSUME ~ overlapped', NEW r \in Readers, Open(r) \/ Abandon(r) \/ ReadStep(r) PROVE LoneInv'
  BY <1>1, <1>4, LoneReaderStep, LoneOpens DEF LoneInv
<1>5. QED
  BY <1>2, <1>3, <1>4 DEF FileNext, WritePid, StartOrExit, Tick, fileVars

(***************************************************************************)
(* A reading that no other overlaps gets its value exactly once, unless    *)
(* the reading before it left completed set (jiffies.c:36-41,              *)
(* seconds.c:38-43, pid.c:69-81).                                          *)
(***************************************************************************)
THEOREM LoneReadings == FileSpec => []LoneReaderServed
<1>1. LoneInv /\ [FileNext]_fileVars => LoneInv'
  BY LoneStep
<1>2. LoneInv => LoneReaderServed
  BY DEF LoneInv
<1>3. QED
  BY <1>1, <1>2, LoneStart, PTL DEF FileSpec

=============================================================================
