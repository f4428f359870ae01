-------------------------- MODULE RepoIndexProofs --------------------------
(***************************************************************************)
(* Theorems about RepoIndex: for any number of sessions, files, versions of *)
(* a file and sizes of a window, a name's code takes one point, a point    *)
(* locates its code, and a session that holds the store has its whole      *)
(* worktree indexed.                                                       *)
(***************************************************************************)
EXTENDS RepoIndex, Induction

-----------------------------------------------------------------------------
(* Lines and windows. *)

\* The lines of a window, of an overlap and of a step are numbers.
LEMMA WindowSizes ==
    /\ chunk_size \in Nat \ {0} /\ overlap \in Nat \ {0} /\ step \in Nat \ {0}
    /\ step < chunk_size
<1>1. ASSUME NEW tokens \in Nat PROVE LinesFor(tokens) \in Nat \ {0}
  <2>1. (10 * tokens) \div 13 \in Nat
    OBVIOUS
  <2> DEFINE m == IF (10 * tokens) \div 13 > 1 THEN (10 * tokens) \div 13 ELSE 1
  <2>2. m \in {1, (10 * tokens) \div 13} /\ \A y \in {1, (10 * tokens) \div 13} : m >= y
    BY <2>1
  <2>3. LinesFor(tokens) \in {1, (10 * tokens) \div 13}
        /\ \A y \in {1, (10 * tokens) \div 13} : LinesFor(tokens) >= y
    <3> HIDE DEF m
    <3> QED
      BY <2>2 DEF LinesFor, Max
  <2> QED
    BY <2>1, <2>3
<1> QED
  BY <1>1, ChunkerAssumption, StepAssumption DEF chunk_size, overlap, step

\* The lesser of two numbers.
LEMMA Lesser ==
    ASSUME NEW m \in Int, NEW n \in Int
    PROVE  Min({m, n}) = IF m <= n THEN m ELSE n
<1> DEFINE l == IF m <= n THEN m ELSE n
<1>1. l \in {m, n} /\ \A y \in {m, n} : l <= y
  OBVIOUS
<1>2. Min({m, n}) \in {m, n} /\ \A y \in {m, n} : Min({m, n}) <= y
  <2> HIDE DEF l
  <2> QED
    BY <1>1 DEF Min
<1> QED
  BY <1>2

\* Some lines of a text.
LEMMA Lines ==
    ASSUME NEW T, NEW text \in Seq(T), NEW first \in Nat \ {0}, NEW last \in Int,
           first <= last + 1, last <= Len(text)
    PROVE  /\ SubSeq(text, first, last) \in Seq(T)
           /\ Len(SubSeq(text, first, last)) = last - first + 1
           /\ \A n \in 1 .. last - first + 1 : SubSeq(text, first, last)[n] = text[first + n - 1]
  OBVIOUS

\* Texts with the same lines are the same.
LEMMA SameLines ==
    ASSUME NEW T, NEW a \in Seq(T), NEW b \in Seq(T), Len(a) = Len(b),
           \A n \in 1 .. Len(a) : a[n] = b[n]
    PROVE  a = b
  OBVIOUS

\* Some lines of some lines of a text.
LEMMA LinesOfLines ==
    ASSUME NEW text \in Seq(Nat), NEW first \in Nat \ {0}, NEW last \in Int,
           first <= last + 1, last <= Len(text),
           NEW f \in Nat \ {0}, NEW l \in Int, f <= l + 1, l <= last - first + 1
    PROVE  SubSeq(SubSeq(text, first, last), f, l) = SubSeq(text, first + f - 1, first + l - 1)
<1> DEFINE inner == SubSeq(text, first, last)
           a == SubSeq(inner, f, l)
           b == SubSeq(text, first + f - 1, first + l - 1)
<1>1. /\ inner \in Seq(Nat) /\ Len(inner) = last - first + 1
      /\ \A n \in 1 .. last - first + 1 : inner[n] = text[first + n - 1]
  BY Lines
<1> HIDE DEF inner
<1>2. /\ a \in Seq(Nat) /\ Len(a) = l - f + 1
      /\ \A n \in 1 .. l - f + 1 : a[n] = inner[f + n - 1]
  BY <1>1, Lines
<1>3. /\ b \in Seq(Nat) /\ Len(b) = l - f + 1
      /\ \A n \in 1 .. l - f + 1 : b[n] = text[first + f - 1 + n - 1]
  <2>1. first + f - 1 \in Nat \ {0} /\ first + l - 1 \in Int
        /\ first + f - 1 <= first + l - 1 + 1 /\ first + l - 1 <= Len(text)
    OBVIOUS
  <2>2. first + l - 1 - (first + f - 1) + 1 = l - f + 1
    OBVIOUS
  <2> QED
    BY <2>1, <2>2, Lines
<1> HIDE DEF a, b
<1>4. ASSUME NEW n \in 1 .. Len(a) PROVE a[n] = b[n]
  <2>1. f + n - 1 \in 1 .. last - first + 1 /\ n \in 1 .. l - f + 1
    BY <1>2
  <2>2. first + (f + n - 1) - 1 = first + f - 1 + n - 1
    OBVIOUS
  <2> QED
    BY <1>1, <1>2, <1>3, <2>1, <2>2
<1>5. a = b
  BY <1>2, <1>3, <1>4, SameLines
<1> QED
  BY <1>5 DEF a, b, inner

\* A place to step from is one to step to.
LEMMA NextStep ==
    ASSUME NEW m \in Nat \ {0}, NEW i \in Nat, i % m = 0
    PROVE  (i + m) % m = 0
<1>1. i = m * (i \div m) /\ i \div m \in Nat
  OBVIOUS
<1>2. PICK q \in Nat : i = m * q
  BY <1>1
<1> DEFINE x == i + m
           d == x \div m
           r == x % m
<1>3. x \in Nat /\ x = m * (q + 1)
  BY <1>2
<1>4. d \in Nat /\ r \in 0 .. m - 1 /\ x = m * d + r
  BY <1>3
<1> HIDE DEF x, d, r
<1>5. PICK k \in Int : k = q + 1 - d
  BY <1>4
<1>6. m * k = r
  BY <1>3, <1>4, <1>5
<1>7. ~(k >= 1)
  <2>1. k >= 1 => m * k >= m
    OBVIOUS
  <2> QED
    BY <1>4, <1>6, <2>1
<1>8. ~(k <= -1)
  <2>1. k <= -1 => m * k <= -m
    OBVIOUS
  <2> QED
    BY <1>4, <1>6, <2>1
<1>9. k = 0
  BY <1>7, <1>8
<1> QED
  BY <1>6, <1>9 DEF r, x

-----------------------------------------------------------------------------
(* The chunks of a file. *)

\* The windows of a chunk keep its name, and begin as far behind it as they say.
LEMMA Windows ==
    ASSUME NEW fqn, NEW content, NEW start
    PROVE  _split_oversized_chunks(Chunk(fqn, content, start)) =
               IF ~Oversized(content) THEN {Chunk(fqn, content, start)}
               ELSE {Chunk(fqn, Window(content, i), start + i) : i \in WindowStarts(content)}
<1> DEFINE chunk == Chunk(fqn, content, start)
<1>1. chunk.fqn = fqn /\ chunk.content = content /\ chunk.start = start
  BY DEF Chunk
<1> HIDE DEF chunk
<1>2. _split_oversized_chunks(chunk) =
        IF ~Oversized(content) THEN {chunk}
        ELSE {Chunk(fqn, Window(content, i), start + i) : i \in WindowStarts(content)}
  BY <1>1 DEF _split_oversized_chunks
<1> QED
  BY <1>2 DEF chunk

\* A window has lines of the text, from where it begins on.
LEMMA WindowLines ==
    ASSUME NEW content \in Seq(Nat), NEW i \in WindowStarts(content)
    PROVE  LET last == IF i + chunk_size <= Len(content) THEN i + chunk_size ELSE Len(content)
           IN  /\ i \in Nat /\ last \in Nat /\ i + 1 <= last /\ last <= Len(content)
               /\ Window(content, i) = SubSeq(content, i + 1, last)
<1>1. i \in Nat /\ i < Len(content) /\ Len(content) \in Nat
  BY DEF WindowStarts
<1>2. chunk_size \in Nat \ {0}
  BY WindowSizes
<1>3. i + chunk_size \in Int
  BY <1>1, <1>2
<1>4. Min({i + chunk_size, Len(content)})
      = IF i + chunk_size <= Len(content) THEN i + chunk_size ELSE Len(content)
  BY <1>1, <1>3, Lesser
<1> DEFINE last == IF i + chunk_size <= Len(content) THEN i + chunk_size ELSE Len(content)
<1>5. Window(content, i) = SubSeq(content, i + 1, last)
  BY <1>4 DEF Window
<1>6. i \in Nat /\ last \in Nat /\ i + 1 <= last /\ last <= Len(content)
  BY <1>1, <1>2, <1>3
<1> QED
  BY <1>5, <1>6

\* Each line of a text is in one of its windows.
LEMMA WindowFor ==
    ASSUME NEW content \in Seq(Nat), NEW n \in 1 .. Len(content)
    PROVE  \E i \in WindowStarts(content) : i < n /\ n <= i + chunk_size
<1> DEFINE before == {i \in 0 .. n - 1 : i % step = 0}
<1>1. step \in Nat \ {0} /\ chunk_size \in Nat \ {0} /\ step < chunk_size
  BY WindowSizes
<1>2. n - 1 \in Nat /\ before \subseteq 0 .. n - 1 /\ 0 \in before
  BY <1>1
<1>3. PICK i \in before : \A j \in before : j <= i
  <2> HIDE DEF before
  <2> QED
    BY <1>2, Greatest
<1>a. i \in Nat /\ i <= n - 1 /\ i % step = 0
  BY <1>3
<1>4. (i + step) % step = 0
  BY <1>1, <1>a, NextStep
<1>5. i + step \notin 0 .. n - 1
  <2>1. i + step \in 0 .. n - 1 => i + step \in before
    BY <1>4
  <2> HIDE DEF before
  <2>2. ~(i + step <= i)
    BY <1>1, <1>a
  <2> QED
    BY <1>3, <2>1, <2>2
<1>6. n <= i + chunk_size
  BY <1>1, <1>a, <1>5
<1> QED
  BY <1>a, <1>6 DEF WindowStarts

\* What a chunk of a file has to be: the lines of the file from its start on.
InFile(chunk, lines) ==
    /\ chunk.content \in Seq(Nat)
    /\ chunk.start \in Nat \ {0}
    /\ 1 <= Len(chunk.content)
    /\ chunk.start + Len(chunk.content) - 1 <= Len(lines)
    /\ chunk.content = SubSeq(lines, chunk.start, chunk.start + Len(chunk.content) - 1)

\* The chunk of a definition is its lines.
LEMMA DefinitionChunk ==
    ASSUME NEW source \in Sources, NEW d \in DOMAIN source.definitions, NEW fqn
    PROVE  LET e == source.definitions[d]
           IN  /\ source.lines \in Seq(Nat)
               /\ e.first \in Nat \ {0} /\ e.last \in Nat
               /\ e.first <= e.last /\ e.last <= Len(source.lines)
               /\ InFile(Chunk(fqn, SubSeq(source.lines, e.first, e.last), e.first), source.lines)
               /\ Len(SubSeq(source.lines, e.first, e.last)) = e.last - e.first + 1
<1> DEFINE e == source.definitions[d]
           text == SubSeq(source.lines, e.first, e.last)
<1>1. source.definitions \in Seq(Definition) /\ source.lines \in Seq(Nat)
  BY SourcesAssumption
<1>2. e \in Definition
  BY <1>1
<1>3. e.first \in Nat \ {0} /\ e.last \in Nat
  BY <1>2 DEF Definition
<1>4. e.first <= e.last /\ e.last <= Len(source.lines)
  BY SourcesAssumption
<1>5. text \in Seq(Nat) /\ Len(text) = e.last - e.first + 1
  BY <1>1, <1>3, <1>4, Lines
<1>6. e.first + Len(text) - 1 = e.last
  BY <1>3, <1>5
<1> HIDE DEF e
<1>7. InFile(Chunk(fqn, text, e.first), source.lines)
  <2> DEFINE c == Chunk(fqn, text, e.first)
  <2>1. c.content = text /\ c.start = e.first
    BY DEF Chunk
  <2>2. text = SubSeq(source.lines, e.first, e.first + Len(text) - 1)
    BY <1>6
  <2> HIDE DEF c, text
  <2>3. 1 <= Len(text)
    BY <1>3, <1>4, <1>5
  <2>4. InFile(c, source.lines)
    BY <1>3, <1>4, <1>5, <1>6, <2>1, <2>2, <2>3 DEF InFile
  <2> QED
    BY <2>4 DEF c
<1> QED
  BY <1>1, <1>3, <1>4, <1>5, <1>7 DEF e

\* A chunk is what its file has at the place it says, and a window of it too.
LEMMA ChunksLocate ==
    ASSUME NEW source \in Sources, NEW c \in chunk_file(source)
    PROVE  InFile(c, source.lines)
<1>1. PICK w \in _extract_chunks(source) : c \in _split_oversized_chunks(w)
  BY DEF chunk_file
<1>2. PICK d \in DOMAIN source.definitions : \E p :
        w = Chunk(_build_fqn(source.definitions[d], p),
                  SubSeq(source.lines, source.definitions[d].first, source.definitions[d].last),
                  source.definitions[d].first)
  BY DEF _extract_chunks, Chunk
<1>a. PICK p :
        w = Chunk(_build_fqn(source.definitions[d], p),
                  SubSeq(source.lines, source.definitions[d].first, source.definitions[d].last),
                  source.definitions[d].first)
  BY <1>2
<1> DEFINE e == source.definitions[d]
           fqn == _build_fqn(e, p)
           text == SubSeq(source.lines, e.first, e.last)
<1>3. /\ source.lines \in Seq(Nat)
      /\ e.first \in Nat \ {0} /\ e.last \in Nat
      /\ e.first <= e.last /\ e.last <= Len(source.lines)
      /\ InFile(Chunk(fqn, text, e.first), source.lines)
      /\ Len(text) = e.last - e.first + 1
  BY DefinitionChunk
<1>4. w = Chunk(fqn, text, e.first)
  BY <1>a
<1>5. text \in Seq(Nat)
  BY <1>3, Lines
<1> HIDE DEF e, fqn
<1>6. CASE c = w
  BY <1>3, <1>4, <1>6
<1>7. CASE c # w
  <2>1. PICK i \in WindowStarts(text) : c = Chunk(fqn, Window(text, i), e.first + i)
    BY <1>1, <1>4, <1>7, Windows
  <2> DEFINE last == IF i + chunk_size <= Len(text) THEN i + chunk_size ELSE Len(text)
             start == e.first + i
  <2>2. /\ i \in Nat /\ last \in Nat /\ i + 1 <= last /\ last <= Len(text)
        /\ Window(text, i) = SubSeq(text, i + 1, last)
    BY <1>5, WindowLines
  <2> HIDE DEF last
  <2>a. i + 1 \in Nat \ {0} /\ last \in Int /\ i + 1 <= last + 1 /\ last - (i + 1) + 1 = last - i
        /\ last <= e.last - e.first + 1
    BY <1>3, <2>2
  <2>3. Window(text, i) \in Seq(Nat) /\ Len(Window(text, i)) = last - i
    <3> HIDE DEF text
    <3>1. SubSeq(text, i + 1, last) \in Seq(Nat)
          /\ Len(SubSeq(text, i + 1, last)) = last - (i + 1) + 1
      BY <1>5, <2>2, <2>a, Lines
    <3> QED
      BY <2>2, <2>a, <3>1
  <2>4. SubSeq(text, i + 1, last) = SubSeq(source.lines, e.first + (i + 1) - 1, e.first + last - 1)
    <3>1. e.first <= e.last + 1 /\ e.last \in Int
      BY <1>3
    <3> HIDE DEF text
    <3>2. SubSeq(SubSeq(source.lines, e.first, e.last), i + 1, last)
          = SubSeq(source.lines, e.first + (i + 1) - 1, e.first + last - 1)
      BY <1>3, <2>2, <2>a, <3>1, LinesOfLines
    <3> QED
      BY <3>2 DEF text
  <2>5. e.first + (i + 1) - 1 = start /\ e.first + last - 1 = start + Len(Window(text, i)) - 1
    BY <1>3, <2>2, <2>3
  <2>6. Window(text, i) = SubSeq(source.lines, start, start + Len(Window(text, i)) - 1)
    BY <2>2, <2>4, <2>5
  <2>7. c.content = Window(text, i) /\ c.start = start
    BY <2>1 DEF Chunk
  <2>8. start \in Nat \ {0} /\ 1 <= Len(Window(text, i))
        /\ start + Len(Window(text, i)) - 1 <= Len(source.lines)
    BY <1>3, <2>2, <2>3
  <2> HIDE DEF start, text
  <2> QED
    BY <2>3, <2>6, <2>7, <2>8 DEF InFile
<1> QED
  BY <1>6, <1>7

-----------------------------------------------------------------------------
(* The names of the definitions of a file. *)

Names == Seq(STRING)

\* What a definition stands in begins before it, ends no sooner, and stands itself in
\* nothing else than the definition does.
LEMMA AroundIt ==
    ASSUME NEW defs \in Seq(Definition), NEW d \in DOMAIN defs
    PROVE  /\ Around(defs, d) \in 0 .. d - 1
           /\ Around(defs, d) # 0 =>
                /\ Around(defs, d) \in DOMAIN defs
                /\ Around(defs, d) \in StandsIn(defs, d)
                /\ StandsIn(defs, Around(defs, d)) \subseteq StandsIn(defs, d)
<1> DEFINE outer == {e \in 1 .. d - 1 : defs[e].last >= defs[d].last}
           n == Len(defs)
<1>0. n \in Nat /\ DOMAIN defs = 1 .. n /\ d \in Nat \ {0} /\ d <= n
  OBVIOUS
<1>1. {0} \cup outer \subseteq 0 .. d - 1 /\ d - 1 \in Nat /\ {0} \cup outer # {}
  BY <1>0
<1>2. PICK g \in {0} \cup outer : \A m \in {0} \cup outer : m <= g
  <2> HIDE DEF outer
  <2> QED
    BY <1>1, Greatest
<1>3. \A m \in {0} \cup outer : g >= m
  BY <1>1, <1>2
<1>4. Around(defs, d) \in {0} \cup outer
  <2>1. Around(defs, d) = Max({0} \cup outer)
    BY DEF Around
  <2> HIDE DEF outer
  <2> QED
    BY <1>3, <2>1 DEF Max
<1> HIDE DEF n
<1>5. \A e \in 1 .. n : defs[e].last \in Nat
  <2>1. \A e \in 1 .. n : defs[e] \in Definition
    BY <1>0
  <2> QED
    BY <2>1 DEF Definition
<1>6. ASSUME NEW e \in outer
      PROVE  e \in DOMAIN defs /\ e \in StandsIn(defs, d)
             /\ StandsIn(defs, e) \subseteq StandsIn(defs, d)
  <2>1. e \in 1 .. n /\ e < d
    BY <1>0
  <2>2. ASSUME NEW o \in 1 .. e - 1, defs[o].last >= defs[e].last
        PROVE  o \in 1 .. d - 1 /\ defs[o].last >= defs[d].last
    <3>1. o \in 1 .. n /\ o \in 1 .. d - 1
      BY <1>0, <2>1
    <3>2. defs[o].last \in Nat /\ defs[e].last \in Nat /\ defs[d].last \in Nat
      BY <1>0, <1>5, <2>1, <3>1
    <3> QED
      BY <2>2, <3>1, <3>2
  <2> QED
    BY <1>0, <2>1, <2>2 DEF StandsIn
<1> QED
  BY <1>1, <1>4, <1>6

\* A definition's full name is that of what it stands in, and its own.
LEMMA QualifiedName ==
    ASSUME NEW defs \in Seq(Definition)
    PROVE  /\ QualifiedNames(defs)[0] = <<>>
           /\ \A d \in DOMAIN defs :
                QualifiedNames(defs)[d] = Append(QualifiedNames(defs)[Around(defs, d)], defs[d].name)
<1> DEFINE n    == Len(defs)
           T    == Names
           none == <<>>
           from == [d \in 1 .. n |-> Around(defs, d)]
           F    == [d \in Nat |-> [q \in T |-> IF d \in 1 .. n THEN Append(q, defs[d].name) ELSE q]]
           next(h) == [d \in 0 .. n |-> IF d = 0 THEN none ELSE Append(h[Around(defs, d)], defs[d].name)]
           name == CHOOSE h : h = next(h)
<1>0. n \in Nat /\ DOMAIN defs = 1 .. n /\ none \in T /\ \A d \in 1 .. n : defs[d].name \in STRING
  <2>1. \A d \in 1 .. n : defs[d] \in Definition
    OBVIOUS
  <2> QED
    BY <2>1 DEF Names, Definition
<1>1. F \in StepsIn(T)
  <2>1. \A q \in T, d \in 1 .. n : Append(q, defs[d].name) \in T
    BY <1>0 DEF Names
  <2> QED
    BY <2>1 DEF StepsIn
<1>2. \A d \in 1 .. n, q \in T : F[d][q] = Append(q, defs[d].name)
  BY <1>0
<1>3. \A d \in 1 .. n : Around(defs, d) \in 0 .. d - 1
  BY <1>0, AroundIt
<1>4. from \in LesserOnes(n) /\ \A d \in 1 .. n : from[d] = Around(defs, d)
  BY <1>0, <1>3 DEF LesserOnes
<1>a. QualifiedNames(defs) = name
  BY DEF QualifiedNames
<1> HIDE DEF F, none, from
<1>5. PICK f \in ValuesIn(T, n) : Descends(f, F, from, none, n)
  <2> HIDE DEF T, n
  <2> QED
    BY <1>0, <1>1, <1>4, Descent
<1>6. f = next(f)
  <2>1. ASSUME NEW d \in 0 .. n
        PROVE  f[d] = IF d = 0 THEN none ELSE Append(f[Around(defs, d)], defs[d].name)
    <3>1. CASE d = 0
      BY <1>5, <3>1 DEF Descends
    <3>2. CASE d # 0
      <4>1. d \in 1 .. n /\ Around(defs, d) \in 0 .. n
        BY <1>0, <1>3, <3>2
      <4>2. f[Around(defs, d)] \in T
        BY <1>5, <4>1 DEF ValuesIn
      <4>3. f[d] = F[d][f[Around(defs, d)]]
        BY <1>4, <1>5, <4>1 DEF Descends
      <4> HIDE DEF T
      <4> QED
        BY <1>2, <3>2, <4>1, <4>2, <4>3
    <3> QED
      BY <3>1, <3>2
  <2> QED
    BY <1>5, <2>1 DEF ValuesIn
<1>7. name = next(name)
  <2> HIDE DEF next
  <2> QED
    BY <1>6, Zenon
<1> HIDE DEF name
<1>8. \A d \in 0 .. n :
        name[d] = IF d = 0 THEN none ELSE Append(name[Around(defs, d)], defs[d].name)
  <2>1. \A d \in 0 .. n : next(name)[d] = IF d = 0 THEN none
                                           ELSE Append(name[Around(defs, d)], defs[d].name)
    OBVIOUS
  <2>2. \A d : name[d] = next(name)[d]
    <3> HIDE DEF next
    <3> QED
      BY <1>7, Zenon
  <2> QED
    BY <2>1, <2>2
<1> HIDE DEF next
<1>9. 0 \in 0 .. n /\ \A d \in DOMAIN defs : d \in 0 .. n /\ d # 0
  BY <1>0
<1> QED
  BY <1>8, <1>9, <1>a DEF none

\* The calls of walk for a definition carry the names that those for what it stands in
\* carry, and a class's own name too.
LEMMA ParentFqns ==
    ASSUME NEW defs \in Seq(Definition)
    PROVE  /\ parent_fqns(defs)[0] = {<<>>}
           /\ \A d \in DOMAIN defs :
                parent_fqns(defs)[d] =
                    IF Around(defs, d) = 0 THEN parent_fqns(defs)[Around(defs, d)]
                    ELSE parents_below(defs[Around(defs, d)], parent_fqns(defs)[Around(defs, d)])
<1> DEFINE n    == Len(defs)
           T    == SUBSET Names
           none == {<<>>}
           below(d, P) == IF Around(defs, d) = 0 THEN P ELSE parents_below(defs[Around(defs, d)], P)
           from == [d \in 1 .. n |-> Around(defs, d)]
           F    == [d \in Nat |-> [P \in T |-> IF d \in 1 .. n THEN below(d, P) ELSE P]]
           next(h) == [d \in 0 .. n |->
                         IF d = 0 THEN none
                         ELSE IF Around(defs, d) = 0 THEN h[Around(defs, d)]
                         ELSE parents_below(defs[Around(defs, d)], h[Around(defs, d)])]
           parents == CHOOSE h : h = next(h)
<1>0. n \in Nat /\ DOMAIN defs = 1 .. n /\ none \in T /\ \A d \in 1 .. n : defs[d].name \in STRING
  <2>1. \A d \in 1 .. n : defs[d] \in Definition
    OBVIOUS
  <2> QED
    BY <2>1 DEF Names, Definition
<1>3. \A d \in 1 .. n : Around(defs, d) \in 0 .. d - 1
  BY <1>0, AroundIt
<1>b. ASSUME NEW P \in T, NEW d \in 1 .. n PROVE below(d, P) \in T
  <2>1. CASE Around(defs, d) = 0
    BY <2>1
  <2>2. CASE Around(defs, d) # 0
    <3>1. Around(defs, d) \in 1 .. n
      BY <1>0, <1>3, <2>2
    <3>2. \A q \in Names : Append(q, defs[Around(defs, d)].name) \in Names
      BY <1>0, <3>1 DEF Names
    <3>3. parents_below(defs[Around(defs, d)], P) \subseteq Names
      BY <3>2 DEF parents_below, _build_fqn
    <3> QED
      BY <2>2, <3>3
  <2> QED
    BY <2>1, <2>2
<1>1. F \in StepsIn(T)
  <2> HIDE DEF below
  <2> QED
    BY <1>b DEF StepsIn
<1>2. \A d \in 1 .. n, P \in T : F[d][P] = below(d, P)
  <2> HIDE DEF below
  <2> QED
    BY <1>0
<1>4. from \in LesserOnes(n) /\ \A d \in 1 .. n : from[d] = Around(defs, d)
  BY <1>0, <1>3 DEF LesserOnes
<1>a. parent_fqns(defs) = parents
  BY DEF parent_fqns
<1> HIDE DEF F, none, from
<1>5. PICK f \in ValuesIn(T, n) : Descends(f, F, from, none, n)
  <2> HIDE DEF T, n
  <2> QED
    BY <1>0, <1>1, <1>4, Descent
<1>6. f = next(f)
  <2>1. ASSUME NEW d \in 0 .. n
        PROVE  f[d] = IF d = 0 THEN none
                      ELSE IF Around(defs, d) = 0 THEN f[Around(defs, d)]
                      ELSE parents_below(defs[Around(defs, d)], f[Around(defs, d)])
    <3>1. CASE d = 0
      BY <1>5, <3>1 DEF Descends
    <3>2. CASE d # 0
      <4>1. d \in 1 .. n /\ Around(defs, d) \in 0 .. n
        BY <1>0, <1>3, <3>2
      <4>2. f[Around(defs, d)] \in T
        BY <1>5, <4>1 DEF ValuesIn
      <4>3. f[d] = F[d][f[Around(defs, d)]]
        BY <1>4, <1>5, <4>1 DEF Descends
      <4> HIDE DEF T
      <4> QED
        BY <1>2, <3>2, <4>1, <4>2, <4>3
    <3> QED
      BY <3>1, <3>2
  <2> QED
    BY <1>5, <2>1 DEF ValuesIn
<1>7. parents = next(parents)
  <2> HIDE DEF next
  <2> QED
    BY <1>6, Zenon
<1> HIDE DEF parents
<1>8. \A d \in 0 .. n :
        parents[d] = IF d = 0 THEN none
                     ELSE IF Around(defs, d) = 0 THEN parents[Around(defs, d)]
                     ELSE parents_below(defs[Around(defs, d)], parents[Around(defs, d)])
  <2>1. \A d \in 0 .. n :
          next(parents)[d] = IF d = 0 THEN none
                             ELSE IF Around(defs, d) = 0 THEN parents[Around(defs, d)]
                             ELSE parents_below(defs[Around(defs, d)], parents[Around(defs, d)])
    OBVIOUS
  <2>2. \A d : parents[d] = next(parents)[d]
    <3> HIDE DEF next
    <3> QED
      BY <1>7, Zenon
  <2> QED
    BY <2>1, <2>2
<1> HIDE DEF next
<1>9. 0 \in 0 .. n /\ \A d \in DOMAIN defs : d \in 0 .. n /\ d # 0
  BY <1>0
<1> QED
  BY <1>8, <1>9, <1>a DEF none

\* A definition that stands in classes only has one of its names from walk in full.
LEMMA FullNameGiven ==
    ASSUME NEW defs \in Seq(Definition), NEW d \in Importable(defs)
    PROVE  QualifiedNames(defs)[Around(defs, d)] \in parent_fqns(defs)[d]
<1> DEFINE given(e) == QualifiedNames(defs)[Around(defs, e)] \in parent_fqns(defs)[e]
           missed == {e \in Importable(defs) : ~given(e)}
<1>1. missed \subseteq Nat
  BY DEF Importable
<1> SUFFICES ASSUME missed # {} PROVE FALSE
  OBVIOUS
<1>2. PICK e \in missed : \A m \in missed : e <= m
  <2> HIDE DEF missed
  <2> QED
    BY <1>1, Least
<1>3. e \in DOMAIN defs /\ e \in Importable(defs) /\ e \in Nat
  BY DEF Importable
<1> DEFINE o == Around(defs, e)
<1>4. CASE o = 0
  <2>1. parent_fqns(defs)[e] = {<<>>} /\ QualifiedNames(defs)[o] = <<>>
    BY <1>3, <1>4, ParentFqns, QualifiedName
  <2> QED
    BY <2>1
<1>5. CASE o # 0
  <2>1. /\ o \in DOMAIN defs /\ o \in 0 .. e - 1
        /\ o \in StandsIn(defs, e) /\ StandsIn(defs, o) \subseteq StandsIn(defs, e)
    BY <1>3, <1>5, AroundIt
  <2>2. defs[o].kind = "class" /\ o \in Importable(defs)
    BY <1>3, <2>1 DEF Importable
  <2>3. given(o)
    <3>1. o \notin missed
      <4>1. ~(e <= o)
        BY <1>3, <2>1
      <4> HIDE DEF missed, o
      <4> QED
        BY <1>2, <4>1
    <3> QED
      BY <2>2, <3>1
  <2>4. parent_fqns(defs)[e] = parents_below(defs[o], parent_fqns(defs)[o])
    BY <1>3, <1>5, ParentFqns
  <2>5. QualifiedNames(defs)[o] = _build_fqn(defs[o], QualifiedNames(defs)[Around(defs, o)])
    BY <2>1, QualifiedName DEF _build_fqn
  <2>6. QualifiedNames(defs)[o] \in parents_below(defs[o], parent_fqns(defs)[o])
    BY <2>2, <2>3, <2>5 DEF parents_below
  <2> QED
    BY <2>4, <2>6
<1> QED
  BY <1>4, <1>5

\* Each line of a definition that stands in classes only is in a chunk of its file that
\* carries the definition's full name.
LEMMA DefinitionsCovered ==
    ASSUME NEW source \in Sources, NEW d \in Importable(source.definitions),
           NEW n \in 1 .. Len(SubSeq(source.lines, source.definitions[d].first,
                                      source.definitions[d].last))
    PROVE  \E c \in chunk_file(source) :
             /\ c.fqn = QualifiedNames(source.definitions)[d]
             /\ Covers(c.content, SubSeq(source.lines, source.definitions[d].first,
                                         source.definitions[d].last), n)
<1> DEFINE defs == source.definitions
           e == defs[d]
           text == SubSeq(source.lines, e.first, e.last)
           fqn == QualifiedNames(defs)[d]
           chunk == Chunk(fqn, text, e.first)
<1>1. defs \in Seq(Definition) /\ d \in DOMAIN defs
  BY SourcesAssumption DEF Importable
<1>2. fqn = _build_fqn(e, QualifiedNames(defs)[Around(defs, d)])
  BY <1>1, QualifiedName DEF _build_fqn
<1>3. QualifiedNames(defs)[Around(defs, d)] \in parent_fqns(defs)[d]
  BY <1>1, FullNameGiven
<1>4. chunk \in _extract_chunks(source)
  BY <1>1, <1>2, <1>3 DEF _extract_chunks
<1>5. _split_oversized_chunks(chunk) \subseteq chunk_file(source)
  BY <1>4 DEF chunk_file
<1>6. text \in Seq(Nat) /\ Len(text) \in Nat /\ n \in 1 .. Len(text)
  <2>1. /\ source.lines \in Seq(Nat) /\ e.first \in Nat \ {0} /\ e.last \in Nat
        /\ e.first <= e.last /\ e.last <= Len(source.lines)
    BY <1>1, DefinitionChunk
  <2>2. text \in Seq(Nat)
    BY <2>1, Lines
  <2> QED
    BY <2>2
<1> HIDE DEF text, fqn, e
<1>7. CASE ~Oversized(text)
  <2>1. chunk \in _split_oversized_chunks(chunk)
    BY <1>7, Windows
  <2>2. Covers(text, text, n)
    <3>1. 1 \in 1 .. n /\ 1 + Len(text) - 1 = Len(text) /\ SubSeq(text, 1, Len(text)) = text
      BY <1>6
    <3>2. n <= 1 + Len(text) - 1 /\ 1 + Len(text) - 1 <= Len(text)
          /\ SubSeq(text, 1, 1 + Len(text) - 1) = text
      BY <1>6, <3>1
    <3> QED
      BY <3>1, <3>2 DEF Covers
  <2>3. chunk.fqn = fqn /\ chunk.content = text
    BY DEF Chunk
  <2> QED
    BY <1>5, <2>1, <2>2, <2>3 DEF text, fqn, e
<1>8. CASE Oversized(text)
  <2>1. PICK i \in WindowStarts(text) : i < n /\ n <= i + chunk_size
    BY <1>6, WindowFor
  <2> DEFINE last == IF i + chunk_size <= Len(text) THEN i + chunk_size ELSE Len(text)
             w == Chunk(fqn, Window(text, i), e.first + i)
  <2>2. w \in _split_oversized_chunks(chunk)
    BY <1>8, Windows
  <2>3. /\ i \in Nat /\ last \in Nat /\ i + 1 <= last /\ last <= Len(text)
        /\ Window(text, i) = SubSeq(text, i + 1, last)
    BY <1>6, WindowLines
  <2>4. n <= last
    BY <1>6, <2>1
  <2> HIDE DEF last
  <2>5. Len(Window(text, i)) = last - i
    BY <1>6, <2>3
  <2>6. i + 1 \in 1 .. n /\ (i + 1) + Len(Window(text, i)) - 1 = last
    BY <1>6, <2>1, <2>3, <2>5
  <2>7. Covers(Window(text, i), text, n)
    BY <2>3, <2>4, <2>6 DEF Covers
  <2>8. w.fqn = fqn /\ w.content = Window(text, i)
    BY DEF Chunk
  <2> QED
    BY <1>5, <2>2, <2>7, <2>8 DEF text, fqn, e
<1> QED
  BY <1>7, <1>8

-----------------------------------------------------------------------------
(* The points of a worktree. *)

Id(c) == <<c.fqn, c.content>>

\* The last chunk with its id of a session's code.
Last(its, f, c) ==
    /\ \A g \in f + 1 .. Files : \A d \in ChunksOf[its[g]] : Id(d) # Id(c)
    /\ \A d \in ChunksOf[its[f]] : ~Later(d, c)

PointOf(s, f, c) ==
    [id |-> Id(c), path |-> <<s, f>>, fqn |-> c.fqn, content |-> c.content, start |-> c.start]

\* PointsOf of a session with the code its.
Batch(s, its) ==
    UNION {{PointOf(s, f, c) : c \in {d \in ChunksOf[its[f]] : Last(its, f, d)}} : f \in 1 .. Files}

LocatesIn(p, s, its) ==
    /\ p.path[1] = s
    /\ p.content = SubSeq(its[p.path[2]].lines, p.start, p.start + Len(p.content) - 1)

UniqueIds(batch) == \A p, q \in batch : p.id = q.id => p = q

\* The points of a session are a function of its code.
LEMMA BatchOfCode ==
    ASSUME NEW s
    PROVE  PointsOf(s) = Batch(s, code[s])
<1> DEFINE ids == [f \in 1 .. Files |-> {_deterministic_id(c, <<s, f>>) : c \in ChunksOf[code[s][f]]}]
           last(f, c) == /\ \A g \in f + 1 .. Files : _deterministic_id(c, <<s, f>>) \notin ids[g]
                         /\ \A d \in ChunksOf[code[s][f]] : ~Later(d, c)
<1>1. \A c, path : _deterministic_id(c, path) = Id(c)
  BY DEF _deterministic_id, Id
<1>2. ASSUME NEW f \in 1 .. Files, NEW c PROVE last(f, c) <=> Last(code[s], f, c)
  <2>1. \A g \in f + 1 .. Files : g \in 1 .. Files
    BY TopKAssumption
  <2>2. \A g \in f + 1 .. Files : ids[g] = {Id(d) : d \in ChunksOf[code[s][g]]}
    BY <1>1, <2>1
  <2> HIDE DEF ids
  <2> QED
    BY <1>1, <2>2 DEF Last
<1> DEFINE old(f) == {[id |-> _deterministic_id(c, <<s, f>>), path |-> <<s, f>>,
                       fqn |-> c.fqn, content |-> c.content, start |-> c.start] :
                         c \in {d \in ChunksOf[code[s][f]] : last(f, d)}}
           new(f) == {PointOf(s, f, c) : c \in {d \in ChunksOf[code[s][f]] : Last(code[s], f, d)}}
<1>3. PointsOf(s) = UNION {old(f) : f \in 1 .. Files}
  BY DEF PointsOf
<1> HIDE DEF last
<1>4. \A f \in 1 .. Files : old(f) = new(f)
  BY <1>1, <1>2 DEF PointOf
<1>5. Batch(s, code[s]) = UNION {new(f) : f \in 1 .. Files}
  BY DEF Batch
<1> HIDE DEF old, new
<1> QED
  BY <1>3, <1>4, <1>5

\* A file's chunks.
LEMMA FileChunks ==
    ASSUME NEW its \in Code, NEW f \in 1 .. Files
    PROVE  /\ its[f] \in Sources
           /\ ChunksOf[its[f]] = chunk_file(its[f])
           /\ \A c \in ChunksOf[its[f]] : InFile(c, its[f].lines)
<1>1. its[f] \in Sources
  BY DEF Code
<1>2. ChunksOf[its[f]] = chunk_file(its[f])
  BY <1>1 DEF ChunksOf
<1> QED
  BY <1>1, <1>2, ChunksLocate

\* Each point of a worktree locates its code there, and no other has its id.
LEMMA BatchLocates ==
    ASSUME NEW s, NEW its \in Code
    PROVE  /\ \A p \in Batch(s, its) : /\ p.id = <<p.fqn, p.content>>
                                       /\ LocatesIn(p, s, its)
           /\ UniqueIds(Batch(s, its))
<1>1. ASSUME NEW p \in Batch(s, its)
      PROVE  \E f \in 1 .. Files : \E c \in ChunksOf[its[f]] : Last(its, f, c) /\ p = PointOf(s, f, c)
  BY DEF Batch
<1>2. ASSUME NEW p \in Batch(s, its)
      PROVE  p.id = <<p.fqn, p.content>> /\ LocatesIn(p, s, its)
  <2>a. PICK f \in 1 .. Files : \E c \in ChunksOf[its[f]] : p = PointOf(s, f, c)
    BY <1>1
  <2>1. PICK c \in ChunksOf[its[f]] : p = PointOf(s, f, c)
    BY <2>a
  <2>2. InFile(c, its[f].lines)
    BY FileChunks
  <2>3. /\ p.id = Id(c) /\ p.path = <<s, f>> /\ p.path[1] = s /\ p.path[2] = f
        /\ p.fqn = c.fqn /\ p.content = c.content /\ p.start = c.start
    BY <2>1 DEF PointOf
  <2>4. c.content = SubSeq(its[f].lines, c.start, c.start + Len(c.content) - 1)
    BY <2>2 DEF InFile
  <2> QED
    BY <2>3, <2>4 DEF LocatesIn, Id
<1>3. ASSUME NEW p \in Batch(s, its), NEW q \in Batch(s, its), p.id = q.id PROVE p = q
  <2>a. PICK f \in 1 .. Files :
          \E c \in ChunksOf[its[f]] : Last(its, f, c) /\ p = PointOf(s, f, c)
    BY <1>1
  <2>1. PICK c \in ChunksOf[its[f]] : Last(its, f, c) /\ p = PointOf(s, f, c)
    BY <2>a
  <2>b. PICK g \in 1 .. Files :
          \E d \in ChunksOf[its[g]] : Last(its, g, d) /\ q = PointOf(s, g, d)
    BY <1>1
  <2>2. PICK d \in ChunksOf[its[g]] : Last(its, g, d) /\ q = PointOf(s, g, d)
    BY <2>b
  <2>3. Id(c) = Id(d)
    BY <1>3, <2>1, <2>2 DEF PointOf
  <2>4. f = g
    <3>1. f < g => g \in f + 1 .. Files
      BY TopKAssumption
    <3>2. g < f => f \in g + 1 .. Files
      BY TopKAssumption
    <3>3. f = g \/ f < g \/ g < f
      OBVIOUS
    <3> QED
      BY <2>1, <2>2, <2>3, <3>1, <3>2, <3>3 DEF Last
  <2>5. c.fqn = d.fqn /\ c.content = d.content
    BY <2>3 DEF Id
  <2>6. c.start \in Nat /\ d.start \in Nat
    BY <2>1, <2>2, FileChunks DEF InFile
  <2>7. ~(c.start > d.start) /\ ~(d.start > c.start)
    BY <2>1, <2>2, <2>4, <2>5 DEF Last, Later
  <2>8. c.start = d.start
    BY <2>6, <2>7
  <2> QED
    BY <2>1, <2>2, <2>4, <2>5, <2>8 DEF PointOf, Id
<1> QED
  BY <1>2, <1>3 DEF UniqueIds

\* Each chunk of a worktree leaves a point with its code under its name.
LEMMA SomeLast ==
    ASSUME NEW s, NEW its \in Code, NEW f \in 1 .. Files, NEW c \in ChunksOf[its[f]]
    PROVE  \E p \in Batch(s, its) : p.fqn = c.fqn /\ p.content = c.content
<1> DEFINE having == {g \in 1 .. Files : \E d \in ChunksOf[its[g]] : Id(d) = Id(c)}
<1>1. having \subseteq 0 .. Files /\ f \in having /\ Files \in Nat
  BY TopKAssumption
<1>2. PICK g \in having : \A m \in having : m <= g
  <2> HIDE DEF having
  <2> QED
    BY <1>1, Greatest
<1>3. \A h \in g + 1 .. Files : \A d \in ChunksOf[its[h]] : Id(d) # Id(c)
  <2>1. ASSUME NEW h \in g + 1 .. Files PROVE h \notin having /\ h \in 1 .. Files
    <3>1. ~(h <= g) /\ h \in 1 .. Files
      BY <1>1
    <3> HIDE DEF having
    <3> QED
      BY <1>2, <3>1
  <2> QED
    BY <2>1
<1> DEFINE same == {d \in ChunksOf[its[g]] : Id(d) = Id(c)}
           starts == {d.start : d \in same}
           n == Len(its[g].lines)
<1>4. g \in 1 .. Files /\ same # {}
  OBVIOUS
<1>5. n \in Nat
  BY <1>4, FileChunks, SourcesAssumption
<1> HIDE DEF n
<1>6. starts \subseteq 0 .. n /\ starts # {}
  <2>1. ASSUME NEW d \in same PROVE d.start \in 0 .. n
    <3>1. /\ d.content \in Seq(Nat) /\ d.start \in Nat /\ 1 <= Len(d.content)
          /\ d.start + Len(d.content) - 1 <= n
      BY <1>4, FileChunks DEF InFile, n
    <3>2. Len(d.content) \in Nat
      BY <3>1
    <3> QED
      BY <1>5, <3>1, <3>2
  <2> HIDE DEF same
  <2> QED
    BY <1>4, <2>1
<1>7. PICK l \in starts : \A m \in starts : m <= l
  <2> HIDE DEF starts
  <2> QED
    BY <1>5, <1>6, Greatest
<1>8. PICK d \in same : d.start = l
  BY <1>7
<1>9. ASSUME NEW e \in ChunksOf[its[g]] PROVE ~Later(e, d)
  <2> SUFFICES ASSUME Later(e, d) PROVE FALSE
    OBVIOUS
  <2>1. e \in same /\ e.start > d.start
    BY <1>8 DEF Later, Id
  <2>2. e.start \in starts /\ e.start \in 0 .. n /\ d.start \in 0 .. n
    BY <1>6, <1>8, <2>1
  <2> HIDE DEF starts, same
  <2> QED
    BY <1>5, <1>7, <1>8, <2>1, <2>2
<1>10. d \in ChunksOf[its[g]] /\ Id(d) = Id(c)
  BY <1>8
<1>11. Last(its, g, d)
  BY <1>3, <1>9, <1>10 DEF Last
<1>12. PointOf(s, g, d) \in Batch(s, its)
  BY <1>4, <1>10, <1>11 DEF Batch
<1>13. PointOf(s, g, d).fqn = c.fqn /\ PointOf(s, g, d).content = c.content
  BY <1>10 DEF PointOf, Id
<1> QED
  BY <1>12, <1>13

-----------------------------------------------------------------------------
(* The inductive invariant. *)

Stages == {"new", "recon", "indexed", "queried", "ended"}

\* A session that has begun has its worktree.
Begun ==
    /\ head \in Code
    /\ code \in [Sessions -> Code \cup {None}]
    /\ pc \in [Sessions -> Stages]
    /\ \A s \in Sessions : pc[s] # "new" => code[s] \in Code

\* The collection has one point under an id, which is the name and the code; what a session
\* put there is in its worktree.
InPlace ==
    /\ UniqueIds(points)
    /\ \A p \in points :
         /\ p.id = <<p.fqn, p.content>>
         /\ \A s \in Sessions : p.path[1] = s => pc[s] # "new" /\ LocatesIn(p, s, code[s])

\* Nobody puts another's points over those of a session that holds the store.
Held ==
    /\ store \subseteq Sessions
    /\ \A s \in store : pc[s] \in {"indexed", "queried"} /\ Batch(s, code[s]) \subseteq points

IndexInv == Begun /\ InPlace /\ Held

\* An upsert leaves one point under each id.
LEMMA Upserted ==
    ASSUME NEW new, UniqueIds(points), UniqueIds(new)
    PROVE  UniqueIds(upsert_chunks(new))
  BY DEF UniqueIds, upsert_chunks

\* An upsert of a session's points leaves all points in place.
LEMMA UpsertInPlace ==
    ASSUME IndexInv, NEW s \in Sessions, pc[s] # "new", NEW new \in SUBSET Batch(s, code[s])
    PROVE  /\ UniqueIds(upsert_chunks(new))
           /\ \A p \in upsert_chunks(new) :
                /\ p.id = <<p.fqn, p.content>>
                /\ \A t \in Sessions : p.path[1] = t => pc[t] # "new" /\ LocatesIn(p, t, code[t])
<1>1. code[s] \in Code
  BY DEF IndexInv, Begun
<1>2. UniqueIds(new)
  BY <1>1, BatchLocates DEF UniqueIds
<1>3. UniqueIds(upsert_chunks(new))
  BY <1>2, Upserted DEF IndexInv, InPlace
<1>4. ASSUME NEW p \in new
      PROVE  /\ p.id = <<p.fqn, p.content>>
             /\ \A t \in Sessions : p.path[1] = t => pc[t] # "new" /\ LocatesIn(p, t, code[t])
  <2>1. p.id = <<p.fqn, p.content>> /\ LocatesIn(p, s, code[s])
    BY <1>1, BatchLocates
  <2>2. p.path[1] = s
    BY <2>1 DEF LocatesIn
  <2> QED
    BY <2>1, <2>2
<1>5. \A p \in upsert_chunks(new) : p \in points \/ p \in new
  BY DEF upsert_chunks
<1> QED
  BY <1>3, <1>4, <1>5 DEF IndexInv, InPlace

LEMMA InitInv == IndexInit => IndexInv
<1> SUFFICES ASSUME IndexInit PROVE IndexInv
  OBVIOUS
<1>1. Begun
  BY DEF IndexInit, Begun, Stages
<1>2. InPlace /\ Held
  BY DEF IndexInit, InPlace, Held, UniqueIds
<1> QED
  BY <1>1, <1>2 DEF IndexInv

LEMMA StartInv ==
    ASSUME IndexInv, NEW s \in Sessions, Start(s)
    PROVE  IndexInv'
<1> USE DEF Start
<1>1. /\ \A t \in Sessions : t # s => code'[t] = code[t] /\ pc'[t] = pc[t]
      /\ pc'[s] # "new" /\ code'[s] \in Code
  BY DEF IndexInv, Begun, Stages
<1>2. Begun'
  BY <1>1 DEF IndexInv, Begun, Stages
<1>3. InPlace'
  <2>1. UniqueIds(points')
    BY DEF IndexInv, InPlace
  <2>2. ASSUME NEW p \in points'
        PROVE  /\ p.id = <<p.fqn, p.content>>
               /\ \A t \in Sessions : p.path[1] = t => pc'[t] # "new" /\ LocatesIn(p, t, code'[t])
    <3>1. p \in points
      OBVIOUS
    <3>2. p.path[1] # s
      BY <3>1 DEF IndexInv, InPlace
    <3> QED
      BY <1>1, <3>1, <3>2 DEF IndexInv, InPlace
  <2> QED
    BY <2>1, <2>2 DEF InPlace
<1>4. Held'
  <2>1. s \notin store
    BY DEF IndexInv, Held
  <2> QED
    BY <1>1, <2>1 DEF IndexInv, Held
<1> QED
  BY <1>2, <1>3, <1>4 DEF IndexInv

LEMMA IndexingInv ==
    ASSUME IndexInv, NEW s \in Sessions, Index(s)
    PROVE  IndexInv'
<1>1. pc[s] = "recon" /\ code' = code /\ head' = head /\ points' = upsert_chunks(PointsOf(s))
      /\ store' = store \cup {s} /\ store \subseteq {s}
  BY DEF Index, Unlocked
<1>2. /\ \A t \in Sessions : t # s => pc'[t] = pc[t]
      /\ pc'[s] = "indexed" /\ pc' \in [Sessions -> Stages]
  BY DEF Index, IndexInv, Begun, Stages
<1>3. PointsOf(s) = Batch(s, code[s])
  BY BatchOfCode
<1>4. Begun'
  BY <1>1, <1>2 DEF IndexInv, Begun, Stages
<1>5. InPlace'
  <2>1. /\ UniqueIds(points')
        /\ \A p \in points' :
             /\ p.id = <<p.fqn, p.content>>
             /\ \A t \in Sessions : p.path[1] = t => pc[t] # "new" /\ LocatesIn(p, t, code[t])
    BY <1>1, <1>3, UpsertInPlace
  <2>2. \A t \in Sessions : pc[t] # "new" => pc'[t] # "new"
    BY <1>2
  <2> QED
    BY <1>1, <2>1, <2>2 DEF InPlace
<1>6. Held'
  <2>1. store' = {s}
    BY <1>1
  <2>2. Batch(s, code'[s]) \subseteq points'
    BY <1>1, <1>3 DEF upsert_chunks
  <2> QED
    BY <1>2, <2>1, <2>2 DEF Held
<1> QED
  BY <1>4, <1>5, <1>6 DEF IndexInv

LEMMA DyingInv ==
    ASSUME IndexInv, NEW s \in Sessions, IndexingDies(s)
    PROVE  IndexInv'
<1>1. /\ pc[s] = "recon" /\ code' = code /\ head' = head /\ store' = store /\ store \subseteq {s}
      /\ \E new \in SUBSET PointsOf(s) : points' = upsert_chunks(new)
  BY DEF IndexingDies, Unlocked
<1>2. /\ \A t \in Sessions : t # s => pc'[t] = pc[t]
      /\ pc'[s] = "ended" /\ pc' \in [Sessions -> Stages]
  BY DEF IndexingDies, IndexInv, Begun, Stages
<1>3. Begun'
  BY <1>1, <1>2 DEF IndexInv, Begun, Stages
<1>4. InPlace'
  <2>1. PICK new \in SUBSET Batch(s, code[s]) : points' = upsert_chunks(new)
    BY <1>1, BatchOfCode
  <2>2. /\ UniqueIds(points')
        /\ \A p \in points' :
             /\ p.id = <<p.fqn, p.content>>
             /\ \A t \in Sessions : p.path[1] = t => pc[t] # "new" /\ LocatesIn(p, t, code[t])
    BY <1>1, <2>1, UpsertInPlace
  <2>3. \A t \in Sessions : pc[t] # "new" => pc'[t] # "new"
    BY <1>2
  <2> QED
    BY <1>1, <2>2, <2>3 DEF InPlace
<1>5. Held'
  <2>1. store' = {}
    BY <1>1 DEF IndexInv, Held
  <2> QED
    BY <2>1 DEF Held
<1> QED
  BY <1>3, <1>4, <1>5 DEF IndexInv

\* The steps that neither put points nor give a session its worktree.
LEMMA QuietInv ==
    ASSUME IndexInv, NEW s \in Sessions, IndexingFails(s) \/ Query(s) \/ End(s)
    PROVE  IndexInv'
<1>1. /\ pc[s] # "new" /\ code' = code /\ head' = head /\ points' = points
      /\ \A t \in store' : t \in store /\ (t = s => pc'[t] = "queried")
  <2>1. CASE IndexingFails(s)
    BY <2>1 DEF IndexingFails, IndexInv, Held, Begun, Stages
  <2>2. CASE Query(s)
    BY <2>2 DEF Query, IndexInv, Held, Begun, Stages
  <2>3. CASE End(s)
    BY <2>3 DEF End, IndexInv, Held, Begun, Stages
  <2> QED
    BY <2>1, <2>2, <2>3
<1>2. /\ \A t \in Sessions : t # s => pc'[t] = pc[t]
      /\ pc'[s] # "new" /\ pc' \in [Sessions -> Stages]
  BY DEF IndexingFails, Query, End, IndexInv, Begun, Stages
<1>3. Begun'
  BY <1>1, <1>2 DEF IndexInv, Begun, Stages
<1>4. InPlace'
  BY <1>1, <1>2 DEF IndexInv, InPlace
<1>5. Held'
  BY <1>1, <1>2 DEF IndexInv, Held
<1> QED
  BY <1>3, <1>4, <1>5 DEF IndexInv

LEMMA StepInv == IndexInv /\ [IndexNext]_xvars => IndexInv'
<1> SUFFICES ASSUME IndexInv, [IndexNext]_xvars PROVE IndexInv'
  OBVIOUS
<1>1. CASE Commit
  <2>1. head' \in Code
    BY <1>1 DEF Commit, IndexInv, Begun, Stages, Code
  <2>2. UNCHANGED <<code, pc, store, points, context>>
    BY <1>1 DEF Commit
  <2> QED
    BY <2>1, <2>2 DEF IndexInv, Begun, Stages, InPlace, Held
<1>2. CASE UNCHANGED xvars
  BY <1>2 DEF xvars, IndexInv, Begun, Stages, InPlace, Held
<1>3. ASSUME NEW s \in Sessions, Start(s) PROVE IndexInv'
  BY <1>3, StartInv
<1>4. ASSUME NEW s \in Sessions, Index(s) PROVE IndexInv'
  BY <1>4, IndexingInv
<1>5. ASSUME NEW s \in Sessions, IndexingDies(s) PROVE IndexInv'
  BY <1>5, DyingInv
<1>6. ASSUME NEW s \in Sessions, IndexingFails(s) \/ Query(s) \/ End(s) PROVE IndexInv'
  BY <1>6, QuietInv
<1> QED
  BY <1>1, <1>2, <1>3, <1>4, <1>5, <1>6 DEF IndexNext, AllEnded

LEMMA AlwaysInv == IndexSpec => []IndexInv
<1> QED
  BY InitInv, StepInv, PTL DEF IndexSpec

-----------------------------------------------------------------------------
(* Theorems. *)

\* store.py upsert_chunks, chunker.py chunk_id: however many sessions put the same code
\* under the same name, and wherever an upsert was cut off, the collection has one point for
\* it.
THEOREM OnePointEach == IndexSpec => []OnePointPerName
<1>1. IndexInv => OnePointPerName
  BY DEF IndexInv, InPlace, UniqueIds, OnePointPerName
<1> QED
  BY <1>1, AlwaysInv, PTL

\* chunker.py _split_oversized_chunks: a point whose path is in a session's worktree holds
\* the lines that stand there, from the line it says, whatever the sizes of a window.
THEOREM PointsInPlace == IndexSpec => []PointsLocate
<1>1. IndexInv => PointsLocate
  BY DEF IndexInv, InPlace, PointsLocate, LocatesIn, Locates
<1> QED
  BY <1>1, AlwaysInv, PTL

\* graph/builder.py make_recon: while a session holds the store, each line of each
\* definition of its worktree that stands in classes only is indexed under the definition's
\* full name, at the place it has in that worktree.
THEOREM WholeWorktreeIndexed == IndexSpec => []WorktreeIndexed
<1>1. ASSUME IndexInv PROVE WorktreeIndexed
  <2> SUFFICES
        ASSUME NEW s \in store, NEW f \in 1 .. Files,
               NEW d \in Importable(code[s][f].definitions),
               NEW n \in 1 .. Len(SubSeq(code[s][f].lines, code[s][f].definitions[d].first,
                                         code[s][f].definitions[d].last))
        PROVE  \E p \in points :
                 /\ p.fqn = QualifiedNames(code[s][f].definitions)[d]
                 /\ Locates(p, s)
                 /\ Covers(p.content, SubSeq(code[s][f].lines, code[s][f].definitions[d].first,
                                             code[s][f].definitions[d].last), n)
    BY DEF WorktreeIndexed
  <2>1. code[s] \in Code /\ Batch(s, code[s]) \subseteq points
    BY <1>1 DEF IndexInv, Held, Begun, Stages
  <2>2. code[s][f] \in Sources /\ ChunksOf[code[s][f]] = chunk_file(code[s][f])
    BY <2>1, FileChunks
  <2>3. PICK c \in chunk_file(code[s][f]) :
          /\ c.fqn = QualifiedNames(code[s][f].definitions)[d]
          /\ Covers(c.content, SubSeq(code[s][f].lines, code[s][f].definitions[d].first,
                                      code[s][f].definitions[d].last), n)
    BY <2>2, DefinitionsCovered
  <2>4. PICK p \in Batch(s, code[s]) : p.fqn = c.fqn /\ p.content = c.content
    BY <2>1, <2>2, SomeLast
  <2>5. Locates(p, s)
    BY <2>1, BatchLocates DEF LocatesIn, Locates
  <2> QED
    BY <2>1, <2>3, <2>4, <2>5
<1> QED
  BY <1>1, AlwaysInv, PTL

=============================================================================
