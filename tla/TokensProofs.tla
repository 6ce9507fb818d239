---------------------------- MODULE TokensProofs ----------------------------
(***************************************************************************)
(* Theorems about tokenize_line and string_array, for all lines and all    *)
(* initial capacities.                                                     *)
(***************************************************************************)
EXTENDS Tokens, TLAPS

\* What is known of the array, and of the token that is being read.
ArrayInv ==
  /\ size \in Nat /\ capacity \in Nat
  /\ token_start \in Nat /\ token_start >= 1 /\ token_size \in Nat
  /\ current_pos \in Nat /\ current_pos >= 1
  /\ WithinAllocation

LEMMA Tokenlike ==
  ASSUME NEW i \in Nat, i >= 1, NEW n \in Nat
  PROVE  Token(i, n) \notin {Null, Garbage}
<1>1. Token(i, n).start # Null.start /\ Token(i, n).start # Garbage.start
  BY DEF Token, Null, Garbage
<1> QED
  BY <1>1

\* add_string writes the string and the sentinel within the allocation, grown
\* when it was full.
LEMMA AddStringWithin ==
  ASSUME ArrayInv, NEW t, t \notin {Null, Garbage}, AddString(t)
  PROVE  /\ size' = size + 1 /\ capacity' \in Nat
         /\ WithinAllocation'
         /\ \A i \in 0..(size - 1) : strings'[i] = strings[i]
         /\ strings'[size] = t
<1> DEFINE c == IF ~Full THEN capacity ELSE IF capacity = 0 THEN 1 ELSE 2 * capacity
           mem == IF Full THEN Resized(c) ELSE strings
<1>1. /\ capacity' = c /\ size' = size + 1
      /\ strings' = Write(Write(mem, size, t), size + 1, Null)
  BY DEF AddString
<1>2. c \in Nat /\ size + 1 <= c
  BY DEF ArrayInv, WithinAllocation, Full
<1>3. /\ DOMAIN mem = 0..c
      /\ \A i \in 0..(size - 1) : mem[i] = strings[i]
  <2>1. CASE Full
    <3>1. /\ DOMAIN Resized(c) = 0..c
          /\ \A i \in 0..(size - 1) : Resized(c)[i] = strings[i]
      BY <1>2, <2>1 DEF Resized, ArrayInv, WithinAllocation, Full
    <3> QED
      BY <2>1, <3>1
  <2>2. CASE ~Full
    BY <2>2 DEF ArrayInv, WithinAllocation
  <2> QED
    BY <2>1, <2>2
<1> HIDE DEF c, mem
<1>4. /\ DOMAIN strings' = 0..c
      /\ \A j \in 0..c : strings'[j] = IF j = size + 1 THEN Null ELSE IF j = size THEN t ELSE mem[j]
  BY <1>1, <1>2, <1>3 DEF Write, ArrayInv
<1>5. /\ strings'[size] = t /\ strings'[size + 1] = Null
      /\ \A i \in 0..(size - 1) : strings'[i] = strings[i]
  BY <1>2, <1>3, <1>4 DEF ArrayInv
<1>6. \A i \in 0..size : strings'[i] \notin {Null, Garbage}
  BY <1>5 DEF ArrayInv, WithinAllocation
<1> QED
  BY <1>1, <1>2, <1>4, <1>5, <1>6 DEF WithinAllocation, ArrayInv

LEMMA ArrayInit == Init => ArrayInv
<1> SUFFICES ASSUME Init PROVE ArrayInv
  OBVIOUS
<1>1. capacity \in Nat /\ size = 0
  BY TokensAssumption DEF Init
<1>2. DOMAIN strings = 0..capacity /\ strings[0] = Null
  BY <1>1 DEF Init, MakeStringArray
<1> QED
  BY <1>1, <1>2 DEF Init, ArrayInv, WithinAllocation

LEMMA ArrayKept == ArrayInv /\ [Next]_vars => ArrayInv'
<1> SUFFICES ASSUME ArrayInv, [Next]_vars PROVE ArrayInv'
  OBVIOUS
<1>1. CASE EndToken
  <2>1. Token(token_start, token_size) \notin {Null, Garbage}
    BY Tokenlike DEF ArrayInv
  <2>2. size' = size + 1 /\ capacity' \in Nat /\ WithinAllocation'
    BY <1>1, <2>1, AddStringWithin DEF EndToken
  <2> QED
    BY <1>1, <2>2 DEF EndToken, ArrayInv
<1>2. CASE SkipSpace
  BY <1>2 DEF SkipSpace, ArrayInv, WithinAllocation
<1>3. CASE InToken
  BY <1>3 DEF InToken, ArrayInv, WithinAllocation
<1>4. CASE UNCHANGED vars
  BY <1>4 DEF vars, ArrayInv, WithinAllocation
<1> QED
  BY <1>1, <1>2, <1>3, <1>4 DEF Next, Returned

\* add_string and resize never write past the allocation, the strings stay where
\* they were put and the null sentinel follows the last, for any line and any
\* initial capacity, 0 included.
THEOREM ArrayStaysWithin == Spec => []WithinAllocation
<1>1. ArrayInv => WithinAllocation
  BY DEF ArrayInv
<1> QED
  BY <1>1, ArrayInit, ArrayKept, PTL DEF Spec

-----------------------------------------------------------------------------
(* The tokens *)

\* The words that a space has ended among the first n characters, which are the
\* strings at any position of the line, in their order.
EndsBefore(t, n) ==
  /\ t.start + t.length <= n
  /\ \A i \in t.start..(t.start + t.length - 1) : line[i] \notin Spaces
  /\ t.start > 1 => line[t.start - 1] \in Spaces
  /\ t.start + t.length <= Len(line) => line[t.start + t.length] \in Spaces
WordsBefore(n) == {t \in [start : 1..Len(line), length : 1..Len(line)] : EndsBefore(t, n)}
SplitSoFar ==
  /\ {strings[i] : i \in 0..(size - 1)} = WordsBefore(current_pos - 1)
  /\ \A i, j \in 0..(size - 1) : i < j => strings[i].start < strings[j].start

\* The line is read up to current_pos, and the token under way, if there is one,
\* is what has been read since the last space.
Reading ==
  /\ ArrayInv
  /\ Len(line) \in Nat /\ current_pos <= Len(line) + 1
  /\ token_size = 0 /\ current_pos > 1 => line[current_pos - 1] \in Spaces
  /\ token_size > 0 =>
       /\ token_start + token_size = current_pos
       /\ \A i \in token_start..(current_pos - 1) : line[i] \notin Spaces
       /\ token_start > 1 => line[token_start - 1] \in Spaces

LEMMA ReadingInit == Init => Reading
<1> SUFFICES ASSUME Init PROVE Reading
  OBVIOUS
<1>1. Len(line) \in Nat
  BY TokensAssumption DEF Init
<1> QED
  BY <1>1, ArrayInit DEF Init, Reading

LEMMA ReadingKept == Reading /\ [Next]_vars => Reading'
<1> SUFFICES ASSUME Reading, [Next]_vars PROVE Reading'
  OBVIOUS
<1>1. ArrayInv /\ ArrayInv'
  BY ArrayKept DEF Reading
<1>2. CASE EndToken
  BY <1>1, <1>2 DEF EndToken, OnSpace, InLine, Reading, ArrayInv
<1>3. CASE SkipSpace
  BY <1>1, <1>3 DEF SkipSpace, OnSpace, InLine, Reading, ArrayInv
<1>4. CASE InToken
  <2>1. CASE token_size = 0
    BY <1>1, <1>4, <2>1 DEF InToken, OnSpace, InLine, Reading, ArrayInv
  <2>2. CASE token_size # 0
    BY <1>1, <1>4, <2>2 DEF InToken, OnSpace, InLine, Reading, ArrayInv
  <2> QED
    BY <2>1, <2>2
<1>5. CASE UNCHANGED vars
  BY <1>1, <1>5 DEF vars, Reading
<1> QED
  BY <1>2, <1>3, <1>4, <1>5 DEF Next, Returned

\* A word that ends before n ends before n + 1, and the others that do end at n.
LEMMA OneMore ==
  ASSUME NEW n \in Nat
  PROVE  WordsBefore(n + 1) =
           WordsBefore(n) \cup {t \in WordsBefore(n + 1) : t.start + t.length = n + 1}
<1> DEFINE T == [start : 1..Len(line), length : 1..Len(line)]
<1>1. ASSUME NEW t \in T
      PROVE  EndsBefore(t, n + 1) <=> EndsBefore(t, n) \/ (EndsBefore(t, n + 1) /\ t.start + t.length = n + 1)
  BY DEF EndsBefore
<1> QED
  BY <1>1 DEF WordsBefore

\* No word ends at current_pos when no token is under way, or at a character
\* that is no space.
LEMMA NoWordEnds ==
  ASSUME Reading, InLine, token_size = 0 \/ ~OnSpace
  PROVE  WordsBefore(current_pos) = WordsBefore(current_pos - 1)
<1>1. current_pos - 1 \in Nat /\ (current_pos - 1) + 1 = current_pos
  BY DEF Reading, ArrayInv
<1>2. ASSUME NEW t \in WordsBefore(current_pos), t.start + t.length = current_pos
      PROVE  FALSE
  <2>1. /\ t.start \in 1..Len(line) /\ t.length \in 1..Len(line)
        /\ \A i \in t.start..(t.start + t.length - 1) : line[i] \notin Spaces
        /\ t.start + t.length <= Len(line) => line[t.start + t.length] \in Spaces
    BY DEF WordsBefore, EndsBefore
  <2>2. line[current_pos] \in Spaces
    BY <1>2, <2>1 DEF InLine
  <2>3. current_pos > 1 /\ line[current_pos - 1] \notin Spaces
    BY <1>1, <1>2, <2>1
  <2> QED
    BY <2>2, <2>3 DEF OnSpace, Reading
<1> QED
  BY <1>1, <1>2, OneMore

\* The token under way is the word that the space at current_pos ends.
LEMMA TokenEnds ==
  ASSUME Reading, OnSpace, token_size # 0
  PROVE  /\ WordsBefore(current_pos) =
              WordsBefore(current_pos - 1) \cup {Token(token_start, token_size)}
         /\ \A t \in WordsBefore(current_pos - 1) : t.start < token_start
<1> DEFINE p == current_pos
           k == Token(token_start, token_size)
<1>1. /\ p \in Nat /\ p - 1 \in Nat /\ (p - 1) + 1 = p /\ p <= Len(line) /\ line[p] \in Spaces
      /\ Len(line) \in Nat
      /\ token_start \in Nat /\ token_start >= 1 /\ token_size \in Nat /\ token_size >= 1
      /\ token_start + token_size = p
      /\ \A i \in token_start..(p - 1) : line[i] \notin Spaces
      /\ token_start > 1 => line[token_start - 1] \in Spaces
  BY DEF Reading, ArrayInv, OnSpace, InLine
<1>2. k.start = token_start /\ k.length = token_size
  BY DEF Token
<1>3. k \in WordsBefore(p)
  <2>1. k \in [start : 1..Len(line), length : 1..Len(line)]
    BY <1>1 DEF Token
  <2> QED
    BY <1>1, <1>2, <2>1 DEF WordsBefore, EndsBefore
<1>4. ASSUME NEW t \in WordsBefore(p)
      PROVE  /\ t.start \in 1..Len(line) /\ t.length \in 1..Len(line)
             /\ t = Token(t.start, t.length)
             /\ t.start + t.length <= p
             /\ \A i \in t.start..(t.start + t.length - 1) : line[i] \notin Spaces
             /\ t.start > 1 => line[t.start - 1] \in Spaces
             /\ line[t.start + t.length] \in Spaces
  BY <1>1 DEF WordsBefore, EndsBefore, Token
<1>5. ASSUME NEW t \in WordsBefore(p), t.start + t.length = p
      PROVE  t = k
  <2>1. ASSUME t.start < token_start
        PROVE  FALSE
    <3>1. token_start - 1 \in t.start..(t.start + t.length - 1) /\ token_start > 1
      BY <1>1, <1>4, <1>5, <2>1
    <3> QED
      BY <1>1, <1>4, <3>1
  <2>2. ASSUME t.start > token_start
        PROVE  FALSE
    <3>1. t.start - 1 \in token_start..(p - 1) /\ t.start > 1
      BY <1>1, <1>4, <1>5, <2>2
    <3> QED
      BY <1>1, <1>4, <3>1
  <2>3. t.start = token_start /\ t.length = token_size
    BY <1>1, <1>4, <1>5, <2>1, <2>2
  <2> QED
    BY <1>4, <2>3
<1>6. ASSUME NEW t \in WordsBefore(p - 1)
      PROVE  t.start < token_start
  <2>1. t \in WordsBefore(p) /\ t.start + t.length <= p - 1
    BY <1>1 DEF WordsBefore, EndsBefore
  <2> QED
    BY <1>1, <1>4, <2>1
<1> HIDE DEF k
<1>7. WordsBefore(p) = WordsBefore(p - 1) \cup {t \in WordsBefore(p) : t.start + t.length = p}
  BY <1>1, OneMore
<1>8. WordsBefore(p) = WordsBefore(p - 1) \cup {k}
  BY <1>1, <1>2, <1>3, <1>5, <1>7
<1> QED
  BY <1>6, <1>8 DEF k

SplitInv == Reading /\ SplitSoFar

LEMMA SplitKept == SplitInv /\ [Next]_vars => SplitInv'
<1> SUFFICES ASSUME SplitInv, [Next]_vars PROVE SplitInv'
  OBVIOUS
<1>1. Reading /\ Reading' /\ SplitSoFar /\ ArrayInv
  BY ReadingKept DEF SplitInv, Reading
<1>2. CASE SkipSpace \/ InToken
  <2>1. /\ WordsBefore(current_pos) = WordsBefore(current_pos - 1)
        /\ current_pos' - 1 = current_pos /\ UNCHANGED <<line, strings, size>>
    BY <1>1, <1>2, NoWordEnds DEF SkipSpace, InToken, OnSpace, ArrayInv
  <2>2. WordsBefore(current_pos - 1)' = WordsBefore(current_pos)
    BY <2>1 DEF WordsBefore, EndsBefore
  <2> QED
    BY <1>1, <2>1, <2>2 DEF SplitSoFar, SplitInv
<1>3. CASE EndToken
  <2> DEFINE k == Token(token_start, token_size)
  <2>1. k \notin {Null, Garbage}
    BY <1>1, Tokenlike DEF ArrayInv
  <2>2. /\ size' = size + 1 /\ strings'[size] = k
        /\ \A i \in 0..(size - 1) : strings'[i] = strings[i]
    BY <1>1, <1>3, <2>1, AddStringWithin DEF EndToken
  <2>3. /\ WordsBefore(current_pos) = WordsBefore(current_pos - 1) \cup {k}
        /\ \A t \in WordsBefore(current_pos - 1) : t.start < token_start
    BY <1>1, <1>3, TokenEnds DEF EndToken
  <2>4. current_pos' - 1 = current_pos /\ UNCHANGED line /\ size \in Nat
    BY <1>1, <1>3 DEF EndToken, ArrayInv
  <2>5. WordsBefore(current_pos - 1)' = WordsBefore(current_pos)
    BY <2>4 DEF WordsBefore, EndsBefore
  <2>6. k.start = token_start
    BY DEF Token
  <2> HIDE DEF k
  <2>7. {strings'[i] : i \in 0..(size' - 1)} = {strings[i] : i \in 0..(size - 1)} \cup {k}
    BY <2>2, <2>4
  <2>8. \A i \in 0..(size - 1) : strings[i].start < token_start
    BY <1>1, <2>3 DEF SplitSoFar
  <2>9. ASSUME NEW i \in 0..(size' - 1), NEW j \in 0..(size' - 1), i < j
        PROVE  strings'[i].start < strings'[j].start
    <3>1. i \in 0..(size - 1) /\ (j \in 0..(size - 1) \/ j = size)
      BY <2>2, <2>4, <2>9
    <3>2. CASE j = size
      BY <2>2, <2>6, <2>8, <3>1, <3>2
    <3>3. CASE j \in 0..(size - 1)
      BY <1>1, <2>2, <2>9, <3>1, <3>3 DEF SplitSoFar
    <3> QED
      BY <3>1, <3>2, <3>3
  <2> QED
    BY <1>1, <2>3, <2>5, <2>7, <2>9 DEF SplitSoFar, SplitInv
<1>4. CASE UNCHANGED vars
  <2>1. WordsBefore(current_pos - 1)' = WordsBefore(current_pos - 1)
    BY <1>4 DEF vars, WordsBefore, EndsBefore
  <2> QED
    BY <1>1, <1>4, <2>1 DEF vars, SplitSoFar, SplitInv
<1> QED
  BY <1>2, <1>3, <1>4 DEF Next, Returned

\* When the line is read, the words a space has ended are those that do not end with
\* the line.
LEMMA LineSplit ==
  ASSUME SplitInv, ~InLine
  PROVE  {strings[i] : i \in 0..(size - 1)} = {t \in Words : ~Unended(t)}
<1>1. current_pos - 1 = Len(line) /\ Len(line) \in Nat
  BY DEF SplitInv, Reading, ArrayInv, InLine
<1>2. {strings[i] : i \in 0..(size - 1)} = WordsBefore(Len(line))
  BY <1>1 DEF SplitInv, SplitSoFar
<1>3. ASSUME NEW t \in [start : 1..Len(line), length : 1..Len(line)]
      PROVE  EndsBefore(t, Len(line)) <=> IsWord(t) /\ ~Unended(t)
  BY <1>1 DEF EndsBefore, IsWord, Unended
<1> QED
  BY <1>2, <1>3 DEF WordsBefore, Words

\* A word that ends with the line ends in a character that is no space.
LEMMA SpaceEndsAll ==
  ASSUME Len(line) \in Nat, Len(line) > 0, line[Len(line)] \in Spaces, NEW t \in Words
  PROVE  ~Unended(t)
<1>1. /\ t.start \in 1..Len(line) /\ t.length \in 1..Len(line)
      /\ \A i \in t.start..(t.start + t.length - 1) : line[i] \notin Spaces
  BY DEF Words, IsWord
<1>2. ASSUME Unended(t)
      PROVE  FALSE
  <2>1. Len(line) \in t.start..(t.start + t.length - 1)
    BY <1>1, <1>2 DEF Unended
  <2> QED
    BY <1>1, <2>1
<1> QED
  BY <1>2

\* tokenize_line returns the words of any line, each once and in their order, but for
\* one that ends with the line, which a line that ends in a space does not have.
THEOREM TokensAreWords == Spec => []Split
<1>1. Init => SplitInv
  <2> SUFFICES ASSUME Init PROVE SplitInv
    OBVIOUS
  <2>1. current_pos = 1 /\ size = 0
    BY DEF Init
  <2>2. WordsBefore(current_pos - 1) = {}
    BY <2>1 DEF WordsBefore, EndsBefore
  <2> QED
    BY <2>1, <2>2, ReadingInit DEF SplitSoFar, SplitInv
<1>2. SplitInv => Split
  <2> SUFFICES ASSUME SplitInv, ~InLine PROVE Split
    BY DEF Split
  <2>1. Len(line) \in Nat
    BY DEF SplitInv, Reading
  <2> QED
    BY <2>1, LineSplit, SpaceEndsAll DEF Split, SplitInv, SplitSoFar
<1> QED
  BY <1>1, <1>2, SplitKept, PTL DEF Spec
=============================================================================
