------------------------------- MODULE Tokens -------------------------------
(***************************************************************************)
(* tokenize_line of src/util.c, a character at a time, on the growing      *)
(* array of src/string_array.c.  A token that add_string copies is known   *)
(* by the place it was copied from, so that equal words at two places of   *)
(* the line are told apart.  strings is the allocation behind the char**:  *)
(* its domain is what malloc or realloc gave, a write outside of it would  *)
(* extend the domain, and what realloc adds is Garbage until written.      *)
(***************************************************************************)
EXTENDS Naturals, Sequences

CONSTANTS
  Characters,         \* what a line is made of
  Spaces,             \* the characters for which isspace holds
  InitialCapacities,  \* INITIAL_TOKENS_CAPACITY, and smaller ones that grow more often
  MaxLine             \* bound: characters of a line

ASSUME TokensAssumption ==
  /\ Spaces \subseteq Characters
  /\ InitialCapacities \subseteq Nat
  /\ MaxLine \in Nat

VARIABLES
  line,         \* the argument of tokenize_line
  current_pos,  \* index of *current_pos
  token_start, token_size,
  strings, size, capacity   \* the fields of the string_array

vars == <<line, current_pos, token_start, token_size, strings, size, capacity>>

Null == [start |-> 0, length |-> 0]
Garbage == [start |-> 0, length |-> 1]
Token(i, n) == [start |-> i, length |-> n]

\* make_string_array: room for the strings and the sentinel, which is set.
MakeStringArray(c) == [i \in 0..c |-> IF i = 0 THEN Null ELSE Garbage]

Init ==
  /\ \E n \in 0..MaxLine : line \in [1..n -> Characters]
  /\ current_pos = 1
  /\ token_start = 1
  /\ token_size = 0
  /\ size = 0
  /\ capacity \in InitialCapacities
  /\ strings = MakeStringArray(capacity)

-----------------------------------------------------------------------------
(* string_array *)

\* Slip: the array grows one string too late.
Overfull == size > capacity

Full == size = capacity

\* resize to a larger capacity, and the sentinel at its end.
Resized(c) ==
  [i \in 0..c |-> CASE i = c -> Null
                    [] i \in DOMAIN strings \ {c} -> strings[i]
                    [] OTHER -> Garbage]

Write(mem, i, v) == [j \in DOMAIN mem \cup {i} |-> IF j = i THEN v ELSE mem[j]]

AddString(t) ==
  LET c   == IF ~Full THEN capacity ELSE IF capacity = 0 THEN 1 ELSE 2 * capacity
      mem == IF Full THEN Resized(c) ELSE strings
  IN  /\ capacity' = c
      /\ size' = size + 1
      /\ strings' = Write(Write(mem, size, t), size + 1, Null)

-----------------------------------------------------------------------------
(* tokenize_line *)

InLine == current_pos <= Len(line)
OnSpace == InLine /\ line[current_pos] \in Spaces

\* Slip: the size is kept when the token has been added.
EndTokenAgain ==
  /\ OnSpace /\ token_size # 0
  /\ AddString(Token(token_start, token_size))
  /\ current_pos' = current_pos + 1
  /\ UNCHANGED <<line, token_start, token_size>>

EndToken ==
  /\ OnSpace /\ token_size # 0
  /\ AddString(Token(token_start, token_size))
  /\ token_size' = 0
  /\ current_pos' = current_pos + 1
  /\ UNCHANGED <<line, token_start>>

SkipSpace ==
  /\ OnSpace /\ token_size = 0
  /\ current_pos' = current_pos + 1
  /\ UNCHANGED <<line, token_start, token_size, strings, size, capacity>>

InToken ==
  /\ InLine /\ ~OnSpace
  /\ token_start' = IF token_size = 0 THEN current_pos ELSE token_start
  /\ token_size' = token_size + 1
  /\ current_pos' = current_pos + 1
  /\ UNCHANGED <<line, strings, size, capacity>>

\* The terminating null character: the array is returned.
Returned == ~InLine /\ UNCHANGED vars

Next == EndToken \/ SkipSpace \/ InToken \/ Returned
Spec == Init /\ [][Next]_vars

-----------------------------------------------------------------------------
(* Properties *)

\* The array is never written past its allocation, its strings come first and
\* the null sentinel that ends them is in place, however often add_string had
\* to double the capacity (the room for the sentinel is not in the capacity).
WithinAllocation ==
  /\ DOMAIN strings = 0..capacity
  /\ size <= capacity
  /\ strings[size] = Null
  /\ \A i \in 0..(size - 1) : strings[i] \notin {Null, Garbage}

\* A word of the line: a longest run of characters that are not spaces.
IsWord(t) ==
  /\ t.start + t.length <= Len(line) + 1
  /\ \A i \in t.start..(t.start + t.length - 1) : line[i] \notin Spaces
  /\ t.start > 1 => line[t.start - 1] \in Spaces
  /\ t.start + t.length <= Len(line) => line[t.start + t.length] \in Spaces
Words == {t \in [start : 1..Len(line), length : 1..Len(line)] : IsWord(t)}

\* tokenize_line is to "split a string by whitespace into tokens" (util.h:66): the
\* array it returns has all words of the line in their order when the line ends in a
\* space, as one that ends in a newline does.  Of a line that does not, the word
\* under way at its end is lost, and no other.
Unended(t) == t.start + t.length = Len(line) + 1
Split ==
  ~InLine =>
    /\ {strings[i] : i \in 0..(size - 1)} = {t \in Words : ~Unended(t)}
    /\ \A i, j \in 0..(size - 1) : i < j => strings[i].start < strings[j].start
    /\ Len(line) > 0 /\ line[Len(line)] \in Spaces => \A t \in Words : ~Unended(t)
=============================================================================
