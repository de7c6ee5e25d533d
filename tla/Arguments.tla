----------------------------- MODULE Arguments -----------------------------
(***************************************************************************)
(* Lab3/pintos/src/userprog/process.c, push_command: the words of a        *)
(* command line are found from its end, their bytes go onto the user stack *)
(* as they are found, and the addresses follow from the lengths.  The      *)
(* stack is kept as the bytes between esp and its first value; addresses   *)
(* count from esp.                                                         *)
(***************************************************************************)
EXTENDS Integers, SequencesExt

NUL == 0
Chars == 1 .. 255
SPACE == 32

\* Mutation: the length of a string leaves out its terminating zero.
Pushed_short(str, st) ==
  [st EXCEPT !.stack = str \o <<NUL>> \o @, !.offsets = Append(@, Len(str))]

\* One string is copied below the others and its length kept in offsets.
Pushed(str, st) ==
  [st EXCEPT !.stack = str \o <<NUL>> \o @, !.offsets = Append(@, Len(str) + 1)]

\* One round of the loop, at the index start of line (which counts from 0).
Round(line, start, st) ==
  LET char == line[start + 1]
      word == SubSeq(line, start + 2, st.end + 1)
  IN  IF char # SPACE THEN [st EXCEPT !.prev_space = FALSE]
      ELSE IF st.prev_space THEN [st EXCEPT !.end = start - 1]
      ELSE [Pushed(word, st) EXCEPT !.end = start - 1, !.prev_space = TRUE]

\* The state of the loop as start_ind goes down from the last index to 0.
Loop(line) ==
  LET at[start \in 0 .. Len(line) - 1] ==
        IF start = Len(line) - 1
        THEN [end |-> start, prev_space |-> FALSE, stack |-> << >>, offsets |-> << >>]
        ELSE Round(line, start + 1, at[start + 1])
  IN  at[0]

\* The command itself is what is left, from index 0.
Strings(line) ==
  LET st == Loop(line) IN Pushed(SubSeq(line, 1, st.end + 1), st)

\* What base has come down by after the first n offsets.
Below(offsets, n) ==
  LET sum[k \in 0 .. n] == IF k = 0 THEN 0 ELSE sum[k - 1] + offsets[k]
  IN  sum[n]

\* argc, of which one char is stored into a word of zeros, argv in the order
\* of addresses (the last pushed is lowest), and the strings; between them lie
\* the padding and the zero word.
StackOf(line) ==
  LET st == Strings(line)
      offlen == Len(st.offsets)
  IN  [argc |-> offlen % 256,
       argv |-> [i \in 1 .. offlen |->
                   Len(st.stack) - Below(st.offsets, offlen + 1 - i)],
       strs |-> st.stack]

----------------------------------------------------------------------------
\* What a program reads at an address: the bytes up to the first zero.
StringAt(strs, addr) ==
  LET ends == {j \in addr + 1 .. Len(strs) : strs[j] = NUL}
  IN  SubSeq(strs, addr + 1, (CHOOSE j \in ends : \A k \in ends : j <= k) - 1)

\* Where words begin, in their order, and where the one that begins at i ends.
WordStarts(line) ==
  {i \in DOMAIN line : line[i] # SPACE /\ (i > 1 => line[i - 1] = SPACE)}

WordOrder(line) ==
  CHOOSE o \in SetToSeqs(WordStarts(line)) : \A a, b \in DOMAIN o : a < b => o[a] < o[b]

WordEnd(line, i) ==
  CHOOSE j \in i .. Len(line) :
    (\A k \in i .. j : line[k] # SPACE) /\ (j < Len(line) => line[j + 1] = SPACE)

\* The maximal runs of characters other than spaces, in their order.
Words(line) ==
  LET order == WordOrder(line)
  IN  [n \in 1 .. Len(order) |-> SubSeq(line, order[n], WordEnd(line, order[n]))]
=============================================================================
