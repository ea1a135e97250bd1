--------------------------- MODULE ConsoleProofs ---------------------------
(***************************************************************************)
(* Theorems about Console, for any number of listed peers and any length   *)
(* of what is typed ahead.                                                 *)
(***************************************************************************)
EXTENDS Console, TLAPS

Chars == {"0", "1", "2", "3", "y", "n", "x", "enter"}
Fors == {"action", "peer", "path", "enter", "allow", "confirm", "earlier"}

LEMMA EntriesAre == Entries = [char : Chars, for : Fors]
BY DEF Entries, Digit, Letters, Enter, MainQuestions, ListenerQuestions, Chars, Fors

-----------------------------------------------------------------------------
(* What the operations on stdin do to it.                                  *)

\* The first character is gone and the others move up.
LEMMA TailOfInput ==
  ASSUME ConsoleTypeOK, input # <<>>
  PROVE  /\ Head(input) = input[1]
         /\ 1 \in DOMAIN input
         /\ Len(input) \in Nat \ {0}
         /\ Tail(input) \in Seq(Entries)
         /\ Len(Tail(input)) = Len(input) - 1
         /\ DOMAIN input = 1..Len(input)
         /\ \A k \in DOMAIN Tail(input) :
              /\ k \in Nat
              /\ k + 1 \in DOMAIN input
              /\ Tail(input)[k] = input[k + 1]
BY DEF ConsoleTypeOK

\* What is behind the first character of a line for q is a line for q, and
\* nothing is behind its end.
LEMMA RestOfLine ==
  ASSUME ConsoleTypeOK, input # <<>>, NEW q,
         \A k \in DOMAIN input :
           input[k].for = q /\ (input[k].char = Enter <=> k = Len(input))
  PROVE  /\ Head(input).for = q
         /\ \A k \in DOMAIN Tail(input) :
              /\ Tail(input)[k].for = q
              /\ Tail(input)[k].char = Enter <=> k = Len(Tail(input))
         /\ First = Enter => Tail(input) = <<>>
<1>1. Head(input).for = q
  BY TailOfInput
<1>2. ASSUME NEW k \in DOMAIN Tail(input)
      PROVE  /\ Tail(input)[k].for = q
             /\ Tail(input)[k].char = Enter <=> k = Len(Tail(input))
  <2>1. k \in Nat /\ k + 1 \in DOMAIN input /\ Tail(input)[k] = input[k + 1]
        /\ Len(Tail(input)) = Len(input) - 1 /\ Len(input) \in Nat
    BY <1>2, TailOfInput
  <2> HIDE DEF Enter
  <2>2. input[k + 1].for = q /\ (input[k + 1].char = Enter <=> k + 1 = Len(input))
    BY <2>1
  <2>3. k + 1 = Len(input) <=> k = Len(Tail(input))
    BY <2>1
  <2> QED
    BY <2>1, <2>2, <2>3
<1>3. First = Enter => Tail(input) = <<>>
  <2>1. First = Enter => Len(input) = 1
    BY TailOfInput DEF First
  <2> QED
    BY <2>1, TailOfInput
<1> QED
  BY <1>1, <1>2, <1>3

\* The characters stay, some of them for an earlier question.
LEMMA StaleInput ==
  ASSUME ConsoleTypeOK, NEW q, Stale(q)
  PROVE  /\ input' \in Seq(Entries)
         /\ Len(input') = Len(input)
         /\ DOMAIN input' = DOMAIN input
         /\ \A k \in DOMAIN input :
              /\ input'[k].char = input[k].char
              /\ input'[k].for = IF input[k].for = q THEN "earlier" ELSE input[k].for
<1> DEFINE e(k) == IF input[k].for = q
                   THEN [input[k] EXCEPT !.for = "earlier"] ELSE input[k]
<1>1. input \in Seq(Entries) /\ DOMAIN input = 1..Len(input) /\ Len(input) \in Nat
  BY DEF ConsoleTypeOK
<1>2. ASSUME NEW k \in DOMAIN input
      PROVE  /\ e(k) \in Entries
             /\ e(k).char = input[k].char
             /\ e(k).for = IF input[k].for = q THEN "earlier" ELSE input[k].for
  <2> HIDE DEF e
  <2>1. input[k] \in Entries
    BY <1>1, <1>2
  <2>2. input[k] \in [char : Chars, for : Fors]
    BY <2>1, EntriesAre
  <2>3. [input[k] EXCEPT !.for = "earlier"] \in [char : Chars, for : Fors]
        /\ [input[k] EXCEPT !.for = "earlier"].char = input[k].char
        /\ [input[k] EXCEPT !.for = "earlier"].for = "earlier"
    BY <2>2 DEF Fors
  <2> QED
    BY <2>1, <2>3, EntriesAre DEF e
<1>3. input' = [k \in 1..Len(input) |-> e(k)]
  BY <1>1 DEF Stale
<1> HIDE DEF e
<1>4. input' \in Seq(Entries) /\ Len(input') = Len(input)
  BY <1>1, <1>2, <1>3
<1> QED
  BY <1>1, <1>2, <1>3, <1>4

\* What a user types for q: at most one answer, then the end of the line.
LEMMA TypedLine ==
  ASSUME NEW q \in MainQuestions \cup ListenerQuestions, NEW line \in Lines(q)
  PROVE  /\ Typed(line, q) \in Seq(Entries)
         /\ Len(line) \in {1, 2} /\ Len(Typed(line, q)) = Len(line)
         /\ ~shared => Len(line) = IF q = "enter" THEN 1 ELSE 2
         /\ \A k \in 1..Len(line) :
              /\ Typed(line, q)[k].for = q
              /\ Typed(line, q)[k].char = Enter <=> k = Len(line)
<1>1. q \in Fors
  BY DEF Fors, MainQuestions, ListenerQuestions
<1>2. \/ line = <<Enter>> /\ (shared \/ q = "enter")
      \/ q # "enter" /\ \E c \in Chars \ {Enter} : line = <<c, Enter>>
  <2>1. Answers(q) \subseteq Chars \ {Enter} /\ (q = "enter" => Answers(q) = {})
    BY DEF Answers, Chars, Enter, MainQuestions, ListenerQuestions
  <2> QED
    BY <2>1 DEF Lines
<1>3. CASE line = <<Enter>> /\ (shared \/ q = "enter")
  <2>1. DOMAIN line = 1..1 /\ Len(line) = 1 /\ line[1] = Enter
    BY <1>3
  <2>2. Typed(line, q) = [k \in 1..1 |-> [char |-> line[k], for |-> q]]
    BY <2>1 DEF Typed
  <2>3. Typed(line, q)[1] = [char |-> Enter, for |-> q] /\ Typed(line, q)[1] \in Entries
    BY <1>1, <2>1, <2>2, EntriesAre DEF Chars, Enter
  <2>4. Typed(line, q) \in Seq(Entries) /\ Len(Typed(line, q)) = 1
    BY <2>2, <2>3
  <2>5. \A k \in 1..1 : k = 1
    OBVIOUS
  <2>6. Typed(line, q)[1].for = q /\ Typed(line, q)[1].char = Enter
    BY <2>3
  <2> QED
    BY <1>3, <2>1, <2>4, <2>5, <2>6
<1>4. CASE q # "enter" /\ \E c \in Chars \ {Enter} : line = <<c, Enter>>
  <2>1. PICK c \in Chars \ {Enter} : line = <<c, Enter>>
    BY <1>4
  <2>2. DOMAIN line = 1..2 /\ Len(line) = 2 /\ line[1] = c /\ line[2] = Enter
    BY <2>1
  <2>3. Typed(line, q) = [k \in 1..2 |-> [char |-> line[k], for |-> q]]
    BY <2>2 DEF Typed
  <2>4. /\ Typed(line, q)[1] = [char |-> c, for |-> q] /\ Typed(line, q)[1] \in Entries
        /\ Typed(line, q)[2] = [char |-> Enter, for |-> q] /\ Typed(line, q)[2] \in Entries
    BY <1>1, <2>2, <2>3, EntriesAre DEF Chars, Enter
  <2>5. Typed(line, q) \in Seq(Entries) /\ Len(Typed(line, q)) = 2
    BY <2>3, <2>4
  <2>6. \A k \in 1..2 : k = 1 \/ k = 2
    OBVIOUS
  <2>7. /\ Typed(line, q)[1].for = q /\ Typed(line, q)[1].char # Enter
        /\ Typed(line, q)[2].for = q /\ Typed(line, q)[2].char = Enter
    BY <2>1, <2>4
  <2> QED
    BY <1>4, <2>2, <2>5, <2>6, <2>7
<1> QED
  BY <1>2, <1>3, <1>4

LEMMA Appended ==
  ASSUME NEW S, NEW s \in Seq(S), NEW t \in Seq(S)
  PROVE  /\ s \o t \in Seq(S) /\ Len(s \o t) = Len(s) + Len(t)
         /\ DOMAIN (s \o t) = 1..Len(s \o t)
         /\ \A k \in 1..Len(s) : (s \o t)[k] = s[k]
         /\ \A k \in 1..Len(s \o t) : k > Len(s) => (s \o t)[k] = t[k - Len(s)]
OBVIOUS

\* A line is put behind what is there.
LEMMA TypedInput ==
  ASSUME ConsoleTypeOK, NEW q \in MainQuestions \cup ListenerQuestions,
         NEW line \in Lines(q), input' = input \o Typed(line, q)
  PROVE  /\ input' \in Seq(Entries)
         /\ Len(input') = Len(input) + Len(line)
         /\ \A k \in DOMAIN input : input'[k] = input[k]
         /\ \A k \in DOMAIN input' \ DOMAIN input :
              input'[k].for = q /\ (input'[k].char = Enter <=> k = Len(input'))
<1>1. input \in Seq(Entries) /\ DOMAIN input = 1..Len(input) /\ Len(input) \in Nat
  BY DEF ConsoleTypeOK
<1>2. PICK typed \in Seq(Entries) : typed = Typed(line, q)
  BY TypedLine
<1>3. /\ Len(typed) = Len(line) /\ Len(line) \in Nat
      /\ \A k \in 1..Len(line) :
           typed[k].for = q /\ (typed[k].char = Enter <=> k = Len(line))
  BY <1>2, TypedLine
<1>4. input' = input \o typed
  BY <1>2
<1>5. /\ input' \in Seq(Entries) /\ Len(input') = Len(input) + Len(line)
      /\ DOMAIN input' = 1..Len(input')
      /\ \A k \in 1..Len(input) : input'[k] = input[k]
      /\ \A k \in 1..Len(input') : k > Len(input) => input'[k] = typed[k - Len(input)]
  <2>1. /\ input \o typed \in Seq(Entries)
        /\ Len(input \o typed) = Len(input) + Len(typed)
        /\ DOMAIN (input \o typed) = 1..Len(input \o typed)
        /\ \A k \in 1..Len(input) : (input \o typed)[k] = input[k]
        /\ \A k \in 1..Len(input \o typed) :
             k > Len(input) => (input \o typed)[k] = typed[k - Len(input)]
    BY <1>1, Appended, Zenon
  <2> QED
    BY <1>3, <1>4, <2>1, Zenon
<1>6. ASSUME NEW k \in DOMAIN input' \ DOMAIN input
      PROVE  input'[k].for = q /\ (input'[k].char = Enter <=> k = Len(input'))
  <2>1. k \in Nat /\ k > Len(input) /\ k - Len(input) \in 1..Len(line)
    BY <1>1, <1>3, <1>5, <1>6
  <2>2. input'[k] = typed[k - Len(input)]
    BY <1>5, <2>1, <1>6
  <2>3. k - Len(input) = Len(line) <=> k = Len(input')
    BY <1>1, <1>3, <1>5, <2>1
  <2> QED
    BY <1>3, <2>1, <2>2, <2>3
<1> QED
  BY <1>1, <1>5, <1>6

-----------------------------------------------------------------------------
(* The steps of the main thread.                                           *)

\* What main does with a number: it asks again, sleeps, leaves or connects.
LEMMA ActAsks ==
  ASSUME Act
  PROVE  /\ mask' \in {"action", "peer"}
         /\ mpc' \in {"number", "asleep", "exit", "connecting"}
         /\ number' = NoNumber
<1>1. \/ Ask("action", "number") \/ Ask("action", "asleep")
      \/ Ask("action", "exit") \/ Ask("peer", "exit")
      \/ Ask("peer", "connecting") \/ Ask("peer", "number")
  BY Zenon DEF Act
<1> QED
  BY <1>1 DEF Ask

\* While main asks alone, what is unread belongs to its question.
LEMMA LineOfMain ==
  ASSUME ConsoleInv, ~shared, mpc # "asleep"
  PROVE  /\ ~misheard
         /\ \A k \in DOMAIN input :
              input[k].for = mask /\ (input[k].char = Enter <=> k = Len(input))
BY DEF ConsoleInv, MainAlone, LoneReaderHears

LEMMA ReadNumberStep ==
  ASSUME ConsoleTypeOK, ConsoleInv, ReadNumber
  PROVE  ConsoleTypeOK' /\ ConsoleInv'
<1> USE DEF MainQuestions, ListenerQuestions
<1>1. /\ mpc = "number" /\ input # <<>> /\ mask' = mask /\ lpc' = lpc
      /\ choice' = choice /\ shared' = shared
  BY DEF ReadNumber, listenerVars
<1>2. CASE First = Enter /\ number = NoNumber /\ Skip /\ UNCHANGED <<mpc, number, failbit>>
  <2>1. input' = Tail(input) /\ misheard' = misheard
        /\ mpc' = mpc /\ number' = number /\ failbit' = failbit
    BY <1>2 DEF Skip
  <2>2. ConsoleTypeOK'
    BY <1>1, <2>1, TailOfInput DEF ConsoleTypeOK
  <2>3. ASSUME ~shared
        PROVE  input' = <<>>
    BY <1>1, <1>2, <2>1, <2>3, TailOfInput DEF ConsoleInv, MainAlone, First
  <2> QED
    BY <1>1, <2>1, <2>2, <2>3 DEF ConsoleInv, MainAlone, ListenerAlone, LoneReaderHears
<1>3. CASE /\ First \in DOMAIN Digit
           /\ number' = IF number \in {NoNumber, 0} THEN Digit[First] ELSE TooLarge
           /\ Take(mask) /\ UNCHANGED <<mpc, failbit>>
  <2>1. input' = Tail(input) /\ misheard' = (misheard \/ Head(input).for # mask)
        /\ mpc' = mpc /\ failbit' = failbit
    BY <1>3 DEF Take
  <2>2. number' \in NoNumber..TooLarge
    BY <1>3 DEF Digit, NoNumber, TooLarge
  <2>3. ConsoleTypeOK'
    BY <1>1, <2>1, <2>2, TailOfInput DEF ConsoleTypeOK
  <2>4. ASSUME ~shared
        PROVE  /\ ~misheard'
               /\ \A k \in DOMAIN input' :
                    input'[k].for = mask /\ (input'[k].char = Enter <=> k = Len(input'))
    BY <1>1, <2>1, <2>4, LineOfMain, RestOfLine
  <2> QED
    BY <1>1, <2>1, <2>3, <2>4 DEF ConsoleInv, MainAlone, ListenerAlone, LoneReaderHears
<1>4. CASE mpc' = "rest" /\ UNCHANGED <<input, misheard, number, failbit>>
  BY <1>1, <1>4 DEF ConsoleTypeOK, ConsoleInv, MainAlone, ListenerAlone, LoneReaderHears
<1>5. CASE mpc' = "failed" /\ failbit' = TRUE /\ UNCHANGED <<input, misheard, number>>
  BY <1>1, <1>5 DEF ConsoleTypeOK, ConsoleInv, MainAlone, ListenerAlone, LoneReaderHears
<1> QED
  BY <1>2, <1>3, <1>4, <1>5 DEF ReadNumber

LEMMA TestFailedStep ==
  ASSUME ConsoleTypeOK, ConsoleInv, TestFailed
  PROVE  ConsoleTypeOK' /\ ConsoleInv'
<1>1. /\ mpc = "failed" /\ mpc' \in {"discard", "rest"} /\ failbit' = FALSE
      /\ number' \in {number, 0} /\ UNCHANGED <<input, mask, lpc, choice, shared, misheard>>
  BY DEF TestFailed, listenerVars
<1>2. ConsoleTypeOK'
  <2>1. number' \in NoNumber..TooLarge
    BY <1>1 DEF ConsoleTypeOK, NoNumber, TooLarge
  <2> QED
    BY <1>1, <2>1 DEF ConsoleTypeOK
<1> QED
  BY <1>1, <1>2 DEF ConsoleInv, MainAlone, ListenerAlone, LoneReaderHears

\* The last character of a line takes main to its next question with nothing
\* left to read.
LEMMA IgnoreLineStep ==
  ASSUME ConsoleTypeOK, ConsoleInv, IgnoreLine
  PROVE  ConsoleTypeOK' /\ ConsoleInv'
<1> USE DEF MainQuestions, ListenerQuestions
<1>1. /\ mpc \in {"rest", "discard"} /\ input # <<>>
      /\ input' = Tail(input) /\ misheard' = (misheard \/ Head(input).for # mask)
      /\ failbit' = failbit /\ choice' = choice /\ shared' = shared
  BY DEF IgnoreLine, Take
<1>2. ASSUME ~shared
      PROVE  /\ ~misheard'
             /\ \A k \in DOMAIN input' :
                  input'[k].for = mask /\ (input'[k].char = Enter <=> k = Len(input'))
             /\ First = Enter => input' = <<>>
             /\ lpc \in {"off", "idle"}
             /\ ~failbit
  <2>1. lpc \in {"off", "idle"} /\ ~failbit
    BY <1>1, <1>2 DEF ConsoleInv, MainAlone
  <2> QED
    BY <1>1, <1>2, <2>1, LineOfMain, RestOfLine
<1>3. CASE First = Enter
  <2>1. Act /\ StartListener
    BY <1>3 DEF IgnoreLine
  <2>2. lpc' \in {lpc, "idle"}
    BY <2>1 DEF StartListener
  <2>3. ConsoleTypeOK'
    BY <1>1, <2>1, <2>2, ActAsks, TailOfInput DEF ConsoleTypeOK, NoNumber, TooLarge
  <2> QED
    BY <1>1, <1>2, <1>3, <2>1, <2>2, <2>3, ActAsks
       DEF ConsoleInv, MainAlone, ListenerAlone, LoneReaderHears, AllEnters
<1>4. CASE First # Enter
  <2>1. UNCHANGED <<mpc, mask, number, lpc>>
    BY <1>4 DEF IgnoreLine, mainVars
  <2>2. ConsoleTypeOK'
    BY <1>1, <2>1, TailOfInput DEF ConsoleTypeOK
  <2> QED
    BY <1>1, <1>2, <2>1, <2>2 DEF ConsoleInv, MainAlone, ListenerAlone, LoneReaderHears
<1> QED
  BY <1>3, <1>4

LEMMA ReadPathStep ==
  ASSUME ConsoleTypeOK, ConsoleInv, ReadPath
  PROVE  ConsoleTypeOK' /\ ConsoleInv'
<1>1. /\ mpc = "line" /\ input # <<>>
      /\ input' = Tail(input) /\ misheard' = (misheard \/ Head(input).for # mask)
      /\ mpc' = IF First = Enter THEN "sending" ELSE "line"
      /\ UNCHANGED <<failbit, mask, number, lpc, choice, shared>>
  BY DEF ReadPath, Take, listenerVars
<1>2. ASSUME ~shared
      PROVE  /\ ~misheard'
             /\ \A k \in DOMAIN input' :
                  input'[k].for = mask /\ (input'[k].char = Enter <=> k = Len(input'))
             /\ First = Enter => input' = <<>>
  BY <1>1, <1>2, LineOfMain, RestOfLine
<1>3. ConsoleTypeOK'
  BY <1>1, TailOfInput DEF ConsoleTypeOK
<1> QED
  BY <1>1, <1>2, <1>3 DEF ConsoleInv, MainAlone, ListenerAlone, LoneReaderHears

LEMMA ReadEnterStep ==
  ASSUME ConsoleTypeOK, ConsoleInv, ReadEnter
  PROVE  ConsoleTypeOK' /\ ConsoleInv'
<1> USE DEF MainQuestions, ListenerQuestions
<1>1. /\ mpc \in {"one", "two"} /\ input # <<>>
      /\ input' = Tail(input) /\ misheard' = (misheard \/ Head(input).for # mask)
      /\ \/ mpc' = "two" /\ mask' = mask /\ number' = number
         \/ mpc' = "number" /\ mask' = "peer" /\ number' = NoNumber
      /\ UNCHANGED <<failbit, lpc, choice, shared>>
  BY DEF ReadEnter, Take, Ask, listenerVars
<1>2. ASSUME ~shared
      PROVE  ~misheard' /\ input' = <<>>
  <2>1. ~misheard' 
    BY <1>1, <1>2, LineOfMain, RestOfLine
  <2>2. Len(input) <= 1
    BY <1>1, <1>2 DEF ConsoleInv, MainAlone
  <2> QED
    BY <1>1, <2>1, <2>2, TailOfInput
<1>3. ConsoleTypeOK'
  BY <1>1, TailOfInput DEF ConsoleTypeOK, NoNumber, TooLarge
<1> QED
  BY <1>1, <1>2, <1>3 DEF ConsoleInv, MainAlone, ListenerAlone, LoneReaderHears

LEMMA NetworkDoneStep ==
  ASSUME ConsoleTypeOK, ConsoleInv, NetworkDone
  PROVE  ConsoleTypeOK' /\ ConsoleInv'
<1> USE DEF MainQuestions, ListenerQuestions
<1>1. /\ mpc \in {"connecting", "sending"}
      /\ \/ mask' = "path" /\ mpc' \in {"line", "exit"}
         \/ mask' = "enter" /\ mpc' = "one"
      /\ number' = NoNumber
      /\ Stale(mask')
      /\ UNCHANGED <<failbit, lpc, choice, shared, misheard>>
  BY DEF NetworkDone, Ask, listenerVars
<1>2. input' \in Seq(Entries) /\ Len(input') = Len(input)
  BY <1>1, StaleInput
<1>3. ConsoleTypeOK'
  BY <1>1, <1>2 DEF ConsoleTypeOK, NoNumber, TooLarge
<1>4. ASSUME ~shared
      PROVE  input' = <<>>
  BY <1>1, <1>2, <1>4 DEF ConsoleInv, MainAlone, ConsoleTypeOK
<1> QED
  BY <1>1, <1>3, <1>4 DEF ConsoleInv, MainAlone, ListenerAlone, LoneReaderHears

-----------------------------------------------------------------------------
(* The steps of the listener thread.                                       *)

LEMMA PromptStep ==
  ASSUME ConsoleTypeOK, ConsoleInv,
         NEW from \in {"idle", "offer"}, NEW q \in ListenerQuestions, Prompt(from, q)
  PROVE  ConsoleTypeOK' /\ ConsoleInv'
<1> USE DEF MainQuestions, ListenerQuestions
<1>1. /\ mpc # "exit" /\ lpc = from /\ lpc' = q /\ Stale(q)
      /\ shared' = (shared \/ mpc # "asleep")
      /\ UNCHANGED <<failbit, mpc, mask, number, choice, misheard>>
  BY DEF Prompt, mainVars
<1>2. ConsoleTypeOK'
  BY <1>1, StaleInput DEF ConsoleTypeOK
<1>3. ASSUME ~shared'
      PROVE  ~shared /\ mpc = "asleep" /\ AllEnters'
  BY <1>1, <1>3, StaleInput DEF ConsoleInv, ListenerAlone, AllEnters
<1> QED
  BY <1>1, <1>2, <1>3
     DEF ConsoleInv, MainAlone, ListenerAlone, LoneReaderHears, AllEnters

LEMMA ReadChoiceStep ==
  ASSUME ConsoleTypeOK, ConsoleInv, ReadChoice
  PROVE  ConsoleTypeOK' /\ ConsoleInv'
<1> USE DEF MainQuestions, ListenerQuestions
<1>1. /\ mpc # "exit" /\ lpc \in ListenerQuestions
      /\ UNCHANGED <<failbit, mpc, mask, number, shared>>
  BY DEF ReadChoice, mainVars
<1>2. ASSUME ~shared
      PROVE  mpc = "asleep" /\ ~failbit
  BY <1>1, <1>2 DEF ConsoleInv, MainAlone, ListenerAlone
<1>3. CASE input # <<>> /\ First = Enter /\ Skip /\ UNCHANGED listenerVars
  <2>1. input' = Tail(input) /\ misheard' = misheard /\ lpc' = lpc /\ choice' = choice
    BY <1>3 DEF Skip, listenerVars
  <2>2. ConsoleTypeOK'
    BY <1>1, <1>3, <2>1, TailOfInput DEF ConsoleTypeOK
  <2>3. ASSUME ~shared
        PROVE  \A k \in DOMAIN input' : input'[k].char # Enter =>
                 /\ Len(input') = k + 1
                 /\ input'[k].for = lpc /\ input'[k + 1].for = lpc
    <3> SUFFICES ASSUME NEW k \in DOMAIN input', input'[k].char # Enter
                 PROVE  /\ Len(input') = k + 1
                        /\ input'[k].for = lpc /\ input'[k + 1].for = lpc
      OBVIOUS
    <3>1. /\ k \in Nat /\ k + 1 \in DOMAIN input /\ input'[k] = input[k + 1]
          /\ Len(input') = Len(input) - 1 /\ DOMAIN input' = 1..Len(input')
      BY <1>3, <2>1, TailOfInput
    <3>2. Len(input) = k + 2 /\ input[k + 1].for = lpc /\ input[k + 2].for = lpc
      BY <1>1, <1>2, <2>3, <3>1 DEF ConsoleInv, ListenerAlone
    <3>3. k + 1 \in DOMAIN input'
      BY <3>1, <3>2
    <3> QED
      BY <1>3, <2>1, <3>1, <3>2, <3>3, TailOfInput
  <2> QED
    BY <1>1, <1>2, <2>1, <2>2, <2>3
       DEF ConsoleInv, MainAlone, ListenerAlone, LoneReaderHears
<1>4. CASE /\ \/ input # <<>> /\ First # Enter /\ Take(lpc) /\ choice' = (First = "y")
              \/ failbit /\ choice' \in BOOLEAN /\ UNCHANGED <<input, misheard>>
           /\ lpc' = CASE lpc = "confirm" -> "rest"
                       [] lpc = "allow" /\ choice' -> "offer"
                       [] OTHER -> "idle"
  <2>1. /\ lpc' \in {"rest", "offer", "idle"}
        /\ lpc' = "rest" => lpc = "confirm"
    <3>1. lpc = "confirm" \/ lpc = "allow"
      BY <1>1
    <3> QED
      BY <1>4, <3>1, Zenon
  <2>2. ConsoleTypeOK'
    <3>1. CASE input # <<>> /\ Take(lpc) /\ choice' = (First = "y")
      BY <1>1, <2>1, <3>1, TailOfInput DEF ConsoleTypeOK, Take
    <3>2. CASE choice' \in BOOLEAN /\ UNCHANGED <<input, misheard>>
      BY <1>1, <2>1, <3>2 DEF ConsoleTypeOK
    <3> QED
      BY <1>4, <3>1, <3>2
  <2>3. ASSUME ~shared
        PROVE  /\ ~misheard'
               /\ AllEnters'
               /\ \A k \in DOMAIN input' : input'[k].for = lpc
    <3>1. input # <<>> /\ First # Enter /\ input' = Tail(input)
          /\ misheard' = (misheard \/ Head(input).for # lpc)
      BY <1>2, <1>4, <2>3 DEF Take
    <3>2. 1 \in DOMAIN input /\ Head(input) = input[1] /\ input[1].char # Enter
      BY <3>1, TailOfInput DEF First
    <3>3. Len(input) = 2 /\ input[1].for = lpc /\ input[2].for = lpc
      <4>1. \A k \in DOMAIN input : input[k].char # Enter =>
              Len(input) = k + 1 /\ input[k].for = lpc /\ input[k + 1].for = lpc
        BY <1>1, <1>2, <2>3 DEF ConsoleInv, ListenerAlone
      <4>2. Len(input) = 1 + 1 /\ input[1].for = lpc /\ input[1 + 1].for = lpc
        BY <3>2, <4>1
      <4>3. 1 + 1 = 2
        OBVIOUS
      <4> QED
        BY <4>2, <4>3
    <3>4. input[2].char = Enter
      BY <1>1, <1>2, <2>3, <3>1, <3>3, TailOfInput DEF ConsoleInv, ListenerAlone
    <3> QED
      <4>1. ~misheard'
        BY <2>3, <3>1, <3>2, <3>3 DEF ConsoleInv, LoneReaderHears
      <4>2. \A k \in DOMAIN input' : k = 1 /\ input'[k] = input[2]
        BY <3>1, <3>3, TailOfInput
      <4> QED
        BY <3>3, <3>4, <4>1, <4>2 DEF AllEnters
  <2> QED
    BY <1>1, <1>2, <2>1, <2>2, <2>3
       DEF ConsoleInv, MainAlone, ListenerAlone, LoneReaderHears
<1> QED
  BY <1>3, <1>4 DEF ReadChoice

LEMMA ConfirmRestStep ==
  ASSUME ConsoleTypeOK, ConsoleInv, ConfirmRest
  PROVE  ConsoleTypeOK' /\ ConsoleInv'
<1> USE DEF MainQuestions, ListenerQuestions
<1>1. /\ mpc # "exit" /\ lpc = "rest" /\ lpc' \in {"clear", "rest"}
      /\ UNCHANGED <<failbit, mpc, mask, number, choice, shared>>
  BY DEF ConfirmRest, mainVars
<1>2. \/ input # <<>> /\ Take("confirm")
      \/ failbit /\ UNCHANGED <<input, misheard>>
  BY DEF ConfirmRest
<1>3. ConsoleTypeOK'
  <2>1. CASE input # <<>> /\ Take("confirm")
    BY <1>1, <2>1, TailOfInput DEF ConsoleTypeOK, Take
  <2>2. CASE failbit /\ UNCHANGED <<input, misheard>>
    BY <1>1, <2>2 DEF ConsoleTypeOK
  <2> QED
    BY <1>2, <2>1, <2>2
<1>4. ASSUME ~shared
      PROVE  /\ mpc = "asleep" /\ ~misheard'
             /\ AllEnters' /\ \A k \in DOMAIN input' : input'[k].for = "confirm"
  <2>1. mpc = "asleep" /\ ~failbit /\ ~misheard /\ AllEnters
        /\ \A k \in DOMAIN input : input[k].for = "confirm"
    BY <1>1, <1>4 DEF ConsoleInv, MainAlone, ListenerAlone, LoneReaderHears
  <2>2. input # <<>> /\ input' = Tail(input)
        /\ misheard' = (misheard \/ Head(input).for # "confirm")
    BY <1>2, <2>1 DEF Take
  <2>3. Head(input).for = "confirm"
    BY <2>1, <2>2, TailOfInput
  <2> QED
    BY <2>1, <2>2, <2>3, TailOfInput DEF AllEnters
<1> QED
  BY <1>1, <1>3, <1>4 DEF ConsoleInv, MainAlone, ListenerAlone, LoneReaderHears

\* Nothing is read.
LEMMA ConfirmClearStep ==
  ASSUME ConsoleTypeOK, ConsoleInv, ConfirmClear \/ SessionOver
  PROVE  ConsoleTypeOK' /\ ConsoleInv'
<1>1. /\ mpc # "exit" /\ lpc \in {"clear", "offer", "receiving"}
      /\ lpc' \in {"receiving", "idle"} /\ failbit' \in BOOLEAN /\ (failbit' => failbit)
      /\ UNCHANGED <<input, misheard, mpc, mask, number, choice, shared>>
  <2>1. CASE ConfirmClear
    BY <2>1 DEF ConfirmClear, mainVars
  <2>2. CASE SessionOver
    BY <2>2 DEF SessionOver, mainVars, ConsoleTypeOK
  <2> QED
    BY <2>1, <2>2
<1>2. ConsoleTypeOK'
  BY <1>1 DEF ConsoleTypeOK
<1>3. ASSUME ~shared
      PROVE  mpc = "asleep" /\ ~failbit' /\ ~misheard' /\ AllEnters'
  <2>1. mpc = "asleep" /\ ~misheard
    BY <1>1, <1>3 DEF ConsoleInv, MainAlone, LoneReaderHears
  <2>2. ~failbit /\ AllEnters
    BY <1>1, <1>3, <2>1 DEF ConsoleInv, ListenerAlone, ListenerQuestions
  <2> QED
    BY <1>1, <2>1, <2>2 DEF AllEnters
<1> QED
  BY <1>1, <1>2, <1>3
     DEF ConsoleInv, MainAlone, ListenerAlone, LoneReaderHears, ListenerQuestions

-----------------------------------------------------------------------------
\* A line is typed only when nothing for its question is unread, so it is the
\* only one with an answer in it.
LEMMA TypeStep ==
  ASSUME ConsoleTypeOK, ConsoleInv, NEW q \in Waiting, Type(q)
  PROVE  ConsoleTypeOK' /\ ConsoleInv'
<1> USE DEF MainQuestions, ListenerQuestions
<1>1. /\ mpc # "exit" /\ \A k \in DOMAIN input : input[k].for # q
      /\ UNCHANGED <<failbit, mpc, mask, number, lpc, choice, shared, misheard>>
  BY DEF Type, mainVars, listenerVars
<1>2. q \in MainQuestions \cup ListenerQuestions
  BY DEF Waiting
<1>3. PICK line \in Lines(q) :
        input' = input \o Typed(line, q)
  BY DEF Type
<1>4. /\ input' \in Seq(Entries)
      /\ Len(input') = Len(input) + Len(line)
      /\ \A k \in DOMAIN input : input'[k] = input[k]
      /\ \A k \in DOMAIN input' \ DOMAIN input :
           input'[k].for = q /\ (input'[k].char = Enter <=> k = Len(input'))
  BY <1>2, <1>3, TypedInput
<1>8. /\ Len(line) \in {1, 2}
      /\ ~shared => Len(line) = IF q = "enter" THEN 1 ELSE 2
  BY <1>2, TypedLine
<1>9. /\ Len(input) \in Nat /\ DOMAIN input = 1..Len(input)
      /\ DOMAIN input' = 1..Len(input')
  BY <1>4 DEF ConsoleTypeOK
<1>5. ConsoleTypeOK'
  BY <1>1, <1>4 DEF ConsoleTypeOK
<1>6. ASSUME ~shared, mpc # "asleep"
      PROVE  /\ \A k \in DOMAIN input' :
                  input'[k].for = mask /\ (input'[k].char = Enter <=> k = Len(input'))
             /\ mpc \in {"one", "two"} => Len(input') <= 1
             /\ mpc \notin {"connecting", "sending"}
  <2>1. lpc \in {"off", "idle"} /\ \A k \in DOMAIN input : input[k].for = mask
    BY <1>6 DEF ConsoleInv, MainAlone
  <2>2. q = mask /\ mpc \in {"number", "line", "one", "two"}
    BY <1>2, <1>6, <2>1 DEF Waiting
  <2>3. Len(input) = 0
    BY <1>1, <1>9, <2>1, <2>2
  <2>4. \A k \in DOMAIN input' :
           input'[k].for = mask /\ (input'[k].char = Enter <=> k = Len(input'))
    BY <1>4, <1>9, <2>2, <2>3
  <2>5. mpc \in {"one", "two"} => Len(input') <= 1
    <3>1. mpc \in {"one", "two"} => mask = "enter"
      BY <1>6 DEF ConsoleInv, MainAlone
    <3> QED
      BY <1>4, <1>8, <1>6, <2>2, <2>3, <3>1
  <2> QED
    BY <2>2, <2>4, <2>5
<1>7. ASSUME ~shared, mpc = "asleep"
      PROVE  /\ lpc \in ListenerQuestions
             /\ \A k \in DOMAIN input' : input'[k].char # Enter =>
                  /\ Len(input') = k + 1
                  /\ input'[k].for = lpc /\ input'[k + 1].for = lpc
  <2>1. lpc = q
    BY <1>7 DEF Waiting
  <2>0. q \in ListenerQuestions /\ q # "enter"
    <3>1. lpc \notin MainQuestions
      BY DEF ConsoleTypeOK
    <3> QED
      BY <1>2, <2>1, <3>1
  <2>2. \A k \in DOMAIN input : input[k].char = Enter
    <3>1. \A k \in DOMAIN input : input[k].char # Enter => input[k].for = lpc
      BY <1>7, <2>0, <2>1 DEF ConsoleInv, ListenerAlone
    <3> QED
      BY <1>1, <2>1, <3>1
  <2>3. ASSUME NEW k \in DOMAIN input', input'[k].char # Enter
        PROVE  /\ Len(input') = k + 1
               /\ input'[k].for = lpc /\ input'[k + 1].for = lpc
    <3>1. k \notin DOMAIN input
      BY <1>4, <2>2, <2>3
    <3>2. Len(input') = Len(input) + 2 /\ k # Len(input') /\ k \in Nat
      <4>1. Len(line) = 2
        BY <1>7, <1>8, <2>0
      <4>2. k # Len(input')
        BY <1>4, <2>3, <3>1
      <4> QED
        BY <1>4, <1>9, <4>1, <4>2
    <3>3. k = Len(input) + 1 /\ k + 1 = Len(input')
      BY <1>9, <3>1, <3>2
    <3>4. k + 1 \in DOMAIN input' \ DOMAIN input
      BY <1>9, <3>3
    <3> QED
      BY <1>4, <2>1, <2>3, <3>1, <3>3, <3>4
  <2> QED
    BY <2>0, <2>1, <2>3
<1> QED
  BY <1>1, <1>5, <1>6, <1>7
     DEF ConsoleInv, MainAlone, ListenerAlone, LoneReaderHears

-----------------------------------------------------------------------------
LEMMA StepOK ==
  ASSUME ConsoleTypeOK, ConsoleInv, Next
  PROVE  ConsoleTypeOK' /\ ConsoleInv'
<1>1. CASE Main
  BY <1>1, ReadNumberStep, TestFailedStep, IgnoreLineStep, ReadPathStep, ReadEnterStep,
     NetworkDoneStep DEF Main
<1>2. CASE Request \/ OfferArrives
  BY <1>2, PromptStep DEF Request, OfferArrives, ListenerQuestions
<1>3. CASE Listener \/ SessionOver
  BY <1>3, ReadChoiceStep, ConfirmRestStep, ConfirmClearStep DEF Listener
<1>4. CASE User
  BY <1>4, TypeStep DEF User
<1> QED
  BY <1>1, <1>2, <1>3, <1>4 DEF Next

\* What is unread belongs to the one thread that asks, in every reachable
\* state in which only one of them has asked.
THEOREM ConsoleInvHolds == Spec => [](ConsoleTypeOK /\ ConsoleInv)
<1>1. Init => ConsoleTypeOK /\ ConsoleInv
  <2> SUFFICES ASSUME Init PROVE ConsoleTypeOK /\ ConsoleInv
    OBVIOUS
  <2>1. ConsoleTypeOK
    <3>1. <<>> \in Seq(Entries) /\ NoNumber \in NoNumber..TooLarge
      BY DEF NoNumber, TooLarge
    <3> QED
      BY <3>1 DEF Init, ConsoleTypeOK, MainQuestions
  <2>2. ConsoleInv
    BY DEF Init, ConsoleInv, LoneReaderHears, MainAlone, ListenerAlone
  <2> QED
    BY <2>1, <2>2
<1>2. ConsoleTypeOK /\ ConsoleInv /\ [Next]_vars => ConsoleTypeOK' /\ ConsoleInv'
  <2> SUFFICES ASSUME ConsoleTypeOK, ConsoleInv, UNCHANGED vars
               PROVE  ConsoleTypeOK' /\ ConsoleInv'
    BY StepOK
  <2>1. UNCHANGED <<input, failbit, mpc, mask, number, lpc, choice, shared, misheard>>
    BY DEF vars, mainVars, listenerVars
  <2>2. ConsoleTypeOK'
    BY <2>1 DEF ConsoleTypeOK
  <2>3. MainAlone' /\ ListenerAlone'
    BY <2>1 DEF ConsoleInv, MainAlone, ListenerAlone, AllEnters
  <2> QED
    BY <2>1, <2>2, <2>3 DEF ConsoleInv, LoneReaderHears
<1> QED
  BY <1>1, <1>2, PTL DEF Spec

\* Every variable keeps to its values, whatever is typed and wherever the two
\* threads are: the type invariant of Console.
THEOREM ConsoleTypeCorrect == Spec => []ConsoleTypeOK
<1> QED
  BY ConsoleInvHolds, PTL

\* As long as the listener has not asked beside main, neither thread of the
\* process takes a character that was typed for another question.
THEOREM LoneReaderHearsHolds == Spec => []LoneReaderHears
<1>1. ConsoleTypeOK /\ ConsoleInv => LoneReaderHears
  BY DEF ConsoleInv
<1> QED
  BY <1>1, ConsoleInvHolds, PTL
=============================================================================
