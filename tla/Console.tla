------------------------------ MODULE Console ------------------------------
(***************************************************************************)
(* The prompts of one process.  main asks for an action, a peer, a path    *)
(* and Enter; the listener thread asks whether to allow a connection and   *)
(* to accept a file.  Both read the same stdin, one character at a time,   *)
(* and share the failure flag of cin.                                      *)
(*                                                                         *)
(* The user is careful: a line is typed only for a question that waits,    *)
(* one character and Enter, and nothing while an answer is still unread.   *)
(* Network operations end either way.                                      *)
(***************************************************************************)
EXTENDS Integers, Sequences

CONSTANTS
  Peers,    \* the numbers of the peers that are listed
  MaxInput  \* characters that are typed ahead

ASSUME ConsoleAssumption == Peers \subseteq 1..3 /\ MaxInput \in Nat

VARIABLES
  input,     \* characters typed and not read, each with its question
  failbit,   \* of cin
  mpc, mask, \* the main thread: what it does, and the question it asks
  number,    \* what operator>> has read so far, NoNumber for nothing
  lpc,       \* the listener thread
  choice,    \* the answer it has read
  shared,    \* the listener has asked while main asks too
  misheard   \* a character was read as the answer to another question

vars == <<input, failbit, mpc, mask, number, lpc, choice, shared, misheard>>
mainVars == <<mpc, mask, number>>
listenerVars == <<lpc, choice>>

NoNumber == -1
TooLarge == 9  \* any number of two digits

\* Seeded fault: the code of the character is taken for its value.
Code == [c \in {"0", "1", "2", "3"} |->
           CASE c = "0" -> 48 [] c = "1" -> 49 [] c = "2" -> 50 [] c = "3" -> 51]

Digit == [c \in {"0", "1", "2", "3"} |->
            CASE c = "0" -> 0 [] c = "1" -> 1 [] c = "2" -> 2 [] c = "3" -> 3]
Letters == {"y", "n", "x"}
Enter == "enter"

\* What a careful user may answer.
Answers(q) ==
  CASE q = "action" -> {"0", "1", "2", "3", "n"}
    [] q = "peer"   -> {"0", "1", "3", "n"}
    [] q = "path"   -> {"x"}
    [] q \in {"allow", "confirm"} -> {"y", "n"}
    [] q = "enter"  -> {}

MainQuestions == {"action", "peer", "path", "enter"}
ListenerQuestions == {"allow", "confirm"}

Entries == [char : DOMAIN Digit \cup Letters \cup {Enter},
            for : MainQuestions \cup ListenerQuestions \cup {"earlier"}]

ConsoleTypeOK ==
  /\ input \in Seq(Entries)
  /\ failbit \in BOOLEAN
  /\ mpc \in {"number", "failed", "discard", "rest", "line", "one", "two",
              "connecting", "sending", "asleep", "exit"}
  /\ mask \in MainQuestions
  /\ number \in NoNumber..TooLarge
  /\ lpc \in ListenerQuestions \cup {"off", "idle", "offer", "rest", "clear", "receiving"}
  /\ choice \in BOOLEAN
  /\ shared \in BOOLEAN
  /\ misheard \in BOOLEAN

Init ==
  /\ input = <<>>
  /\ failbit = FALSE
  /\ mpc = "number" /\ mask = "action" /\ number = NoNumber
  /\ lpc = "off" /\ choice = FALSE
  /\ shared = FALSE /\ misheard = FALSE

-----------------------------------------------------------------------------
(* Reading characters.                                                     *)

First == Head(input).char

\* The next character is read as part of the answer to q.
Take(q) ==
  /\ input' = Tail(input)
  /\ misheard' = (misheard \/ Head(input).for # q)

\* White space in front of what operator>> reads.
Skip == input' = Tail(input) /\ UNCHANGED misheard

\* A question is asked again: what is left of the last answer is not for it.
Stale(q) ==
  input' = [k \in DOMAIN input |->
              IF input[k].for = q THEN [input[k] EXCEPT !.for = "earlier"] ELSE input[k]]

\* main asks q and reads a number, a line or a character.
Ask(q, how) == mask' = q /\ mpc' = how /\ number' = NoNumber

-----------------------------------------------------------------------------
(* The main thread: CLI::selectAction, selectPeer, askFilePath and main.   *)

\* cin >> c: white space, then digits.  A letter in their place fails and
\* stays, as does the character behind them.
ReadNumber ==
  /\ mpc = "number" /\ input # <<>>
  /\ \/ /\ First = Enter /\ number = NoNumber
        /\ Skip /\ UNCHANGED <<mpc, number, failbit>>
     \/ /\ First \in DOMAIN Digit
        /\ number' = IF number \in {NoNumber, 0} THEN Digit[First] ELSE TooLarge
        /\ Take(mask) /\ UNCHANGED <<mpc, failbit>>
     \/ /\ First \notin DOMAIN Digit /\ number # NoNumber
        /\ mpc' = "rest" /\ UNCHANGED <<input, misheard, number, failbit>>
     \/ /\ First \in Letters /\ number = NoNumber
        /\ mpc' = "failed" /\ failbit' = TRUE
        /\ UNCHANGED <<input, misheard, number>>
  /\ UNCHANGED <<mask, listenerVars, shared>>

\* The test of cin, and cin.clear.  When the listener has cleared the flag in
\* between, c counts as read: it is 0.
TestFailed ==
  /\ mpc = "failed"
  /\ IF failbit THEN mpc' = "discard" /\ UNCHANGED number
     ELSE mpc' = "rest" /\ number' = 0
  /\ failbit' = FALSE
  /\ UNCHANGED <<input, mask, listenerVars, shared, misheard>>

\* What main does with a number it has read, or could not read: an action
\* that is not a number goes on like "send".
Act ==
  CASE mpc = "rest" /\ mask = "action" /\ number \notin 1..3 -> Ask("action", "number")
    [] mpc = "rest" /\ mask = "action" /\ number = 2 -> Ask("action", "asleep")
    [] mpc = "rest" /\ mask = "action" /\ number = 3 -> Ask("action", "exit")
    [] mpc = "rest" /\ mask = "peer" /\ number = 0 -> Ask("peer", "exit")
    [] mpc = "rest" /\ mask = "peer" /\ number \in Peers -> Ask("peer", "connecting")
    [] OTHER -> Ask("peer", "number")

\* The listener is started when an action has been selected.
StartListener ==
  lpc' = IF lpc = "off" /\ (mask' = "peer" \/ mpc' = "asleep") THEN "idle" ELSE lpc

\* Seeded fault: the rest of the line is left in the stream.
IgnoreNothing ==
  /\ mpc \in {"rest", "discard"} /\ input # <<>>
  /\ Act /\ StartListener
  /\ UNCHANGED <<input, misheard, failbit, choice, shared>>

\* cin.ignore, up to the end of the line.
IgnoreLine ==
  /\ mpc \in {"rest", "discard"} /\ input # <<>>
  /\ Take(mask)
  /\ IF First = Enter THEN Act /\ StartListener ELSE UNCHANGED <<mainVars, lpc>>
  /\ UNCHANGED <<failbit, choice, shared>>

\* getline(cin, path)
ReadPath ==
  /\ mpc = "line" /\ input # <<>>
  /\ Take(mask)
  /\ mpc' = IF First = Enter THEN "sending" ELSE "line"
  /\ UNCHANGED <<failbit, mask, number, listenerVars, shared>>

\* "Press Enter to continue": cin.ignore() takes a character and cin.get()
\* another one.
ReadEnter ==
  /\ mpc \in {"one", "two"} /\ input # <<>>
  /\ Take(mask)
  /\ IF mpc = "one" THEN mpc' = "two" /\ UNCHANGED <<mask, number>>
     ELSE Ask("peer", "number")
  /\ UNCHANGED <<failbit, listenerVars, shared>>

\* The connection is there, or not; the file is sent, or not.
NetworkDone ==
  /\ \/ mpc = "connecting" /\ Ask("path", "line")
     \/ mpc \in {"connecting", "sending"} /\ Ask("enter", "one")
     \/ mpc = "sending" /\ Ask("path", "exit")
  /\ Stale(mask')
  /\ UNCHANGED <<failbit, listenerVars, shared, misheard>>

Main == ReadNumber \/ TestFailed \/ IgnoreLine \/ ReadPath \/ ReadEnter \/ NetworkDone

-----------------------------------------------------------------------------
(* The listener thread: backgroundListenerTask and confirmFileReceive.     *)

\* A connection has been greeted, or the offer of one that was allowed is
\* there: the listener asks.
Prompt(from, q) ==
  /\ mpc # "exit" /\ lpc = from
  /\ lpc' = q
  /\ Stale(q)
  /\ shared' = (shared \/ mpc # "asleep")
  /\ UNCHANGED <<failbit, mainVars, choice, misheard>>

Request == Prompt("idle", "allow")
OfferArrives == Prompt("offer", "confirm")

\* cin >> choice, cin >> c.  While the flag is set nothing is read, and the
\* variable, which has no value before, is anything.  The rest of the line
\* is ignored in confirmFileReceive only.
ReadChoice ==
  /\ mpc # "exit" /\ lpc \in ListenerQuestions
  /\ \/ /\ input # <<>> /\ First = Enter
        /\ Skip /\ UNCHANGED listenerVars
     \/ /\ \/ input # <<>> /\ First # Enter /\ Take(lpc) /\ choice' = (First = "y")
           \/ failbit /\ choice' \in BOOLEAN /\ UNCHANGED <<input, misheard>>
        /\ lpc' = CASE lpc = "confirm" -> "rest"
                    [] lpc = "allow" /\ choice' -> "offer"
                    [] OTHER -> "idle"
  /\ UNCHANGED <<failbit, mainVars, shared>>

\* Seeded fault: the end of the line is not where cin.ignore stops.
ConfirmRestOn ==
  /\ mpc # "exit" /\ lpc = "rest"
  /\ input # <<>>
  /\ Take("confirm")
  /\ UNCHANGED <<failbit, mainVars, listenerVars, shared>>

\* cin.ignore, which does nothing while the flag is set.
ConfirmRest ==
  /\ mpc # "exit" /\ lpc = "rest"
  /\ \/ /\ input # <<>>
        /\ Take("confirm")
        /\ lpc' = IF First = Enter THEN "clear" ELSE "rest"
     \/ failbit /\ lpc' = "clear" /\ UNCHANGED <<input, misheard>>
  /\ UNCHANGED <<failbit, mainVars, choice, shared>>

\* cin.clear
ConfirmClear ==
  /\ mpc # "exit" /\ lpc = "clear"
  /\ failbit' = FALSE
  /\ lpc' = IF choice THEN "receiving" ELSE "idle"
  /\ UNCHANGED <<input, misheard, mainVars, choice, shared>>

\* The session is over.
SessionOver ==
  /\ mpc # "exit" /\ lpc \in {"offer", "receiving"}
  /\ lpc' = "idle"
  /\ UNCHANGED <<input, misheard, failbit, mainVars, choice, shared>>

Listener == ReadChoice \/ ConfirmRest \/ ConfirmClear

-----------------------------------------------------------------------------
(* The user.                                                               *)

\* The questions to answer; when a part of a line went to the other thread,
\* those that need another Enter as well.
Waiting ==
  {q \in MainQuestions \cup ListenerQuestions :
     \/ mask = q /\ mpc \in {"number", "line", "one", "two"}
     \/ lpc = q
     \/ shared /\ mask = q /\ mpc \in {"rest", "discard"}
     \/ shared /\ q = "confirm" /\ lpc = "rest"}

Lines(q) ==
  {<<c, Enter>> : c \in Answers(q)} \cup (IF shared \/ q = "enter" THEN {<<Enter>>} ELSE {})

Typed(line, q) == [k \in DOMAIN line |-> [char |-> line[k], for |-> q]]

Type(q) ==
  /\ mpc # "exit" /\ q \in Waiting
  /\ \A k \in DOMAIN input : input[k].for # q
  /\ \E line \in Lines(q) :
       /\ Len(input) + Len(line) <= MaxInput
       /\ input' = input \o Typed(line, q)
  /\ UNCHANGED <<failbit, mainVars, listenerVars, shared, misheard>>

User == \E q \in Waiting : Type(q)

Next == Main \/ Request \/ OfferArrives \/ Listener \/ SessionOver \/ User

\* Both threads run, and the user answers.
Spec == Init /\ [][Next]_vars /\ WF_vars(Main) /\ WF_vars(Listener) /\ WF_vars(User)
-----------------------------------------------------------------------------
\* As long as the listener has not asked beside main, no thread takes a
\* character that was typed for another question: every read of main.cpp and
\* CLI.cpp leaves nothing behind that a later one could take for its answer.
LoneReaderHears == ~shared => ~misheard

\* A receiver whose main thread is asleep gets every prompt of its listener
\* answered, with one line each, connection after connection.
PromptsAnswered ==
  \A q \in ListenerQuestions :
    (lpc = q) ~> (lpc \in {"offer", "receiving", "idle"} \/ shared)

-----------------------------------------------------------------------------
(* The inductive invariant behind LoneReaderHears.                         *)

AllEnters == \A k \in DOMAIN input : input[k].char = Enter

\* Where main asks alone, what is unread is the rest of one line, typed for
\* its question; while it is busy nothing is unread.
MainAlone ==
  ~shared /\ mpc # "asleep" =>
    /\ lpc \in {"off", "idle"}
    /\ \A k \in DOMAIN input :
         input[k].for = mask /\ (input[k].char = Enter <=> k = Len(input))
    /\ mpc \in {"one", "two"} => mask = "enter" /\ Len(input) <= 1
    /\ mpc \in {"connecting", "sending", "exit"} => input = <<>>

\* Where the listener asks alone, what is unread is ends of lines and at most
\* one answer, to its question.
ListenerAlone ==
  ~shared /\ mpc = "asleep" =>
    /\ ~failbit
    /\ lpc \in ListenerQuestions =>
         \A k \in DOMAIN input : input[k].char # Enter =>
           /\ Len(input) = k + 1
           /\ input[k].for = lpc /\ input[k + 1].for = lpc
    /\ lpc \notin ListenerQuestions => AllEnters
    /\ lpc = "rest" => \A k \in DOMAIN input : input[k].for = "confirm"

\* A character goes astray only when both threads have asked: main alone
\* reads whole lines, the listener alone skips what it left of the last one.
ConsoleInv ==
  /\ LoneReaderHears
  /\ ~shared /\ failbit => mpc = "failed"
  /\ MainAlone
  /\ ListenerAlone
=============================================================================
