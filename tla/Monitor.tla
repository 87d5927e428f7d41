------------------------------ MODULE Monitor ------------------------------
(***************************************************************************)
(* The command interpreter of kern/monitor.c.  monitor takes the line that *)
(* readline left in its static buffer, and runcmd cuts it up in place:     *)
(* white space becomes NUL and argv points at what is left.  What readline *)
(* rubbed out, or left there earlier, lies behind the line's NUL.          *)
(*                                                                         *)
(* Here readline is known by its promise alone; Shell puts the real one    *)
(* in.  A pointer is an index of buf, -1 for the null pointer.  pc is      *)
(* "readline", a loop of runcmd, or what a line is answered with: a        *)
(* command, or one of runcmd's own answers.                                *)
(***************************************************************************)
EXTENDS Integers, Sequences, FiniteSets

CONSTANTS
  BUFLEN,    \* the size of readline's buffer, 1024 in the source
  MAXARGS,   \* the slots of argv, 16 in the source
  Spelling   \* how the name of a command is spelt

VARIABLES
  buf,       \* readline's buffer
  line,      \* history: the line as it was typed
  p,         \* runcmd's moving pointer into buf
  argc, argv, cmd,
  pc

monVars == <<line, p, argc, argv, cmd, pc>>
vars    == <<buf, monVars>>

NUL        == 0
null       == -1
WHITESPACE == {9, 13, 10, 32}
InWord(c)  == c \notin WHITESPACE \cup {NUL}

commands == <<"mon_help", "mon_kerninfo">>
Commands == {commands[k] : k \in DOMAIN commands}

(* readline writes to its buffer as it likes. *)
Editing ==
  /\ pc = "readline"
  /\ buf' \in [0..BUFLEN-1 -> 0..255]
  /\ UNCHANGED monVars

(* It returns buf with a line and its NUL at the start, and runcmd begins. *)
Entered ==
  /\ pc = "readline"
  /\ pc' = "gobble"
  /\ \E n \in 0..BUFLEN-1 :
       /\ buf'[n] = NUL
       /\ \A k \in 0..n-1 : buf'[k] # NUL
       /\ line' = [k \in 1..n |-> buf'[k - 1]]
  /\ UNCHANGED <<p, argc, argv, cmd>>

-----------------------------------------------------------------------------
(* Mutant: the white space that ends a word is left in place. *)
BlankKept == buf

Blanked == [buf EXCEPT ![p] = NUL]

Gobble ==
  /\ pc = "gobble" /\ buf[p] \in WHITESPACE
  /\ buf' = Blanked /\ p' = p + 1
  /\ UNCHANGED <<line, argc, argv, cmd, pc>>

ArgvFull == argc = MAXARGS - 1

TooMany ==
  /\ pc = "gobble" /\ InWord(buf[p]) /\ ArgvFull
  /\ pc' = "too many"
  /\ UNCHANGED <<buf, line, p, argc, argv, cmd>>

SaveArg ==
  /\ pc = "gobble" /\ InWord(buf[p]) /\ ~ArgvFull
  /\ argv' = [argv EXCEPT ![argc] = p] /\ argc' = argc + 1 /\ pc' = "scan"
  /\ UNCHANGED <<buf, line, p, cmd>>

(* Mutant: the loop over a word does not advance. *)
ScanStays == pc = "scan" /\ InWord(buf[p]) /\ UNCHANGED vars

Scan ==
  /\ pc = "scan" /\ InWord(buf[p])
  /\ p' = p + 1
  /\ UNCHANGED <<buf, line, argc, argv, cmd, pc>>

WordEnds ==
  /\ pc = "scan" /\ ~InWord(buf[p])
  /\ pc' = "gobble"
  /\ UNCHANGED <<buf, line, p, argc, argv, cmd>>

LineEnds ==
  /\ pc = "gobble" /\ buf[p] = NUL
  /\ argv' = [argv EXCEPT ![argc] = null]
  /\ pc' = IF argc = 0 THEN "no words" ELSE "lookup"
  /\ UNCHANGED <<buf, line, p, argc, cmd>>

(* Mutant: the words are compared without their terminators. *)
StrPrefix(q, word) == \A k \in 1..Len(word) : buf[q + k - 1] = word[k]

(* strcmp(buf + q, word) == 0, terminators included. *)
StrEqual(q, word) ==
  \A k \in 1..Len(word) + 1 : buf[q + k - 1] = Append(word, NUL)[k]

Matches == StrEqual(argv[0], Spelling[commands[cmd + 1]])

Lookup ==
  /\ pc = "lookup"
  /\ IF cmd = Len(commands) THEN pc' = "unknown" /\ UNCHANGED cmd
     ELSE IF Matches THEN pc' = commands[cmd + 1] /\ UNCHANGED cmd
     ELSE cmd' = cmd + 1 /\ UNCHANGED pc
  /\ UNCHANGED <<buf, line, p, argc, argv>>

Answers == Commands \cup {"too many", "unknown", "no words"}

(* The answer is printed and runcmd's locals are gone.  No command returns *)
(* -1, so that monitor never leaves its loop.                              *)
Return ==
  /\ pc \in Answers
  /\ line' = <<>> /\ p' = 0 /\ argc' = 0 /\ cmd' = 0
  /\ argv' = [k \in 0..MAXARGS-1 |-> null]
  /\ pc' = "readline"
  /\ UNCHANGED buf

runcmd == Gobble \/ TooMany \/ SaveArg \/ Scan \/ WordEnds \/ LineEnds
          \/ Lookup \/ Return

Init ==
  /\ buf = [k \in 0..BUFLEN-1 |-> NUL]
  /\ line = <<>> /\ p = 0 /\ argc = 0 /\ cmd = 0
  /\ argv = [k \in 0..MAXARGS-1 |-> null]
  /\ pc = "readline"

Next == Editing \/ Entered \/ runcmd

(* runcmd never waits; whether a line is typed is up to the user. *)
Spec == Init /\ [][Next]_vars /\ WF_vars(runcmd)

-----------------------------------------------------------------------------
(* The words of the line as it was typed, by the index of their first byte *)
(* in buf, and the byte right after the word that starts at q.             *)
At(q)      == IF q < Len(line) THEN line[q + 1] ELSE NUL
WordStarts == {q \in 0..Len(line)-1 :
                 InWord(At(q)) /\ (q > 0 => ~InWord(At(q - 1)))}
WordEnd(q) == CHOOSE e \in q+1..Len(line) :
                 ~InWord(At(e)) /\ \A k \in q..e-1 : InWord(At(k))

(* What a command is called with (monitor.c:123): argv holds the words of  *)
(* the typed line, in order, each one intact and ended by a NUL although   *)
(* runcmd wrote over the line, and after them, inside argv, a null         *)
(* pointer.                                                                *)
ArgvHoldsWords ==
  pc \in {"lookup", "unknown"} \cup Commands =>
    /\ argc = Cardinality(WordStarts)
    /\ {argv[k] : k \in 0..argc-1} = WordStarts
    /\ \A j, k \in 0..argc-1 : j < k => argv[j] < argv[k]
    /\ \A q \in WordStarts :
         /\ \A k \in q..WordEnd(q)-1 : buf[k] = At(k)
         /\ buf[WordEnd(q)] = NUL
    /\ argc < MAXARGS /\ argv[argc] = null

(* A line is answered by the command whose name is its first word, as a    *)
(* whole, called unknown only when no command has that name, and refused   *)
(* only when it has more words than argv can hold beside its null pointer. *)
RightAnswer ==
  LET first == CHOOSE q \in WordStarts : \A k \in WordStarts : q <= k
      Word  == SubSeq(line, first + 1, WordEnd(first))
  IN  /\ pc \in Commands => Word = Spelling[pc]
      /\ pc = "unknown" => \A c \in Commands : Word # Spelling[c]
      /\ pc = "too many" => Cardinality(WordStarts) >= MAXARGS
      /\ pc = "no words" => WordStarts = {}
=============================================================================
