----------------------------- MODULE ConfigFile -----------------------------
(***************************************************************************)
(* How ioswitchd reads its configuration: load_tokens scans the file line  *)
(* by line and character by character, get_variable picks the values of a  *)
(* variable, load_config puts those of three variables into a Config.      *)
(*                                                                         *)
(* The file is what its author writes: settings var=value, and lists       *)
(* var={value,value} over one line or many, with blanks where the scanner  *)
(* provides for them.  The author may also slip: a blank, separator, brace *)
(* or = where none belongs, also inside a name or value, and a missing =,  *)
(* separator, brace or line end.  A character is written when the scanner  *)
(* looks at it, since nobody could tell; what was meant is kept beside it. *)
(***************************************************************************)
EXTENDS Naturals, Sequences

CONSTANTS
  Letters,      \* the characters of names and values
  Vars,         \* the variables' names, sequences of letters
  DestIp,       \* three of them: "dest_ip",
  DestPort,     \* "dest_port",
  Devices,      \* and "devices"
  Words,        \* the values written, sequences of letters
  Number,       \* atoi of each word, 0 if it is no number
  Settings,     \* which values the author gives to which variables
  MaxSize,      \* bound: characters of a file
  MaxSlips      \* bound: slips of its author

\* Does s end with the text t?
EndsWith(s, t) == Len(t) <= Len(s) /\ \A k \in 0 .. Len(t) - 1 : s[Len(s) - k] = t[Len(t) - k]

\* As for the names of the program, none is the end of another.
ASSUME FileAssumption ==
  /\ Letters \cap {" ", "=", "{", "}", ",", ";", "newline"} = {}
  /\ Vars \subseteq Seq(Letters) \ {<<>>}
  /\ \A v, w \in Vars : EndsWith(v, w) => v = w
  /\ Words \subseteq Seq(Letters) \ {<<>>}
  /\ {DestIp, DestPort, Devices} \subseteq Vars
  /\ Number \in [Words -> Nat]
  /\ Settings \subseteq Vars \X Words
  /\ MaxSize \in Nat
  /\ MaxSlips \in Nat

Chars == Letters \cup {" ", "=", "{", "}", ",", ";", "newline"}

\* The characters after which a token of type TOK_VALUE ends.
Ends == {"newline", ";", ","}

VARIABLES
  place,      \* where in the file the author is
  head,       \* the variable whose lines are being written
  inlist,     \* is a brace open?
  word,       \* the name or value being written
  at,         \* how many of its letters are there
  written,    \* the values written so far for each variable
  current,    \* the variable of the last line that has its =
  damaged,    \* the variables that a slip may have cost a value, or given one
  size,       \* the characters written
  slips,      \* the slips made
  line,       \* the line as far as it was looked at: idx is its length
  tok_start,  \* where the next token starts
  last,       \* the character before
  skipping,   \* is the scanner inside the loop over blanks?
  tokens,     \* the tokens found, the first one being of type TOK_NONE
  loaded      \* is the scan over?

meant == <<head, inlist, word, at, written, current, damaged>>
scanned == <<line, tok_start, last, skipping, tokens>>
vars == <<place, meant, size, slips, scanned, loaded>>

TokenTypes == {"TOK_NONE", "TOK_VARIABLE", "TOK_OPEN_BRACKET", "TOK_CLOSE_BRACKET", "TOK_VALUE"}

\* "margin" is where the next thing of a line, or of a list, begins; "is" stands
\* after the =, "done" where a line has all it needs, or more.
Places == {"margin", "name", "is", "word", "done"}

TypeOK ==
  /\ place \in Places
  /\ head \in Vars \cup {<<>>}
  /\ inlist \in BOOLEAN
  /\ word \in Vars \cup Words \cup {<<>>}
  /\ at \in 0 .. Len(word)
  /\ written \in [Vars -> Seq(Words)]
  /\ current \in Vars \cup {<<>>}
  /\ damaged \subseteq Vars \cup {<<>>}
  /\ size \in Nat
  /\ slips \in Nat
  /\ line \in Seq(Chars)
  /\ tok_start \in 0 .. Len(line)
  /\ last \in Chars \cup {"none"}
  /\ skipping \in BOOLEAN
  /\ tokens \in Seq([type : TokenTypes, val : Seq(Chars)])
  /\ loaded \in BOOLEAN

Init ==
  /\ place = "margin"
  /\ head = <<>>
  /\ inlist = FALSE
  /\ word = <<>>
  /\ at = 0
  /\ written = [v \in Vars |-> <<>>]
  /\ current = <<>>
  /\ damaged = {}
  /\ size = 0
  /\ slips = 0
  /\ line = <<>>
  /\ tok_start = 0
  /\ last = "none"
  /\ skipping = FALSE
  /\ tokens = <<[type |-> "TOK_NONE", val |-> <<>>]>>
  /\ loaded = FALSE

-----------------------------------------------------------------------------
(* load_tokens *)

\* Blanks are skipped after these characters and in the first token of a line;
\* each moves tok_start on, so a blank inside that token costs its first letter.
SkipsBlanks == skipping \/ last \in {"{", "=", ","} \/ tok_start = 0

\* Mutant: tok_start is not reset for a new line.
AdvanceKeepsStart(c, start) ==
  \/ c # "newline" /\ line' = Append(line, c) /\ tok_start' = start
  \/ c = "newline" /\ line' = <<>> /\ tok_start' = start

\* idx++, or fgets where the line ends: last keeps its value from the line before.
Advance(c, start) ==
  \/ c # "newline" /\ line' = Append(line, c) /\ tok_start' = start
  \/ c = "newline" /\ line' = <<>> /\ tok_start' = 0

Skip(c) ==
  /\ c = " " /\ SkipsBlanks
  /\ Advance(c, tok_start + 1)
  /\ skipping' = TRUE
  /\ UNCHANGED <<last, tokens>>

\* What stands between tok_start and the character looked at.
Pending == SubSeq(line, tok_start + 1, Len(line))

Took(c, type, val) ==
  /\ tokens' = Append(tokens, [type |-> type, val |-> val])
  /\ Advance(c, Len(line) + 1)

Variable(c) == c = "=" /\ Took(c, "TOK_VARIABLE", Pending)

\* A brace drops what stands before it.
Bracket(c) ==
  \/ c = "{" /\ Took(c, "TOK_OPEN_BRACKET", <<"{">>)
  \/ c = "}" /\ Took(c, "TOK_CLOSE_BRACKET", <<"}">>)

Value(c) == c \in Ends /\ tok_start < Len(line) /\ Took(c, "TOK_VALUE", Pending)

\* An end without a value leaves tok_start where it is, so a second separator
\* becomes a part of the next token.
NoToken(c) ==
  /\ c \in Ends => tok_start = Len(line)
  /\ c \notin {"=", "{", "}"}
  /\ Advance(c, tok_start)
  /\ UNCHANGED tokens

Look(c) ==
  /\ c = " " => ~SkipsBlanks
  /\ Variable(c) \/ Bracket(c) \/ Value(c) \/ NoToken(c)
  /\ last' = c
  /\ skipping' = FALSE

Scan(c) ==
  /\ ~loaded
  /\ size < MaxSize
  /\ size' = size + 1
  /\ Skip(c) \/ Look(c)
  /\ UNCHANGED loaded

\* fopen fails: an empty Tokenizer.
CannotOpen ==
  /\ ~loaded /\ size = 0
  /\ tokens' = <<>>
  /\ loaded' = TRUE
  /\ UNCHANGED <<place, meant, size, slips, line, tok_start, last, skipping>>

\* fgets returns NULL.  A file that ends inside a value loses it; one that ends in
\* a skipped blank is left out: the code would read on behind the line.
EndOfFile ==
  /\ ~loaded /\ ~skipping
  /\ loaded' = TRUE
  /\ damaged' = IF place = "word" THEN damaged \cup {head} ELSE damaged
  /\ UNCHANGED <<place, head, inlist, word, at, written, current, size, slips, scanned>>

-----------------------------------------------------------------------------
(* The author of the file *)

\* One of the slips counted here.
Slip == slips < MaxSlips /\ slips' = slips + 1
NoSlip == UNCHANGED slips

Blank ==
  /\ place \in {"margin", "is"}
  /\ Scan(" ")
  /\ NoSlip
  /\ UNCHANGED <<place, meant>>

\* The next setting.  Where the brace or the line end before it is missing, that
\* damages the setting before; in the middle of a line, this one too.
BeginName(v) ==
  /\ place \in {"margin", "is", "done"} \/ (place = "word" /\ at = Len(word))
  /\ Scan(v[1])
  /\ place' = "name"
  /\ head' = v /\ word' = v /\ at' = 1
  /\ inlist' = FALSE
  /\ LET clean == place = "margin" /\ ~inlist
         before == IF clean THEN {} ELSE {head}
         this == IF clean \/ line = <<>> THEN {} ELSE {v}
     IN  /\ IF clean THEN NoSlip ELSE Slip
         /\ damaged' = damaged \cup before \cup this
  /\ UNCHANGED <<written, current>>

Letter ==
  /\ place \in {"name", "word"}
  /\ at < Len(word)
  /\ Scan(word[at + 1])
  /\ at' = at + 1
  /\ NoSlip
  /\ UNCHANGED <<place, head, inlist, word, written, current, damaged>>

Equals ==
  /\ place = "name" /\ at = Len(word)
  /\ Scan("=")
  /\ place' = "is"
  /\ current' = head
  /\ NoSlip
  /\ UNCHANGED <<head, inlist, word, at, written, damaged>>

OpenList ==
  /\ place = "is"
  /\ Scan("{")
  /\ place' = "margin"
  /\ inlist' = TRUE
  /\ NoSlip
  /\ UNCHANGED <<head, word, at, written, current, damaged>>

BeginWord(w) ==
  /\ place = "is" \/ (place = "margin" /\ inlist)
  /\ <<head, w>> \in Settings
  /\ Scan(w[1])
  /\ place' = "word"
  /\ word' = w /\ at' = 1
  /\ NoSlip
  /\ UNCHANGED <<head, inlist, written, current, damaged>>

\* The end of a value: of the line, or in a list, of this item.
Separate(c) ==
  /\ place = "word" /\ at = Len(word)
  /\ Scan(c)
  /\ place' = IF c = "newline" \/ (c = "," /\ inlist) THEN "margin" ELSE "done"
  /\ written' = [written EXCEPT ![head] = Append(@, word)]
  /\ NoSlip
  /\ UNCHANGED <<head, inlist, word, at, current, damaged>>

CloseList ==
  /\ place \in {"margin", "done"} /\ inlist
  /\ Scan("}")
  /\ place' = "done"
  /\ inlist' = FALSE
  /\ NoSlip
  /\ UNCHANGED <<head, word, at, written, current, damaged>>

EndLine ==
  /\ place \in {"margin", "is", "done"}
  /\ Scan("newline")
  /\ place' = "margin"
  /\ NoSlip
  /\ UNCHANGED meant

\* What follows may become a value of the setting before this one.
Confuses(others) == Slip /\ damaged' = damaged \cup {head, current} \cup others

\* A blank in or after a name, a value or a brace takes nothing from anyone else.
StrayBlank ==
  /\ place \in {"name", "word", "done"}
  /\ Scan(" ")
  /\ Slip
  /\ damaged' = damaged \cup {head}
  /\ UNCHANGED <<place, head, inlist, word, at, written, current>>

\* A piece of syntax where none belongs: in a name or value too, or a line of its
\* own.  An = makes a variable of what stands before it.
Stray(c) ==
  /\ c = "newline" => place \in {"name", "word"}
  /\ Scan(c)
  /\ place' = IF place = "margin" /\ ~inlist THEN "done" ELSE place
  /\ Confuses(IF c = "=" THEN Vars \cap {Pending} ELSE {})
  /\ UNCHANGED <<head, inlist, word, at, written, current>>

\* The name is not followed by an =.
LostEquals ==
  /\ ~loaded
  /\ place = "name" /\ at = Len(word)
  /\ place' = "is"
  /\ Confuses({})
  /\ UNCHANGED <<head, inlist, word, at, written, current, size, scanned, loaded>>

\* The last value of a list stands before the brace.
LostSeparator ==
  /\ place = "word" /\ at = Len(word) /\ inlist
  /\ Scan("}")
  /\ place' = "done"
  /\ inlist' = FALSE
  /\ Slip
  /\ damaged' = damaged \cup {head}
  /\ UNCHANGED <<head, word, at, written, current>>

Next ==
  \/ CannotOpen
  \/ Blank
  \/ \E v \in Vars : BeginName(v)
  \/ Letter
  \/ Equals
  \/ OpenList
  \/ \E w \in Words : BeginWord(w)
  \/ \E c \in Ends : Separate(c)
  \/ CloseList
  \/ EndLine
  \/ StrayBlank
  \/ \E c \in Chars \ (Letters \cup {" "}) : Stray(c)
  \/ LostEquals
  \/ LostSeparator
  \/ EndOfFile

Spec == Init /\ [][Next]_vars

-----------------------------------------------------------------------------
(* get_variable and load_config *)

\* Mutant: a variable's values do not end where the next variable begins.
LookedAtKeepsFound(before, token, v) ==
  [found  |-> before.found \/ (token.type = "TOK_VARIABLE" /\ token.val = v),
   values |-> IF before.found /\ token.type = "TOK_VALUE"
              THEN Append(before.values, token.val) ELSE before.values]

\* One turn of its loop: found is found_var.
LookedAt(before, token, v) ==
  [found  |-> IF token.type = "TOK_VARIABLE" THEN token.val = v ELSE before.found,
   values |-> IF before.found /\ token.type = "TOK_VALUE"
              THEN Append(before.values, token.val) ELSE before.values]

Unfound == [found |-> FALSE, values |-> <<>>]

\* The loop over all tokens.
Lookup(toks, v) ==
  LET after[n \in 0 .. Len(toks)] ==
        IF n = 0 THEN Unfound ELSE LookedAt(after[n - 1], toks[n], v)
  IN  after[Len(toks)]

\* All values of v, from wherever v occurs in the file; <<>> stands for NULL.
GetVariable(v) == Lookup(tokens, v).values

\* Mutant: the last value of a variable that is set twice.
ChosenLast(vals) == vals[Len(vals)]

\* vals->tokens[0].
Chosen(vals) == Head(vals)

\* dest_port is a uint16_t.
PortOf(text) == Number[text] % 2 ^ 16

\* Fields for which the file has no value keep what malloc found there.
LoadConfig(chunk) ==
  LET ip == GetVariable(DestIp)
      port == GetVariable(DestPort)
      devices == GetVariable(Devices)
  IN  [dest_ip      |-> IF ip = <<>> THEN chunk.dest_ip ELSE Chosen(ip),
       dest_port    |-> IF port = <<>> \/ Number[Chosen(port)] = 0 THEN chunk.dest_port
                        ELSE PortOf(Chosen(port)),
       device_names |-> IF devices = <<>> THEN chunk.device_names ELSE devices]

-----------------------------------------------------------------------------

Opened == loaded /\ tokens # <<>>

\* A variable has exactly the values written, in order, whatever is wrong with the
\* file, unless a slip is in a line of its own or in one that follows before the
\* next =: a value without a variable, be it a separator, goes to the last one.
DamageIsLocal == Opened => \A v \in Vars \ damaged : GetVariable(v) = written[v]

\* The daemon connects where the file's first settings say and announces all the
\* devices of all lists; a word that is no port number is as good as none, and
\* a field without a value keeps what was there.
ConfigAsWritten ==
  LET unset == [dest_ip |-> <<>>, dest_port |-> 2 ^ 16, device_names |-> <<>>]
      config == LoadConfig(unset)
      ip == written[DestIp]
      port == written[DestPort]
  IN  Opened /\ damaged \cap {DestIp, DestPort, Devices} = {} =>
        /\ config.dest_ip = IF ip = <<>> THEN unset.dest_ip ELSE ip[1]
        /\ port # <<>> /\ Number[port[1]] \in 1 .. 2 ^ 16 - 1 => config.dest_port = Number[port[1]]
        /\ port = <<>> \/ Number[port[1]] = 0 => config.dest_port = unset.dest_port
        /\ config.device_names = written[Devices]
=============================================================================
