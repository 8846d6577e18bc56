-------------------------- MODULE ConfigFileProofs --------------------------
(***************************************************************************)
(* Theorems about the scanner and get_variable, for files of any length,   *)
(* any names and values, and any number of the slips of ConfigFile.        *)
(*                                                                         *)
(* get_variable is a loop over the tokens, so what it returns is known by  *)
(* induction over their number.  An induction rule cannot be stated for an *)
(* arbitrary predicate here, but it can for a set of numbers.              *)
(***************************************************************************)
EXTENDS ConfigFile, WellFoundedInduction, TLAPS

-----------------------------------------------------------------------------
(* Loops *)

Below == {p \in Nat \X Nat : p[1] < p[2]}

LEMMA BelowIsWellFounded == IsWellFoundedOn(Below, Nat)
  BY NatLessThanWellFounded, Zenon DEF OpToRel, Below

\* Induction over the natural numbers, for a set of them.
LEMMA Induction ==
  ASSUME NEW S, 0 \in S, \A n \in Nat : n \in S => n + 1 \in S
  PROVE  Nat \subseteq S
<1>1. SUFFICES ASSUME Nat \ S # {}
               PROVE  FALSE
  OBVIOUS
<1>2. PICK n \in Nat \ S : \A m \in Nat \ S : <<m, n>> \notin Below
  BY <1>1, BelowIsWellFounded, WFMin
<1>3. n # 0 /\ n - 1 \in Nat
  OBVIOUS
<1>4. <<n - 1, n>> \in Below
  BY <1>3 DEF Below
<1>5. n - 1 \in S
  BY <1>2, <1>3, <1>4
<1> QED
  BY <1>3, <1>5

\* What a loop over N items computes: each turn from the result before and the item.
Computes(f, N, start, turn) ==
  /\ f[0] = start
  /\ \A n \in 1 .. N : f[n] = turn[<<f[n - 1], n>>]

LEMMA LoopExists ==
  ASSUME NEW S, NEW start \in S, NEW N \in Nat, NEW turn \in [S \X (1 .. N) -> S]
  PROVE  \E f \in [0 .. N -> S] : Computes(f, N, start, turn)
<1> DEFINE T == {m \in Nat : m <= N => \E f \in [0 .. m -> S] : Computes(f, m, start, turn)}
<1>1. 0 \in T
  <2>1. [n \in 0 .. 0 |-> start] \in [0 .. 0 -> S] /\ Computes([n \in 0 .. 0 |-> start], 0, start, turn)
    BY DEF Computes
  <2> QED
    BY <2>1
<1>2. ASSUME NEW m \in Nat, m \in T
      PROVE  m + 1 \in T
  <2>1. SUFFICES ASSUME m + 1 <= N
                 PROVE  \E f \in [0 .. m + 1 -> S] : Computes(f, m + 1, start, turn)
    OBVIOUS
  <2>2. PICK f \in [0 .. m -> S] : Computes(f, m, start, turn)
    BY <1>2, <2>1
  <2> DEFINE g == [n \in 0 .. m + 1 |-> IF n = m + 1 THEN turn[<<f[m], m + 1>>] ELSE f[n]]
  <2>3. turn[<<f[m], m + 1>>] \in S
    BY <2>1
  <2>4. g \in [0 .. m + 1 -> S]
    BY <2>3
  <2>5. \A n \in 0 .. m : g[n] = f[n]
    OBVIOUS
  <2>6. g[m + 1] = turn[<<f[m], m + 1>>]
    OBVIOUS
  <2> HIDE DEF g
  <2>7. ASSUME NEW n \in 1 .. m + 1
        PROVE  g[n] = turn[<<g[n - 1], n>>]
    <3>1. g[n - 1] = f[n - 1]
      BY <2>5
    <3>2. CASE n \in 1 .. m
      BY <2>2, <2>5, <3>1, <3>2 DEF Computes
    <3>3. CASE n = m + 1
      BY <2>6, <3>1, <3>3
    <3> QED
      BY <3>2, <3>3
  <2>8. Computes(g, m + 1, start, turn)
    BY <2>2, <2>5, <2>7 DEF Computes
  <2> QED
    BY <2>4, <2>8
<1>3. N \in T
  <2> HIDE DEF T
  <2>1. Nat \subseteq T
    BY <1>1, <1>2, Induction
  <2> QED
    BY <2>1
<1> QED
  BY <1>3

\* As long as it stays in S.
ComputesIn(S, f, N, start, turn) ==
  /\ f[0] = start
  /\ \A n \in 1 .. N : f[n - 1] \in S => f[n] = turn[<<f[n - 1], n>>]

LEMMA LoopStays ==
  ASSUME NEW S, NEW N \in Nat, NEW start \in S, NEW turn \in [S \X (1 .. N) -> S], NEW f,
         ComputesIn(S, f, N, start, turn)
  PROVE  Computes(f, N, start, turn) /\ \A n \in 0 .. N : f[n] \in S
<1> USE DEF ComputesIn
<1> DEFINE T == {n \in Nat : n <= N => f[n] \in S}
<1>1. 0 \in T
  OBVIOUS
<1>2. ASSUME NEW n \in Nat, n \in T
      PROVE  n + 1 \in T
  <2>1. SUFFICES ASSUME n + 1 <= N
                 PROVE  f[n + 1] \in S
    OBVIOUS
  <2>2. n + 1 \in 1 .. N /\ (n + 1) - 1 = n /\ f[n] \in S
    BY <1>2, <2>1
  <2> QED
    BY <2>2
<1>3. Nat \subseteq T
  <2> HIDE DEF T
  <2> QED
    BY <1>1, <1>2, Induction
<1>4. \A n \in 0 .. N : f[n] \in S
  BY <1>3
<1>5. \A n \in 1 .. N : n - 1 \in 0 .. N
  OBVIOUS
<1> QED
  BY <1>4, <1>5 DEF Computes

-----------------------------------------------------------------------------
(* get_variable *)

Tokens == [type : TokenTypes, val : Seq(Chars)]
Results == [found : BOOLEAN, values : Seq(Seq(Chars))]

\* A turn of get_variable's loop at the n-th of the tokens.
LookupTurn(toks, v) == [p \in Results \X (1 .. Len(toks)) |-> LookedAt(p[1], toks[p[2]], v)]

LEMMA TurnIsResult ==
  ASSUME NEW result \in Results, NEW token \in Tokens, NEW v
  PROVE  LookedAt(result, token, v) \in Results
<1>1. Append(result.values, token.val) \in Seq(Seq(Chars))
  BY DEF Results, Tokens
<1> QED
  BY <1>1 DEF LookedAt, Results

\* The results after each turn.
Looks(f, toks, v) ==
  /\ f[0] = Unfound
  /\ \A n \in 1 .. Len(toks) : f[n] = LookedAt(f[n - 1], toks[n], v)
  /\ \A n \in 0 .. Len(toks) : f[n] \in Results
  /\ Lookup(toks, v) = f[Len(toks)]

LEMMA LookupIsLoop ==
  ASSUME NEW toks \in Seq(Tokens), NEW v
  PROVE  \E f : Looks(f, toks, v)
<1> DEFINE N == Len(toks)
           turn == LookupTurn(toks, v)
           Equation(f) == f = [n \in 0 .. N |-> IF n = 0 THEN Unfound ELSE LookedAt(f[n - 1], toks[n], v)]
<1>1. N \in Nat /\ Unfound \in Results
  <2>1. <<>> \in Seq(Seq(Chars))
    OBVIOUS
  <2> QED
    BY <2>1 DEF Unfound, Results
<1>2. turn \in [Results \X (1 .. N) -> Results]
  <2>1. ASSUME NEW p \in Results \X (1 .. N)
        PROVE  LookedAt(p[1], toks[p[2]], v) \in Results
    <3>1. p[1] \in Results /\ toks[p[2]] \in Tokens
      OBVIOUS
    <3> QED
      BY <3>1, TurnIsResult
  <2> QED
    BY <2>1 DEF LookupTurn
<1>3. \A r \in Results, n \in 1 .. N : turn[<<r, n>>] = LookedAt(r, toks[n], v)
  BY DEF LookupTurn
<1> HIDE DEF turn, N
<1>4. PICK f \in [0 .. N -> Results] : Computes(f, N, Unfound, turn)
  BY <1>1, <1>2, LoopExists
<1>5. Equation(f)
  <2>1. ASSUME NEW n \in 0 .. N, n # 0
        PROVE  f[n] = LookedAt(f[n - 1], toks[n], v)
    <3>1. n \in 1 .. N /\ n - 1 \in 0 .. N
      BY <1>1, <2>1
    <3> QED
      BY <1>3, <1>4, <3>1 DEF Computes
  <2> QED
    BY <1>4, <2>1 DEF Computes
<1>6. Equation(CHOOSE g : Equation(g))
  BY <1>5, Zenon
<1> DEFINE h == CHOOSE g : Equation(g)
<1>7. Lookup(toks, v) = h[N]
  BY DEF Lookup, N
<1>8. h[0] = Unfound /\ \A n \in 1 .. N : h[n] = LookedAt(h[n - 1], toks[n], v)
  <2>1. \A n \in 0 .. N : h[n] = IF n = 0 THEN Unfound ELSE LookedAt(h[n - 1], toks[n], v)
    BY <1>6
  <2> HIDE DEF h
  <2>2. 0 \in 0 .. N /\ \A n \in 1 .. N : n \in 0 .. N /\ n # 0
    BY <1>1
  <2> QED
    BY <2>1, <2>2
<1> HIDE DEF h
<1>9. Computes(h, N, Unfound, turn) /\ \A n \in 0 .. N : h[n] \in Results
  <2>1. ComputesIn(Results, h, N, Unfound, turn)
    BY <1>3, <1>8 DEF ComputesIn
  <2> QED
    BY <1>1, <1>2, <2>1, LoopStays
<1> QED
  BY <1>7, <1>8, <1>9 DEF N, Looks

LEMMA LookupStarts ==
  ASSUME NEW token \in Tokens, NEW v
  PROVE  Lookup(<<token>>, v) = LookedAt(Unfound, token, v)
<1> DEFINE one == <<token>>
<1>1. one \in Seq(Tokens) /\ Len(one) = 1 /\ one[1] = token
  OBVIOUS
<1> HIDE DEF one
<1>2. PICK f : Looks(f, one, v)
  BY <1>1, LookupIsLoop
<1>3. f[1] = LookedAt(f[0], token, v)
  BY <1>1, <1>2 DEF Looks
<1> QED
  BY <1>1, <1>2, <1>3 DEF one, Looks

\* The next token is one more turn.
LEMMA LookupAppends ==
  ASSUME NEW toks \in Seq(Tokens), NEW token \in Tokens, NEW v
  PROVE  Lookup(Append(toks, token), v) = LookedAt(Lookup(toks, v), token, v)
<1> DEFINE N == Len(toks)
           more == Append(toks, token)
<1>1. /\ N \in Nat
      /\ more \in Seq(Tokens) /\ Len(more) = N + 1
      /\ \A n \in 1 .. N : more[n] = toks[n]
      /\ more[N + 1] = token
  OBVIOUS
<1> HIDE DEF more
<1>2. PICK f : Looks(f, toks, v)
  BY LookupIsLoop
<1>3. PICK g : Looks(g, more, v)
  BY <1>1, LookupIsLoop
<1> USE DEF Looks
<1> DEFINE T == {n \in Nat : n <= N => f[n] = g[n]}
<1>4. 0 \in T
  BY <1>2, <1>3
<1>5. ASSUME NEW n \in Nat, n \in T
      PROVE  n + 1 \in T
  <2>1. SUFFICES ASSUME n + 1 <= N
                 PROVE  f[n + 1] = g[n + 1]
    OBVIOUS
  <2>2. n + 1 \in 1 .. N /\ n + 1 \in 1 .. N + 1 /\ (n + 1) - 1 = n /\ f[n] = g[n]
    BY <1>1, <1>5, <2>1
  <2>3. f[n + 1] = LookedAt(f[n], toks[n + 1], v) /\ g[n + 1] = LookedAt(g[n], toks[n + 1], v)
    BY <1>1, <1>2, <1>3, <2>2
  <2> QED
    BY <2>2, <2>3
<1>6. Nat \subseteq T
  <2> HIDE DEF T
  <2> QED
    BY <1>4, <1>5, Induction
<1>7. f[N] = g[N]
  BY <1>1, <1>6
<1>8. N + 1 \in 1 .. N + 1 /\ (N + 1) - 1 = N
  BY <1>1
<1>9. g[N + 1] = LookedAt(g[N], token, v)
  BY <1>1, <1>3, <1>8
<1> QED
  BY <1>2, <1>3, <1>7, <1>9 DEF more
-----------------------------------------------------------------------------
(* The scanner *)

ScanInv ==
  /\ line \in Seq(Chars)
  /\ tok_start \in 0 .. Len(line)
  /\ last \in Chars \cup {"none"}
  /\ skipping \in BOOLEAN
  /\ tokens \in Seq(Tokens)
  /\ ~loaded => tokens # <<>>

LEMMA AdvanceKeeps ==
  ASSUME ScanInv,
         NEW c \in Chars,
         NEW start \in tok_start .. Len(line) + 1,
         Advance(c, start)
  PROVE  line' \in Seq(Chars) /\ tok_start' \in 0 .. Len(line')
<1>1. line \in Seq(Chars) /\ Len(line) \in Nat /\ tok_start \in 0 .. Len(line)
  BY DEF ScanInv
<1>2. CASE c = "newline"
  BY <1>2 DEF Advance
<1>3. CASE c # "newline"
  <2>1. line' = Append(line, c) /\ tok_start' = start
    BY <1>3 DEF Advance
  <2>2. line' \in Seq(Chars) /\ Len(line') = Len(line) + 1
    BY <1>1, <2>1
  <2> QED
    BY <1>1, <2>1, <2>2
<1> QED
  BY <1>2, <1>3

\* The text that strncpy copies.
LEMMA PendingText ==
  ASSUME ScanInv
  PROVE  /\ Pending \in Seq(Chars)
         /\ Len(Pending) = Len(line) - tok_start
         /\ \A k \in 1 .. Len(line) - tok_start : Pending[k] = line[tok_start + k]
<1>1. line \in Seq(Chars) /\ Len(line) \in Nat /\ tok_start \in 0 .. Len(line)
  BY DEF ScanInv
<1> QED
  BY <1>1 DEF Pending

LEMMA TookKeeps ==
  ASSUME ScanInv, NEW token \in Tokens, tokens' = Append(tokens, token)
  PROVE  tokens' \in Seq(Tokens) /\ tokens' # <<>>
<1>1. tokens \in Seq(Tokens)
  BY DEF ScanInv
<1> QED
  BY <1>1

\* The token made of the pending text.
LEMMA PendingToken ==
  ASSUME ScanInv, NEW type \in TokenTypes
  PROVE  [type |-> type, val |-> Pending] \in Tokens
  BY PendingText DEF Tokens

\* A brace makes a token of one character.
LEMMA BraceToken ==
  ASSUME NEW type \in TokenTypes, NEW c \in Chars
  PROVE  [type |-> type, val |-> <<c>>] \in Tokens
<1>1. <<c>> \in Seq(Chars)
  OBVIOUS
<1> QED
  BY <1>1 DEF Tokens

LEMMA ScanKeeps ==
  ASSUME ScanInv, NEW c \in Chars, Scan(c)
  PROVE  ScanInv' /\ ~loaded'
<1>1. Len(line) \in Nat /\ tok_start \in 0 .. Len(line) /\ ~loaded /\ ~loaded'
  BY DEF ScanInv, Scan
<1>2. SUFFICES ScanInv'
  BY <1>1
<1>3. tok_start \in tok_start .. Len(line) + 1 /\ tok_start + 1 \in tok_start .. Len(line) + 1
  BY <1>1
<1>4. CASE Skip(c)
  <2>1. /\ c = " " /\ Advance(c, tok_start + 1)
        /\ skipping' = TRUE /\ last' = last /\ tokens' = tokens
    BY <1>4 DEF Skip
  <2>2. line' \in Seq(Chars) /\ tok_start' \in 0 .. Len(line')
    BY <1>3, <2>1, AdvanceKeeps
  <2> QED
    BY <1>1, <2>1, <2>2 DEF ScanInv
<1>5. CASE Look(c)
  <2>1. last' = c /\ skipping' = FALSE
    BY <1>5 DEF Look
  <2>2. CASE NoToken(c)
    <3>1. Advance(c, tok_start) /\ tokens' = tokens
      BY <2>2 DEF NoToken
    <3>2. line' \in Seq(Chars) /\ tok_start' \in 0 .. Len(line')
      BY <1>3, <3>1, AdvanceKeeps
    <3> QED
      BY <1>1, <2>1, <3>1, <3>2 DEF ScanInv
  <2>3. ASSUME NEW type \in TokenTypes, NEW val, Took(c, type, val),
               [type |-> type, val |-> val] \in Tokens
        PROVE  ScanInv'
    <3>1. tokens' = Append(tokens, [type |-> type, val |-> val]) /\ Advance(c, Len(line) + 1)
      BY <2>3 DEF Took
    <3>2. tokens' \in Seq(Tokens) /\ tokens' # <<>>
      BY <2>3, <3>1, TookKeeps
    <3>3. Len(line) + 1 \in tok_start .. Len(line) + 1
      BY <1>1
    <3>4. line' \in Seq(Chars) /\ tok_start' \in 0 .. Len(line')
      BY <3>1, <3>3, AdvanceKeeps
    <3> QED
      BY <2>1, <3>2, <3>4 DEF ScanInv
  <2>4. CASE Variable(c)
    <3>1. Took(c, "TOK_VARIABLE", Pending) /\ "TOK_VARIABLE" \in TokenTypes
      BY <2>4 DEF Variable, TokenTypes
    <3> QED
      BY <2>3, <3>1, PendingToken
  <2>5. CASE Value(c)
    <3>1. Took(c, "TOK_VALUE", Pending) /\ "TOK_VALUE" \in TokenTypes
      BY <2>5 DEF Value, TokenTypes
    <3> QED
      BY <2>3, <3>1, PendingToken
  <2>6. CASE Bracket(c)
    <3>1. PICK type \in {"TOK_OPEN_BRACKET", "TOK_CLOSE_BRACKET"} : Took(c, type, <<c>>)
      BY <2>6 DEF Bracket
    <3>2. type \in TokenTypes
      BY <3>1 DEF TokenTypes
    <3>3. [type |-> type, val |-> <<c>>] \in Tokens
      BY <3>2, BraceToken
    <3> QED
      BY <2>3, <3>1, <3>2, <3>3
  <2> QED
    BY <1>5, <2>2, <2>4, <2>5, <2>6 DEF Look
<1> QED
  BY <1>4, <1>5 DEF Scan
-----------------------------------------------------------------------------
(* What a character does to the scanner *)

Fresh == tok_start = Len(line) /\ SkipsBlanks

LEMMA LetterIsPlain ==
  ASSUME NEW c \in Letters
  PROVE  /\ c \in Chars
         /\ c \notin {"=", "{", "}"} \cup Ends
         /\ c # " " /\ c # "newline"
  BY FileAssumption DEF Chars, Ends

LEMMA LineGrows ==
  ASSUME NEW S, NEW s \in Seq(S), NEW c \in S
  PROVE  /\ Len(Append(s, c)) = Len(s) + 1
         /\ \A k \in 1 .. Len(s) : Append(s, c)[k] = s[k]
         /\ Append(s, c)[Len(s) + 1] = c
  OBVIOUS

LEMMA ScanLetter ==
  ASSUME ScanInv, NEW c \in Letters, Scan(c)
  PROVE  /\ tokens' = tokens /\ tok_start' = tok_start
         /\ line' = Append(line, c) /\ Len(line') = Len(line) + 1
         /\ \A k \in 1 .. Len(line) : line'[k] = line[k]
         /\ line'[Len(line) + 1] = c
<1>1. Look(c)
  BY LetterIsPlain DEF Scan, Skip
<1>2. NoToken(c)
  BY <1>1, LetterIsPlain DEF Look, Variable, Bracket, Value
<1>3. line' = Append(line, c) /\ tok_start' = tok_start /\ tokens' = tokens
  BY <1>2, LetterIsPlain DEF NoToken, Advance
<1>4. line \in Seq(Chars) /\ c \in Chars
  BY LetterIsPlain DEF ScanInv
<1> QED
  BY <1>3, <1>4

LEMMA ScanBlank ==
  ASSUME ScanInv, Scan(" ")
  PROVE  /\ tokens' = tokens
         /\ Len(line') = Len(line) + 1
         /\ \A k \in 1 .. Len(line) : line'[k] = line[k]
         /\ line'[Len(line) + 1] = " "
         /\ tok_start' = IF SkipsBlanks THEN tok_start + 1 ELSE tok_start
         /\ SkipsBlanks => SkipsBlanks'
<1>1. line \in Seq(Chars) /\ " " \in Chars /\ " " \notin Ends /\ " " \notin {"=", "{", "}", "newline"}
  BY DEF ScanInv, Chars, Ends
<1> DEFINE more == Append(line, " ")
<1>2. /\ Len(more) = Len(line) + 1
      /\ \A k \in 1 .. Len(line) : more[k] = line[k]
      /\ more[Len(line) + 1] = " "
  BY <1>1, LineGrows
<1> HIDE DEF more
<1>3. CASE Skip(" ")
  <2>1. /\ line' = more /\ tok_start' = tok_start + 1
        /\ tokens' = tokens /\ SkipsBlanks /\ skipping' = TRUE
    BY <1>1, <1>3 DEF Skip, Advance, more
  <2>2. SkipsBlanks'
    BY <2>1 DEF SkipsBlanks
  <2> QED
    BY <1>2, <2>1, <2>2
<1>4. CASE Look(" ")
  <2>1. ~SkipsBlanks /\ NoToken(" ")
    BY <1>1, <1>4 DEF Look, Variable, Bracket, Value
  <2>2. line' = more /\ tok_start' = tok_start /\ tokens' = tokens
    BY <1>1, <2>1 DEF NoToken, Advance, more
  <2> QED
    BY <1>2, <2>1, <2>2
<1> QED
  BY <1>3, <1>4 DEF Scan

LEMMA BlankKeepsFresh ==
  ASSUME ScanInv, Scan(" "), Fresh
  PROVE  Fresh'
  BY ScanBlank DEF Fresh, ScanInv

\* A token was taken: the next one starts where the scanner goes on.
LEMMA AdvanceStarts ==
  ASSUME ScanInv, NEW c \in Chars, Advance(c, Len(line) + 1)
  PROVE  tok_start' = Len(line')
<1>1. line \in Seq(Chars)
  BY DEF ScanInv
<1> QED
  BY <1>1 DEF Advance

LEMMA ScanEquals ==
  ASSUME ScanInv, Scan("=")
  PROVE  /\ tokens' = Append(tokens, [type |-> "TOK_VARIABLE", val |-> Pending])
         /\ Fresh'
<1>1. "=" \in Chars /\ "=" \notin Ends /\ "=" \notin {" ", "{", "}"}
  BY DEF Chars, Ends
<1>2. Look("=")
  BY <1>1 DEF Scan, Skip
<1>3. Variable("=") /\ last' = "="
  BY <1>1, <1>2 DEF Look, Bracket, Value, NoToken
<1>4. SkipsBlanks'
  BY <1>3 DEF SkipsBlanks
<1> QED
  BY <1>1, <1>3, <1>4, AdvanceStarts DEF Variable, Took, Fresh

LEMMA ScanBrace ==
  ASSUME ScanInv, NEW c \in {"{", "}"}, Scan(c)
  PROVE  /\ \E token \in Tokens : /\ token.type \notin {"TOK_VARIABLE", "TOK_VALUE"}
                                  /\ tokens' = Append(tokens, token)
         /\ tok_start' = Len(line')
         /\ c = "{" => Fresh'
<1>1. c \in Chars /\ c \notin Ends /\ c # " " /\ c # "="
  BY DEF Chars, Ends
<1>2. Look(c)
  BY <1>1 DEF Scan, Skip
<1>3. Bracket(c) /\ last' = c
  BY <1>1, <1>2 DEF Look, Variable, Value, NoToken
<1>4. PICK type \in {"TOK_OPEN_BRACKET", "TOK_CLOSE_BRACKET"} : Took(c, type, <<c>>)
  BY <1>3 DEF Bracket
<1>5. type \in TokenTypes /\ type \notin {"TOK_VARIABLE", "TOK_VALUE"}
  BY DEF TokenTypes
<1>6. tok_start' = Len(line')
  BY <1>1, <1>4, AdvanceStarts DEF Took
<1>7. c = "{" => SkipsBlanks'
  BY <1>3 DEF SkipsBlanks
<1>8. [type |-> type, val |-> <<c>>] \in Tokens
  BY <1>1, <1>5, BraceToken
<1>9. tokens' = Append(tokens, [type |-> type, val |-> <<c>>])
  BY <1>4 DEF Took
<1> QED
  BY <1>5, <1>6, <1>7, <1>8, <1>9 DEF Fresh

LEMMA ScanEnd ==
  ASSUME ScanInv, NEW c \in Ends, Scan(c)
  PROVE  /\ tok_start = Len(line) => tokens' = tokens
         /\ tok_start < Len(line) =>
              /\ tokens' = Append(tokens, [type |-> "TOK_VALUE", val |-> Pending])
              /\ tok_start' = Len(line')
         /\ c = "newline" => Fresh'
         /\ c = "," => SkipsBlanks'
         /\ \/ tok_start' = Len(line')
            \/ tok_start' < Len(line') /\ line'[Len(line')] = c
<1>1. c \in Chars /\ c \notin {" ", "=", "{", "}"}
  BY DEF Chars, Ends
<1>2. Look(c)
  BY <1>1 DEF Scan, Skip
<1>3. Value(c) \/ NoToken(c)
  BY <1>1, <1>2 DEF Look, Variable, Bracket
<1>4. last' = c
  BY <1>2 DEF Look
<1>5. Len(line) \in Nat /\ tok_start \in Nat
  BY DEF ScanInv
<1>6. /\ Value(c) => tok_start < Len(line) /\ Took(c, "TOK_VALUE", Pending)
      /\ NoToken(c) => tok_start = Len(line) /\ tokens' = tokens
  BY DEF Value, NoToken
<1>7. /\ tok_start = Len(line) => tokens' = tokens
      /\ tok_start < Len(line) => Took(c, "TOK_VALUE", Pending)
  BY <1>3, <1>5, <1>6
<1>8. c = "newline" => Fresh'
  <2>1. c = "newline" => line' = <<>> /\ tok_start' = 0
    BY <1>3 DEF Value, NoToken, Took, Advance
  <2> QED
    BY <2>1 DEF Fresh, SkipsBlanks
<1>9. c = "," => SkipsBlanks'
  BY <1>4 DEF SkipsBlanks
<1>10. \/ tok_start' = Len(line')
       \/ tok_start' < Len(line') /\ line'[Len(line')] = c
  <2>1. CASE Value(c)
    <3>1. Advance(c, Len(line) + 1)
      BY <1>6, <2>1 DEF Took
    <3> QED
      BY <1>1, <3>1, AdvanceStarts
  <2>2. CASE NoToken(c) /\ c = "newline"
    BY <1>8, <2>2 DEF Fresh
  <2>3. CASE NoToken(c) /\ c # "newline"
    <3>1. line' = Append(line, c) /\ tok_start' = tok_start /\ tok_start = Len(line)
      BY <1>6, <2>3 DEF NoToken, Advance
    <3>2. line \in Seq(Chars)
      BY DEF ScanInv
    <3>3. Len(line') = Len(line) + 1 /\ line'[Len(line) + 1] = c
      BY <1>1, <3>1, <3>2, LineGrows
    <3> QED
      BY <1>5, <3>1, <3>3
  <2> QED
    BY <1>3, <2>1, <2>2, <2>3
<1> QED
  BY <1>1, <1>7, <1>8, <1>9, <1>10, AdvanceStarts DEF Took
-----------------------------------------------------------------------------
(* What get_variable finds, as the file is written *)

Author ==
  /\ place \in Places
  /\ head \in Vars \cup {<<>>}
  /\ inlist \in BOOLEAN
  /\ word \in Vars \cup Words \cup {<<>>}
  /\ at \in 0 .. Len(word)
  /\ written \in [Vars -> Seq(Words)]
  /\ current \in Vars \cup {<<>>}
  /\ damaged \subseteq Vars \cup {<<>>}
  /\ size \in Nat
  /\ slips \in Nat
  /\ loaded \in BOOLEAN

\* In a setting there is a variable, and of a name or value a letter.
Inside ==
  /\ place \notin {"margin", "done"} \/ inlist => head \in Vars
  /\ place = "name" => word = head /\ ~inlist
  /\ place = "word" => word \in Words
  /\ place \in {"name", "word"} => at # 0

\* What stands between tok_start and idx is what there is of the word.
WordPending ==
  /\ tok_start + at = Len(line)
  /\ \A k \in 1 .. at : line[tok_start + k] = word[k]

\* Or ends like it; or is a part of it; or has something that is in no word.
TailPending == \A k \in 0 .. at - 1 : k < Len(line) - tok_start => line[Len(line) - k] = word[at - k]
HoldsJunk == \E k \in tok_start + 1 .. Len(line) : line[k] \notin Letters

\* A name is pending as it is, or is none of the variables with another name.
Name ==
  place = "name" =>
    /\ head \notin damaged => WordPending
    /\ TailPending \/ HoldsJunk

\* Nothing is pending where a setting may begin, whatever came before.
Margin == place = "margin" /\ ~inlist => Fresh

\* In lines without a slip the scanner is where the author is.
Sync ==
  head \notin damaged =>
    /\ place \in {"margin", "is"} => Fresh
    /\ place = "word" => WordPending
    /\ place = "done" => tok_start = Len(line)

\* Behind its name a setting is the last one with its =, or both are damaged.
Between == place # "name" => head = current \/ {head, current} \subseteq damaged

\* get_variable would take the next value for the last variable with its =.
Current == tokens # <<>> => \A v \in Vars \ damaged : Lookup(tokens, v).found <=> current = v

Values == tokens # <<>> => \A v \in Vars \ damaged : Lookup(tokens, v).values = written[v]

IInv == Author /\ ScanInv /\ Inside /\ Name /\ Margin /\ Sync /\ Between /\ Current /\ Values

\* Nothing is found, and nobody gets a value.
LEMMA QuietLookup ==
  ASSUME IInv, tokens' = tokens, written' = written, current' = current,
         damaged \subseteq damaged'
  PROVE  Current' /\ Values'
  BY DEF IInv, Current, Values

\* A token that is no variable concerns the current one only.
LEMMA Lookups ==
  ASSUME IInv, ~loaded, current' = current, damaged \subseteq damaged',
         \A v \in Vars \ damaged' : v # current => written'[v] = written[v],
         tokens' = tokens \/ \E token \in Tokens : /\ token.type # "TOK_VARIABLE"
                                                   /\ tokens' = Append(tokens, token),
         current \in Vars \ damaged' => Lookup(tokens', current).values = written'[current]
  PROVE  Current' /\ Values'
<1>1. tokens \in Seq(Tokens) /\ tokens # <<>> /\ Vars \ damaged' \subseteq Vars \ damaged
  BY DEF IInv, ScanInv
<1>2. ASSUME NEW v \in Vars \ damaged'
      PROVE  /\ Lookup(tokens', v).found <=> current' = v
             /\ Lookup(tokens', v).values = written'[v]
  <2>1. (Lookup(tokens, v).found <=> current = v) /\ Lookup(tokens, v).values = written[v]
    BY <1>1 DEF IInv, Current, Values
  <2>2. CASE tokens' = tokens
    BY <2>1, <2>2
  <2>3. ASSUME NEW token \in Tokens, token.type # "TOK_VARIABLE", tokens' = Append(tokens, token)
        PROVE  /\ Lookup(tokens', v).found <=> current' = v
               /\ Lookup(tokens', v).values = written'[v]
    <3>1. Lookup(tokens', v) = LookedAt(Lookup(tokens, v), token, v)
      BY <1>1, <2>3, LookupAppends
    <3>2. Lookup(tokens', v).found = Lookup(tokens, v).found
      BY <2>3, <3>1 DEF LookedAt
    <3>3. ~Lookup(tokens, v).found => Lookup(tokens', v).values = Lookup(tokens, v).values
      BY <3>1 DEF LookedAt
    <3> QED
      BY <2>1, <3>2, <3>3
  <2> QED
    BY <2>2, <2>3
<1> QED
  BY <1>2 DEF Current, Values

\* A word all of whose letters are pending is what the token will hold.
LEMMA PendingIsTheWord ==
  ASSUME ScanInv, WordPending, at = Len(word), word \in Seq(Letters)
  PROVE  Pending = word
<1>1. Len(word) \in Nat /\ tok_start \in 0 .. Len(line) /\ Len(line) \in Nat
  BY DEF ScanInv
<1>2. Len(line) - tok_start = Len(word)
  BY <1>1 DEF WordPending
<1>3. Pending \in Seq(Chars) /\ Len(Pending) = Len(word) /\ \A k \in 1 .. Len(word) : Pending[k] = word[k]
  BY <1>2, PendingText DEF WordPending
<1> QED
  BY <1>3

\* A brace is no value.
LEMMA BraceLookup ==
  ASSUME IInv, ~loaded, current' = current,
         damaged \subseteq damaged', written' = written,
         NEW token \in Tokens, token.type \notin {"TOK_VARIABLE", "TOK_VALUE"},
         tokens' = Append(tokens, token)
  PROVE  Current' /\ Values'
<1>1. tokens \in Seq(Tokens) /\ tokens # <<>>
  BY DEF IInv, ScanInv
<1>2. ASSUME current \in Vars \ damaged'
      PROVE  Lookup(tokens', current).values = written'[current]
  <2>1. Lookup(tokens', current) = LookedAt(Lookup(tokens, current), token, current)
    BY <1>1, LookupAppends
  <2>2. Lookup(tokens, current).values = written[current]
    BY <1>1, <1>2 DEF IInv, Values
  <2> QED
    BY <2>1, <2>2 DEF LookedAt
<1> QED
  BY <1>2, Lookups

\* An end between values costs nobody one, if no value of an undamaged variable is
\* pending.
LEMMA EndLookup ==
  ASSUME IInv, NEW c \in Ends, Scan(c), current' = current,
         damaged \subseteq damaged', written' = written,
         tok_start < Len(line) => current \in damaged'
  PROVE  Current' /\ Values'
<1>1. ScanInv /\ ~loaded /\ Len(line) \in Nat /\ tok_start \in 0 .. Len(line)
  BY DEF IInv, ScanInv, Scan
<1> DEFINE token == [type |-> "TOK_VALUE", val |-> Pending]
<1>2. /\ tok_start = Len(line) => tokens' = tokens
      /\ tok_start < Len(line) => tokens' = Append(tokens, token)
  BY <1>1, ScanEnd
<1>3. token \in Tokens /\ token.type # "TOK_VARIABLE"
  BY <1>1, PendingToken DEF TokenTypes
<1> HIDE DEF token
<1>4. CASE tok_start = Len(line)
  BY <1>2, <1>4, QuietLookup
<1>5. CASE tok_start < Len(line)
  BY <1>1, <1>2, <1>3, <1>5, Lookups
<1> QED
  BY <1>1, <1>4, <1>5
-----------------------------------------------------------------------------
(* Every action *)

LEMMA WordsAreLetters ==
  /\ \A w \in Vars \cup Words : w \in Seq(Letters) /\ Len(w) \in Nat /\ Len(w) # 0 /\ w[1] \in Letters
  /\ \A w \in Vars \cup Words : \A k \in 1 .. Len(w) : w[k] \in Letters
<1>1. ASSUME NEW w \in Vars \cup Words
      PROVE  /\ w \in Seq(Letters) /\ Len(w) \in Nat /\ Len(w) # 0
             /\ \A k \in 1 .. Len(w) : w[k] \in Letters
  <2>1. w \in Seq(Letters) /\ w # <<>>
    BY FileAssumption
  <2> QED
    BY <2>1
<1> QED
  BY <1>1

LEMMA SyntaxIsChars ==
  /\ " " \in Chars /\ "=" \in Chars /\ "{" \in Chars /\ "}" \in Chars /\ "newline" \in Chars
  /\ Ends \subseteq Chars
  BY DEF Chars, Ends

\* Whatever is written, the scanner goes on as it should.
LEMMA ScanGoesOn ==
  ASSUME IInv, NEW c \in Chars, Scan(c)
  PROVE  /\ ScanInv' /\ size' \in Nat /\ loaded' \in BOOLEAN
         /\ ~loaded /\ tokens \in Seq(Tokens) /\ tokens # <<>>
         /\ line \in Seq(Chars) /\ Len(line) \in Nat /\ tok_start \in 0 .. Len(line)
<1>1. ScanInv /\ size \in Nat /\ loaded \in BOOLEAN
  BY DEF IInv, Author
<1>2. ~loaded /\ size' = size + 1 /\ loaded' = loaded
  BY DEF Scan
<1>3. ScanInv'
  BY <1>1, ScanKeeps
<1>4. /\ tokens \in Seq(Tokens) /\ tokens # <<>>
      /\ line \in Seq(Chars) /\ Len(line) \in Nat /\ tok_start \in 0 .. Len(line)
  BY <1>1, <1>2 DEF ScanInv
<1> QED
  BY <1>1, <1>2, <1>3, <1>4

\* Nothing is pending, or a text with a character that is no letter.
LEMMA StrayPending ==
  ASSUME ScanInv', NEW c, c \notin Letters,
         tok_start' = Len(line') \/ (tok_start' < Len(line') /\ line'[Len(line')] = c)
  PROVE  TailPending' \/ HoldsJunk'
<1>1. Len(line') \in Nat /\ tok_start' \in 0 .. Len(line')
  BY DEF ScanInv
<1>2. CASE tok_start' = Len(line')
  BY <1>1, <1>2 DEF TailPending
<1>3. CASE tok_start' < Len(line') /\ line'[Len(line')] = c
  <2>1. Len(line') \in tok_start' + 1 .. Len(line')
    BY <1>1, <1>3
  <2> QED
    BY <1>3, <2>1 DEF HoldsJunk
<1> QED
  BY <1>2, <1>3

LEMMA SlipsCount ==
  ASSUME IInv, Slip \/ NoSlip
  PROVE  slips' \in Nat
  BY DEF IInv, Author, Slip, NoSlip

LEMMA BlankKeeps ==
  ASSUME IInv, Blank
  PROVE  IInv'
<1>1. Scan(" ") /\ place \in {"margin", "is"} /\ UNCHANGED <<place, meant>>
  BY DEF Blank
<1>2. ScanInv' /\ size' \in Nat /\ slips' \in Nat /\ loaded' \in BOOLEAN
  BY <1>1, SyntaxIsChars, ScanGoesOn, SlipsCount DEF Blank
<1>3. tokens' = tokens /\ (Fresh => Fresh')
  BY <1>1, ScanBlank, BlankKeepsFresh DEF IInv
<1>4. Current' /\ Values'
  BY <1>1, <1>3, QuietLookup DEF meant
<1>5. Author' /\ Inside'
  BY <1>1, <1>2 DEF IInv, Author, Inside, meant
<1>6. Name' /\ Margin' /\ Sync' /\ Between'
  BY <1>1, <1>3 DEF IInv, Name, Margin, Sync, Between, meant
<1> QED
  BY <1>2, <1>4, <1>5, <1>6 DEF IInv

\* The first letter of a word, where nothing is pending.
LEMMA FirstLetter ==
  ASSUME ScanInv, Fresh, NEW w \in Vars \cup Words, Scan(w[1]), word' = w, at' = 1
  PROVE  WordPending' /\ tok_start' < Len(line') /\ tokens' = tokens
<1>1. w[1] \in Letters /\ line \in Seq(Chars) /\ Len(line) \in Nat
  BY WordsAreLetters DEF ScanInv
<1>2. /\ tokens' = tokens /\ tok_start' = tok_start
      /\ Len(line') = Len(line) + 1 /\ line'[Len(line) + 1] = w[1]
  BY <1>1, ScanLetter
<1> QED
  BY <1>1, <1>2 DEF WordPending, Fresh

LEMMA BeginNameKeeps ==
  ASSUME IInv, NEW v \in Vars, BeginName(v)
  PROVE  IInv'
<1> DEFINE clean == place = "margin" /\ ~inlist
<1>1. /\ Scan(v[1]) /\ place' = "name"
      /\ head' = v /\ word' = v /\ at' = 1 /\ inlist' = FALSE
      /\ written' = written /\ current' = current
      /\ damaged \subseteq damaged' /\ damaged' \subseteq damaged \cup {head, v}
      /\ clean \/ line = <<>> \/ v \in damaged'
      /\ Slip \/ NoSlip
  BY DEF BeginName
<1>2. v[1] \in Letters /\ v[1] \in Chars /\ 1 \in 0 .. Len(v)
  <2>1. v[1] \in Letters /\ Len(v) \in Nat /\ Len(v) # 0
    BY WordsAreLetters
  <2>2. v[1] \in Chars
    BY <2>1, LetterIsPlain
  <2> QED
    BY <2>1, <2>2
<1>3. /\ ScanInv' /\ size' \in Nat /\ slips' \in Nat /\ loaded' \in BOOLEAN
      /\ Len(line) \in Nat /\ tok_start \in 0 .. Len(line)
  BY <1>1, <1>2, ScanGoesOn, SlipsCount
<1>4. /\ tokens' = tokens /\ tok_start' = tok_start
      /\ Len(line') = Len(line) + 1 /\ line'[Len(line) + 1] = v[1]
  BY <1>1, <1>2, ScanLetter DEF IInv
<1>5. TailPending'
  BY <1>1, <1>3, <1>4 DEF TailPending
<1>6. ASSUME v \notin damaged'
      PROVE  WordPending'
  <2>1. tok_start = Len(line)
    <3>1. CASE clean
      BY <3>1 DEF IInv, Margin, Fresh
    <3>2. CASE line = <<>>
      BY <1>3, <3>2
    <3> QED
      BY <1>1, <1>6, <3>1, <3>2
  <2> QED
    BY <1>1, <1>3, <1>4, <2>1 DEF WordPending
<1>7. Current' /\ Values'
  BY <1>1, <1>4, QuietLookup
<1>8. Author'
  <2>1. /\ written \in [Vars -> Seq(Words)] /\ current \in Vars \cup {<<>>}
        /\ damaged' \subseteq Vars \cup {<<>>}
    BY <1>1 DEF IInv, Author
  <2> HIDE DEF clean
  <2> QED
    BY <1>1, <1>2, <1>3, <2>1 DEF Author, Places
<1>9. Inside' /\ Name' /\ Margin' /\ Sync' /\ Between'
  BY <1>1, <1>5, <1>6 DEF Inside, Name, Margin, Sync, Between
<1> QED
  BY <1>3, <1>7, <1>8, <1>9 DEF IInv

LEMMA LetterKeeps ==
  ASSUME IInv, Letter
  PROVE  IInv'
<1> DEFINE c == word[at + 1]
<1>1. /\ place \in {"name", "word"} /\ at < Len(word) /\ Scan(c) /\ at' = at + 1
      /\ UNCHANGED <<place, head, inlist, word, written, current, damaged>> /\ NoSlip
  BY DEF Letter
<1>2. word \in Vars \cup Words /\ at \in 0 .. Len(word) /\ at # 0
  BY <1>1 DEF IInv, Author, Inside
<1>3. c \in Letters /\ at \in Nat /\ at' \in 0 .. Len(word)
  <2>1. Len(word) \in Nat /\ at + 1 \in 1 .. Len(word)
    BY <1>1, <1>2, WordsAreLetters
  <2> QED
    BY <1>1, <1>2, <2>1, WordsAreLetters
<1>4. line \in Seq(Chars) /\ Len(line) \in Nat /\ tok_start \in 0 .. Len(line)
  BY DEF IInv, ScanInv
<1>5. ScanInv' /\ size' \in Nat /\ slips' \in Nat /\ loaded' \in BOOLEAN
  BY <1>1, <1>3, LetterIsPlain, ScanGoesOn, SlipsCount
<1>6. /\ tokens' = tokens /\ tok_start' = tok_start
      /\ Len(line') = Len(line) + 1
      /\ \A k \in 1 .. Len(line) : line'[k] = line[k]
      /\ line'[Len(line) + 1] = c
  BY <1>1, <1>3, ScanLetter DEF IInv
<1> HIDE DEF c
<1>7. Current' /\ Values'
  BY <1>1, <1>6, QuietLookup
<1>8. Author' /\ Inside'
  BY <1>1, <1>2, <1>3, <1>5 DEF IInv, Author, Inside
<1>9. WordPending => WordPending'
  <2> SUFFICES ASSUME WordPending
               PROVE  WordPending'
    OBVIOUS
  <2>1. tok_start' + at' = Len(line')
    <3>1. tok_start + at = Len(line)
      BY DEF WordPending
    <3>2. at' = at + 1
      BY <1>1
    <3>3. tok_start' = tok_start /\ Len(line') = Len(line) + 1
      BY <1>6
    <3>4. at \in Nat /\ tok_start \in Nat /\ Len(line) \in Nat
      BY <1>3, <1>4
    <3> QED
      BY <3>1, <3>2, <3>3, <3>4
  <2>2. ASSUME NEW k \in 1 .. at + 1
        PROVE  line'[tok_start + k] = word[k]
    <3>1. CASE k = at + 1
      <4>1. tok_start + k = Len(line) + 1
        BY <1>2, <1>4, <3>1 DEF WordPending
      <4> QED
        BY <1>6, <3>1, <4>1 DEF c
    <3>2. CASE k \in 1 .. at
      <4>1. tok_start + k \in 1 .. Len(line) /\ line[tok_start + k] = word[k]
        BY <1>2, <1>4, <3>2 DEF WordPending
      <4> QED
        BY <1>6, <4>1
    <3> QED
      BY <1>2, <3>1, <3>2
  <2> QED
    BY <1>1, <1>6, <2>1, <2>2 DEF WordPending
<1>10. HoldsJunk => HoldsJunk'
  <2>1. ASSUME NEW k \in tok_start + 1 .. Len(line)
        PROVE  k \in tok_start' + 1 .. Len(line') /\ line'[k] = line[k]
    BY <1>4, <1>6
  <2> QED
    BY <2>1 DEF HoldsJunk
<1>11. TailPending => TailPending'
  <2> SUFFICES ASSUME TailPending
               PROVE  TailPending'
    OBVIOUS
  <2>1. ASSUME NEW k \in 0 .. at, k < Len(line) + 1 - tok_start
        PROVE  line'[Len(line) + 1 - k] = word[at + 1 - k]
    <3>1. CASE k = 0
      BY <1>3, <1>4, <1>6, <3>1 DEF c
    <3>2. CASE k # 0
      <4>1. k - 1 \in 0 .. at - 1 /\ k - 1 < Len(line) - tok_start
        BY <1>3, <1>4, <2>1, <3>2
      <4>2. line[Len(line) - (k - 1)] = word[at - (k - 1)]
        BY <4>1 DEF TailPending
      <4>3. /\ Len(line) - (k - 1) = Len(line) + 1 - k /\ at - (k - 1) = at + 1 - k
            /\ Len(line) + 1 - k \in 1 .. Len(line)
        BY <1>3, <1>4, <2>1, <3>2
      <4> QED
        BY <1>6, <4>2, <4>3
    <3> QED
      BY <3>1, <3>2
  <2>2. ASSUME NEW k \in 0 .. at' - 1, k < Len(line') - tok_start'
        PROVE  line'[Len(line') - k] = word'[at' - k]
    <3>1. word' = word /\ at' = at + 1 /\ tok_start' = tok_start /\ Len(line') = Len(line) + 1
      BY <1>1, <1>6
    <3>2. k \in 0 .. at /\ k < Len(line) + 1 - tok_start
      BY <1>3, <1>4, <2>2, <3>1
    <3>3. Len(line') - k = Len(line) + 1 - k /\ at' - k = at + 1 - k
      BY <1>3, <1>4, <3>1, <3>2
    <3> QED
      BY <2>1, <3>1, <3>2, <3>3
  <2> QED
    BY <2>2 DEF TailPending
<1>12. Name' /\ Margin' /\ Sync' /\ Between'
  BY <1>1, <1>9, <1>10, <1>11 DEF IInv, Name, Margin, Sync, Between
<1> QED
  BY <1>5, <1>7, <1>8, <1>12 DEF IInv

\* The pending text is an undamaged variable only if that is the name meant.
LEMMA NameIsMeant ==
  ASSUME IInv, place = "name", at = Len(word), NEW v \in Vars \ damaged
  PROVE  Pending = v <=> head = v
<1>1. word = head /\ head \in Vars /\ (TailPending \/ HoldsJunk)
  BY DEF IInv, Inside, Name
<1>2. /\ Len(line) \in Nat /\ tok_start \in 0 .. Len(line)
      /\ Len(Pending) = Len(line) - tok_start
      /\ \A k \in 1 .. Len(line) - tok_start : Pending[k] = line[tok_start + k]
  BY PendingText DEF IInv, ScanInv
<1>3. ASSUME head = v
      PROVE  Pending = v
  <2>1. WordPending
    BY <1>3 DEF IInv, Name
  <2> QED
    BY <1>1, <1>3, <2>1, PendingIsTheWord, WordsAreLetters DEF IInv
<1>4. ASSUME Pending = v
      PROVE  head = v
  <2>1. Len(v) = Len(line) - tok_start /\ \A k \in 1 .. Len(v) : line[tok_start + k] = v[k]
    BY <1>2, <1>4
  <2>2. TailPending
    <3>1. ASSUME NEW k \in tok_start + 1 .. Len(line)
          PROVE  line[k] \in Letters
      <4>1. k - tok_start \in 1 .. Len(v) /\ tok_start + (k - tok_start) = k
        BY <1>2, <2>1
      <4>2. line[k] = v[k - tok_start]
        BY <2>1, <4>1
      <4> QED
        BY <4>1, <4>2, WordsAreLetters
    <3> QED
      BY <1>1, <3>1 DEF HoldsJunk
  <2>3. Len(head) \in Nat /\ Len(v) \in Nat
    BY <1>1, WordsAreLetters
  <2>4. ASSUME NEW k \in 0 .. Len(head) - 1, k < Len(v)
        PROVE  v[Len(v) - k] = head[Len(head) - k]
    <3>1. line[Len(line) - k] = head[Len(head) - k]
      BY <1>1, <2>1, <2>2, <2>4 DEF TailPending
    <3>2. Len(v) - k \in 1 .. Len(v) /\ tok_start + (Len(v) - k) = Len(line) - k
      BY <1>2, <2>1, <2>3, <2>4
    <3> QED
      BY <2>1, <3>1, <3>2
  <2>5. CASE Len(v) <= Len(head)
    <3>1. ASSUME NEW k \in 0 .. Len(v) - 1
          PROVE  head[Len(head) - k] = v[Len(v) - k]
      <4>1. k \in 0 .. Len(head) - 1 /\ k < Len(v)
        BY <2>3, <2>5
      <4> QED
        BY <2>4, <4>1
    <3>2. EndsWith(head, v)
      BY <2>5, <3>1 DEF EndsWith
    <3> QED
      BY <1>1, <3>2, FileAssumption
  <2>6. CASE Len(head) <= Len(v)
    <3>1. ASSUME NEW k \in 0 .. Len(head) - 1
          PROVE  v[Len(v) - k] = head[Len(head) - k]
      <4>1. k < Len(v)
        BY <2>3, <2>6
      <4> QED
        BY <2>4, <4>1
    <3>2. EndsWith(v, head)
      BY <2>6, <3>1 DEF EndsWith
    <3> QED
      BY <1>1, <3>2, FileAssumption
  <2> QED
    BY <2>3, <2>5, <2>6
<1> QED
  BY <1>3, <1>4

LEMMA VariableLookup ==
  ASSUME IInv, ~loaded, NEW v \in Vars \ damaged,
         tokens' = Append(tokens, [type |-> "TOK_VARIABLE", val |-> Pending])
  PROVE  /\ Lookup(tokens', v).found <=> Pending = v
         /\ Lookup(tokens', v).values = written[v]
<1> DEFINE token == [type |-> "TOK_VARIABLE", val |-> Pending]
<1>1. tokens \in Seq(Tokens) /\ tokens # <<>> /\ token \in Tokens
  BY PendingToken DEF IInv, ScanInv, TokenTypes
<1>2. Lookup(tokens', v) = LookedAt(Lookup(tokens, v), token, v)
  BY <1>1, LookupAppends
<1>3. Lookup(tokens, v).values = written[v]
  BY <1>1 DEF IInv, Values
<1>4. token.type = "TOK_VARIABLE" /\ token.val = Pending
  OBVIOUS
<1> HIDE DEF token
<1>5. LookedAt(Lookup(tokens, v), token, v).found = (token.val = v)
  BY <1>4 DEF LookedAt
<1>6. token.type # "TOK_VALUE"
  BY <1>4
<1>7. LookedAt(Lookup(tokens, v), token, v).values = Lookup(tokens, v).values
  BY <1>6 DEF LookedAt
<1> QED
  BY <1>2, <1>3, <1>4, <1>5, <1>7

LEMMA EqualsKeeps ==
  ASSUME IInv, Equals
  PROVE  IInv'
<1>1. /\ place = "name" /\ at = Len(word) /\ Scan("=") /\ place' = "is" /\ current' = head
      /\ UNCHANGED <<head, inlist, word, at, written, damaged>> /\ NoSlip
  BY DEF Equals
<1>2. head \in Vars /\ ~inlist
  BY <1>1 DEF IInv, Inside
<1>3. ScanInv' /\ size' \in Nat /\ slips' \in Nat /\ loaded' \in BOOLEAN
  BY <1>1, SyntaxIsChars, ScanGoesOn, SlipsCount
<1>4. tokens' = Append(tokens, [type |-> "TOK_VARIABLE", val |-> Pending]) /\ Fresh'
  BY <1>1, ScanEquals DEF IInv
<1>5. Author' /\ Inside'
  BY <1>1, <1>2, <1>3 DEF IInv, Author, Inside, Places
<1>6. Name' /\ Margin' /\ Sync' /\ Between'
  BY <1>1, <1>4 DEF Name, Margin, Sync, Between
<1>7. ~loaded
  BY <1>1 DEF Scan
<1>8. ASSUME NEW v \in Vars \ damaged
      PROVE  /\ Lookup(tokens', v).found <=> head = v
             /\ Lookup(tokens', v).values = written[v]
  BY <1>1, <1>4, <1>7, VariableLookup, NameIsMeant
<1>9. Current' /\ Values'
  BY <1>1, <1>8 DEF Current, Values
<1> QED
  BY <1>3, <1>5, <1>6, <1>9 DEF IInv

LEMMA OpenListKeeps ==
  ASSUME IInv, OpenList
  PROVE  IInv'
<1>1. /\ place = "is" /\ Scan("{") /\ place' = "margin" /\ inlist' = TRUE
      /\ UNCHANGED <<head, word, at, written, current, damaged>> /\ NoSlip
  BY DEF OpenList
<1>2. head \in Vars /\ ~loaded
  BY <1>1, SyntaxIsChars, ScanGoesOn DEF IInv, Inside
<1>3. ScanInv' /\ size' \in Nat /\ slips' \in Nat /\ loaded' \in BOOLEAN
  BY <1>1, SyntaxIsChars, ScanGoesOn, SlipsCount
<1>4. PICK token \in Tokens : /\ token.type \notin {"TOK_VARIABLE", "TOK_VALUE"}
                              /\ tokens' = Append(tokens, token)
  BY <1>1, ScanBrace DEF IInv
<1>5. Fresh'
  BY <1>1, ScanBrace DEF IInv
<1>6. Current' /\ Values'
  BY <1>1, <1>2, <1>4, BraceLookup
<1>7. Author' /\ Inside'
  BY <1>1, <1>2, <1>3 DEF IInv, Author, Inside, Places
<1>8. Name' /\ Margin' /\ Sync' /\ Between'
  BY <1>1, <1>5 DEF IInv, Name, Margin, Sync, Between
<1> QED
  BY <1>3, <1>6, <1>7, <1>8 DEF IInv

LEMMA BeginWordKeeps ==
  ASSUME IInv, NEW w \in Words, BeginWord(w)
  PROVE  IInv'
<1>1. /\ place = "is" \/ (place = "margin" /\ inlist)
      /\ Scan(w[1]) /\ place' = "word" /\ word' = w /\ at' = 1
      /\ UNCHANGED <<head, inlist, written, current, damaged>> /\ NoSlip
  BY DEF BeginWord
<1>2. w[1] \in Letters /\ w[1] \in Chars /\ 1 \in 0 .. Len(w) /\ head \in Vars
  <2>1. w[1] \in Letters /\ Len(w) \in Nat /\ Len(w) # 0
    BY WordsAreLetters
  <2>2. head \in Vars
    BY <1>1 DEF IInv, Inside
  <2>3. w[1] \in Chars
    BY <2>1, LetterIsPlain
  <2> QED
    BY <2>1, <2>2, <2>3
<1>3. ScanInv' /\ size' \in Nat /\ slips' \in Nat /\ loaded' \in BOOLEAN
  BY <1>1, <1>2, LetterIsPlain, ScanGoesOn, SlipsCount
<1>4. tokens' = tokens
  BY <1>1, <1>2, ScanLetter DEF IInv
<1>5. head \notin damaged => WordPending'
  <2>1. head \notin damaged => Fresh
    BY <1>1 DEF IInv, Sync
  <2> QED
    BY <1>1, <2>1, FirstLetter DEF IInv
<1>6. Current' /\ Values'
  BY <1>1, <1>4, QuietLookup
<1>7. Author' /\ Inside'
  BY <1>1, <1>2, <1>3 DEF IInv, Author, Inside, Places
<1>8. Name' /\ Margin' /\ Sync' /\ Between'
  BY <1>1, <1>5 DEF IInv, Name, Margin, Sync, Between
<1> QED
  BY <1>3, <1>6, <1>7, <1>8 DEF IInv

LEMMA SeparateKeeps ==
  ASSUME IInv, NEW c \in Ends, Separate(c)
  PROVE  IInv'
<1>1. /\ place = "word" /\ at = Len(word) /\ Scan(c)
      /\ place' = IF c = "newline" \/ (c = "," /\ inlist) THEN "margin" ELSE "done"
      /\ written' = [written EXCEPT ![head] = Append(@, word)]
      /\ UNCHANGED <<head, inlist, word, at, current, damaged>> /\ NoSlip
  BY DEF Separate
<1>2. /\ head \in Vars /\ word \in Words /\ at # 0 /\ at \in Nat /\ ~loaded
      /\ tokens \in Seq(Tokens) /\ tokens # <<>>
      /\ Len(line) \in Nat /\ tok_start \in 0 .. Len(line)
  <2>1. head \in Vars /\ word \in Words /\ at # 0
    BY <1>1 DEF IInv, Inside
  <2>2. at \in Nat
    BY <1>1, <2>1, WordsAreLetters
  <2> QED
    BY <1>1, <2>1, <2>2, SyntaxIsChars, ScanGoesOn
<1>3. ScanInv' /\ size' \in Nat /\ slips' \in Nat /\ loaded' \in BOOLEAN
  BY <1>1, SyntaxIsChars, ScanGoesOn, SlipsCount
<1>4. /\ written' \in [Vars -> Seq(Words)]
      /\ written'[head] = Append(written[head], word)
      /\ \A v \in Vars : v # head => written'[v] = written[v]
  <2>1. written \in [Vars -> Seq(Words)]
    BY DEF IInv, Author
  <2>2. Append(written[head], word) \in Seq(Words)
    BY <1>2, <2>1
  <2> QED
    BY <1>1, <1>2, <2>1, <2>2
<1>5. Author' /\ Inside'
  BY <1>1, <1>2, <1>3, <1>4 DEF IInv, Author, Inside, Places
<1> DEFINE token == [type |-> "TOK_VALUE", val |-> Pending]
<1>6. token \in Tokens
  BY PendingToken DEF IInv, TokenTypes
<1>7. /\ tok_start = Len(line) => tokens' = tokens
      /\ tok_start < Len(line) => tokens' = Append(tokens, token) /\ tok_start' = Len(line')
      /\ c = "newline" => Fresh'
      /\ c = "," => SkipsBlanks'
  BY <1>1, ScanEnd DEF IInv
<1>8. head \notin damaged => tok_start < Len(line) /\ Pending = word
  <2> SUFFICES ASSUME head \notin damaged
               PROVE  tok_start < Len(line) /\ Pending = word
    OBVIOUS
  <2>1. WordPending
    BY <1>1 DEF IInv, Sync
  <2>2. tok_start < Len(line)
    BY <1>2, <2>1 DEF WordPending
  <2> QED
    BY <1>1, <1>2, <2>1, <2>2, PendingIsTheWord, WordsAreLetters DEF IInv
<1>9. head = current \/ {head, current} \subseteq damaged
  BY <1>1 DEF IInv, Between
<1>10. ASSUME current \in Vars \ damaged'
       PROVE  Lookup(tokens', current).values = written'[current]
  <2>1. current = head /\ head \notin damaged
    BY <1>1, <1>9, <1>10
  <2>2. Lookup(tokens, head).found /\ Lookup(tokens, head).values = written[head]
    BY <1>2, <2>1 DEF IInv, Current, Values
  <2>3. tokens' = Append(tokens, token)
    BY <1>7, <1>8, <2>1
  <2>4. Lookup(tokens', head) = LookedAt(Lookup(tokens, head), token, head)
    BY <1>2, <1>6, <2>3, LookupAppends
  <2>5. token.type = "TOK_VALUE" /\ token.val = word
    BY <1>8, <2>1
  <2> HIDE DEF token
  <2>6. Lookup(tokens', head).values = Append(Lookup(tokens, head).values, word)
    BY <2>2, <2>4, <2>5 DEF LookedAt
  <2> QED
    BY <1>4, <2>1, <2>2, <2>6
<1>11. \A v \in Vars \ damaged' : v # current => written'[v] = written[v]
  BY <1>1, <1>4, <1>9
<1>12. tokens' = tokens \/ \E t \in Tokens : t.type # "TOK_VARIABLE" /\ tokens' = Append(tokens, t)
  <2>1. token.type # "TOK_VARIABLE"
    OBVIOUS
  <2> HIDE DEF token
  <2>2. tok_start = Len(line) \/ tok_start < Len(line)
    BY <1>2
  <2>3. tokens' = tokens \/ tokens' = Append(tokens, token)
    BY <1>7, <2>2
  <2> QED
    BY <1>6, <2>1, <2>3
<1>13. Current' /\ Values'
  BY <1>1, <1>2, <1>10, <1>11, <1>12, Lookups
<1>14. Name' /\ Margin' /\ Sync' /\ Between'
  <2>1. place' = "margin" => c = "newline" \/ (c = "," /\ inlist)
    BY <1>1
  <2>2. place' = "margin" /\ ~inlist' => Fresh'
    BY <1>1, <1>7, <2>1
  <2>3. head \notin damaged => tok_start' = Len(line')
    BY <1>7, <1>8
  <2>4. head \notin damaged /\ place' = "margin" => Fresh'
    BY <1>7, <1>8, <2>1, <2>3 DEF Fresh
  <2>5. place' \in {"margin", "done"}
    BY <1>1
  <2> QED
    BY <1>1, <1>9, <2>2, <2>3, <2>4, <2>5 DEF Name, Margin, Sync, Between
<1> QED
  BY <1>3, <1>5, <1>13, <1>14 DEF IInv

LEMMA CloseListKeeps ==
  ASSUME IInv, CloseList \/ LostSeparator
  PROVE  IInv'
<1>1. /\ place \in {"margin", "done", "word"} /\ inlist /\ Scan("}")
      /\ place' = "done" /\ inlist' = FALSE
      /\ UNCHANGED <<head, word, at, written, current>>
      /\ damaged \subseteq damaged' /\ damaged' \subseteq damaged \cup {head}
      /\ Slip \/ NoSlip
  BY DEF CloseList, LostSeparator
<1>2. head \in Vars /\ ~loaded
  BY <1>1, SyntaxIsChars, ScanGoesOn DEF IInv, Inside
<1>3. ScanInv' /\ size' \in Nat /\ slips' \in Nat /\ loaded' \in BOOLEAN
  BY <1>1, SyntaxIsChars, ScanGoesOn, SlipsCount
<1>4. PICK token \in Tokens : /\ token.type \notin {"TOK_VARIABLE", "TOK_VALUE"}
                              /\ tokens' = Append(tokens, token)
  BY <1>1, ScanBrace DEF IInv
<1>5. tok_start' = Len(line')
  BY <1>1, ScanBrace DEF IInv
<1>6. Current' /\ Values'
  BY <1>1, <1>2, <1>4, BraceLookup
<1>7. Author' /\ Inside'
  BY <1>1, <1>2, <1>3 DEF IInv, Author, Inside, Places
<1>8. Name' /\ Margin' /\ Sync' /\ Between'
  BY <1>1, <1>5 DEF IInv, Name, Margin, Sync, Between
<1> QED
  BY <1>3, <1>6, <1>7, <1>8 DEF IInv

LEMMA EndLineKeeps ==
  ASSUME IInv, EndLine
  PROVE  IInv'
<1>1. /\ place \in {"margin", "is", "done"} /\ Scan("newline") /\ place' = "margin"
      /\ UNCHANGED meant /\ NoSlip
      /\ "newline" \in Ends
  BY DEF EndLine, Ends
<1>2. ScanInv' /\ size' \in Nat /\ slips' \in Nat /\ loaded' \in BOOLEAN
  BY <1>1, SyntaxIsChars, ScanGoesOn, SlipsCount
<1>3. Fresh'
  BY <1>1, ScanEnd DEF IInv
<1>4. Author' /\ Inside'
  BY <1>1, <1>2 DEF IInv, Author, Inside, meant, Places
<1>5. Name' /\ Margin' /\ Sync' /\ Between'
  BY <1>1, <1>3 DEF IInv, Name, Margin, Sync, Between, meant
<1>6. tok_start < Len(line) => current \in damaged
  <2>1. head \notin damaged => tok_start = Len(line)
    BY <1>1 DEF IInv, Sync, Fresh
  <2>2. head = current \/ {head, current} \subseteq damaged
    BY <1>1 DEF IInv, Between
  <2>3. Len(line) \in Nat
    BY DEF IInv, ScanInv
  <2> QED
    BY <2>1, <2>2, <2>3
<1>7. Current' /\ Values'
  BY <1>1, <1>6, EndLookup DEF meant
<1> QED
  BY <1>2, <1>4, <1>5, <1>7 DEF IInv

LEMMA StrayBlankKeeps ==
  ASSUME IInv, StrayBlank
  PROVE  IInv'
<1>1. /\ place \in {"name", "word", "done"} /\ Scan(" ")
      /\ damaged' = damaged \cup {head}
      /\ UNCHANGED <<place, head, inlist, word, at, written, current>> /\ Slip
  BY DEF StrayBlank
<1>2. ScanInv' /\ size' \in Nat /\ slips' \in Nat /\ loaded' \in BOOLEAN
  BY <1>1, SyntaxIsChars, ScanGoesOn, SlipsCount
<1>3. /\ tokens' = tokens
      /\ Len(line') = Len(line) + 1
      /\ line'[Len(line) + 1] = " "
      /\ tok_start' = tok_start \/ tok_start' = tok_start + 1
  BY <1>1, ScanBlank DEF IInv
<1>4. Current' /\ Values'
  BY <1>1, <1>3, QuietLookup
<1>5. Author' /\ Inside'
  BY <1>1, <1>2 DEF IInv, Author, Inside
<1>6. TailPending' \/ HoldsJunk'
  <2>1. Len(line') \in Nat /\ tok_start' \in 0 .. Len(line')
    BY <1>2 DEF ScanInv
  <2>2. tok_start' = Len(line') \/ tok_start' < Len(line')
    BY <2>1
  <2>3. line'[Len(line')] = " "
    BY <1>3
  <2>4. " " \notin Letters
    BY FileAssumption
  <2> QED
    BY <1>2, <2>2, <2>3, <2>4, StrayPending
<1>7. Name' /\ Margin' /\ Sync' /\ Between'
  BY <1>1, <1>6 DEF IInv, Name, Margin, Sync, Between
<1> QED
  BY <1>2, <1>4, <1>5, <1>7 DEF IInv

\* What a piece of syntax leaves pending.
LEMMA ScanStray ==
  ASSUME IInv, NEW c \in Chars \ (Letters \cup {" "}), Scan(c)
  PROVE  TailPending' \/ HoldsJunk'
<1>1. c \in {"=", "{", "}"} \cup Ends
  BY DEF Chars, Ends
<1>2. ScanInv'
  BY ScanGoesOn
<1>3. \/ tok_start' = Len(line')
      \/ tok_start' < Len(line') /\ line'[Len(line')] = c
  BY <1>1, ScanEquals, ScanBrace, ScanEnd DEF IInv, Fresh
<1> QED
  BY <1>2, <1>3, StrayPending

LEMMA StrayKeeps ==
  ASSUME IInv, NEW c \in Chars \ (Letters \cup {" "}), Stray(c)
  PROVE  IInv'
<1>1. /\ Scan(c)
      /\ place' = IF place = "margin" /\ ~inlist THEN "done" ELSE place
      /\ damaged' = damaged \cup {head, current} \cup (IF c = "=" THEN Vars \cap {Pending} ELSE {})
      /\ UNCHANGED <<head, inlist, word, at, written, current>> /\ Slip
  BY DEF Stray, Confuses
<1>2. /\ ScanInv' /\ size' \in Nat /\ slips' \in Nat /\ loaded' \in BOOLEAN
      /\ ~loaded /\ tokens \in Seq(Tokens) /\ tokens # <<>>
  BY <1>1, ScanGoesOn, SlipsCount
<1>3. place' = "margin" => inlist
  BY <1>1
<1>4. Author'
  <2>1. damaged' \subseteq Vars \cup {<<>>}
    BY <1>1 DEF IInv, Author
  <2>2. place' \in Places
    BY <1>1 DEF IInv, Author, Places
  <2> QED
    BY <1>1, <1>2, <2>1, <2>2 DEF IInv, Author
<1>5. Inside'
  BY <1>1 DEF IInv, Inside
<1>6. Name' /\ Margin' /\ Sync' /\ Between'
  <2>1. TailPending' \/ HoldsJunk'
    BY <1>1, ScanStray
  <2>2. {head', current'} \subseteq damaged'
    BY <1>1
  <2> QED
    BY <1>1, <1>3, <2>1, <2>2 DEF Name, Margin, Sync, Between
<1>7. Current' /\ Values'
  <2>1. CASE c \in Ends
    BY <1>1, <2>1, EndLookup
  <2>2. CASE c \in {"{", "}"}
    BY <1>1, <1>2, <2>2, ScanBrace, BraceLookup DEF IInv
  <2>3. CASE c = "="
    <3>1. tokens' = Append(tokens, [type |-> "TOK_VARIABLE", val |-> Pending])
      BY <1>1, <2>3, ScanEquals DEF IInv
    <3>2. ASSUME NEW v \in Vars \ damaged'
          PROVE  ~Lookup(tokens', v).found /\ Lookup(tokens', v).values = written[v] /\ v # current
      <4>1. v \notin damaged /\ v # Pending /\ v # current
        BY <1>1, <2>3
      <4> QED
        BY <1>2, <3>1, <4>1, VariableLookup
    <3> QED
      BY <1>1, <3>2 DEF Current, Values
  <2>4. c \in {"=", "{", "}"} \cup Ends
    BY DEF Chars, Ends
  <2> QED
    BY <2>1, <2>2, <2>3, <2>4
<1> QED
  BY <1>2, <1>4, <1>5, <1>6, <1>7 DEF IInv

LEMMA LostEqualsKeeps ==
  ASSUME IInv, LostEquals
  PROVE  IInv'
<1>1. /\ place = "name" /\ place' = "is"
      /\ damaged' = damaged \cup {head, current}
      /\ UNCHANGED <<head, inlist, word, at, written, current, size, scanned, loaded>> /\ Slip
  BY DEF LostEquals, Confuses
<1>2. head \in Vars
  BY <1>1 DEF IInv, Inside
<1>3. ScanInv'
  BY <1>1 DEF IInv, ScanInv, scanned
<1>4. Author' /\ Inside'
  BY <1>1, <1>2, SlipsCount DEF IInv, Author, Inside, Places
<1>5. Name' /\ Margin' /\ Sync' /\ Between'
  BY <1>1 DEF Name, Margin, Sync, Between
<1>6. Current' /\ Values'
  BY <1>1, QuietLookup DEF scanned
<1> QED
  BY <1>3, <1>4, <1>5, <1>6 DEF IInv

LEMMA CannotOpenKeeps ==
  ASSUME IInv, CannotOpen
  PROVE  IInv'
<1>1. /\ tokens' = <<>> /\ loaded' = TRUE
      /\ UNCHANGED <<place, meant, size, slips, line, tok_start, last, skipping>>
  BY DEF CannotOpen
<1>2. ScanInv'
  BY <1>1 DEF IInv, ScanInv
<1>3. Author' /\ Inside'
  BY <1>1 DEF IInv, Author, Inside, meant
<1>4. Name' /\ Margin' /\ Sync' /\ Between'
  BY <1>1 DEF IInv, Name, Margin, Sync, Between, Fresh, SkipsBlanks, WordPending, TailPending, HoldsJunk, meant
<1>5. Current' /\ Values'
  BY <1>1 DEF Current, Values
<1> QED
  BY <1>2, <1>3, <1>4, <1>5 DEF IInv

LEMMA EndOfFileKeeps ==
  ASSUME IInv, EndOfFile
  PROVE  IInv'
<1>1. /\ loaded' = TRUE
      /\ damaged \subseteq damaged' /\ damaged' \subseteq damaged \cup {head}
      /\ UNCHANGED <<place, head, inlist, word, at, written, current, size, slips, scanned>>
  BY DEF EndOfFile
<1>2. ScanInv'
  BY <1>1 DEF IInv, ScanInv, scanned
<1>3. Author' /\ Inside'
  BY <1>1 DEF IInv, Author, Inside
<1>4. Name' /\ Margin' /\ Sync' /\ Between'
  BY <1>1 DEF IInv, Name, Margin, Sync, Between, Fresh, SkipsBlanks, WordPending, TailPending, HoldsJunk, scanned
<1>5. Current' /\ Values'
  BY <1>1, QuietLookup DEF scanned
<1> QED
  BY <1>2, <1>3, <1>4, <1>5 DEF IInv
-----------------------------------------------------------------------------

LEMMA IInvStarts == Init => IInv
<1> SUFFICES ASSUME Init
             PROVE  IInv
  OBVIOUS
<1> DEFINE none == [type |-> "TOK_NONE", val |-> <<>>]
<1>1. none \in Tokens /\ tokens = <<none>> /\ none.type \notin {"TOK_VARIABLE", "TOK_VALUE"}
  <2>1. <<>> \in Seq(Chars)
    OBVIOUS
  <2> QED
    BY <2>1 DEF Init, Tokens, TokenTypes
<1> HIDE DEF none
<1>2. tokens \in Seq(Tokens) /\ tokens # <<>>
  BY <1>1
<1>3. ScanInv
  <2>1. line = <<>> /\ tok_start = 0 /\ last = "none" /\ skipping = FALSE
    BY DEF Init
  <2>2. line \in Seq(Chars) /\ tok_start \in 0 .. Len(line)
    BY <2>1
  <2> QED
    BY <1>2, <2>1, <2>2 DEF ScanInv
<1>4. Author /\ Inside
  <2>1. written \in [Vars -> Seq(Words)]
    BY DEF Init
  <2>2. at \in 0 .. Len(word)
    BY DEF Init
  <2>3. place \in Places /\ place # "name" /\ place # "word"
    BY DEF Init, Places
  <2>4. /\ size \in Nat /\ slips \in Nat /\ loaded \in BOOLEAN
        /\ inlist = FALSE /\ head = <<>> /\ word = <<>> /\ current = <<>> /\ damaged = {}
    BY DEF Init
  <2>5. Author
    BY <2>1, <2>2, <2>3, <2>4 DEF Author
  <2>6. Inside
    BY <2>3, <2>4 DEF Init, Inside
  <2> QED
    BY <2>5, <2>6
<1>5. Name /\ Margin /\ Sync /\ Between
  BY DEF Init, Name, Margin, Sync, Between, Fresh, SkipsBlanks
<1>6. ASSUME NEW v \in Vars
      PROVE  ~Lookup(tokens, v).found /\ Lookup(tokens, v).values = <<>>
  <2>1. Lookup(tokens, v) = LookedAt(Unfound, none, v)
    BY <1>1, LookupStarts
  <2>2. /\ LookedAt(Unfound, none, v).found = Unfound.found
        /\ LookedAt(Unfound, none, v).values = Unfound.values
    BY <1>1 DEF LookedAt
  <2> QED
    BY <2>1, <2>2 DEF Unfound
<1>7. <<>> \notin Vars
  BY FileAssumption
<1>8. Current /\ Values
  BY <1>6, <1>7 DEF Init, Current, Values
<1> QED
  BY <1>3, <1>4, <1>5, <1>8 DEF IInv

LEMMA IInvStays == IInv /\ [Next]_vars => IInv'
<1> SUFFICES ASSUME IInv, [Next]_vars
             PROVE  IInv'
  OBVIOUS
<1>1. CASE UNCHANGED vars
  <2>1. Author' /\ Inside'
    BY <1>1 DEF vars, meant, IInv, Author, Inside
  <2>2. ScanInv'
    BY <1>1 DEF vars, scanned, IInv, ScanInv
  <2>3. Name' /\ Margin' /\ Sync' /\ Between'
    BY <1>1 DEF vars, meant, scanned, IInv, Name, Margin, Sync, Between, Fresh, SkipsBlanks,
                WordPending, TailPending, HoldsJunk
  <2>4. Current' /\ Values'
    BY <1>1 DEF vars, meant, scanned, IInv, Current, Values
  <2> QED
    BY <2>1, <2>2, <2>3, <2>4 DEF IInv
<1> QED
  BY <1>1, CannotOpenKeeps, BlankKeeps, BeginNameKeeps, LetterKeeps, EqualsKeeps, OpenListKeeps,
     BeginWordKeeps, SeparateKeeps, CloseListKeeps, EndLineKeeps, StrayBlankKeeps, StrayKeeps,
     LostEqualsKeeps, EndOfFileKeeps DEF Next

LEMMA IInvHolds == Spec => []IInv
  BY IInvStarts, IInvStays, PTL DEF Spec

\* Every reachable state is type-correct: above all tok_start <= idx, so that the
\* length load_tokens passes to strncpy is never negative.
THEOREM ScanTypeCorrect == Spec => []TypeOK
<1>1. IInv => TypeOK
  BY DEF IInv, Author, ScanInv, Tokens, TypeOK
<1> QED
  BY <1>1, IInvHolds, PTL

\* get_variable returns exactly the values written to a variable, in their order,
\* however long the file and however many slips of ConfigFile are in it: a variable
\* loses or gains a value only by a slip in a line of its own, or in one that
\* stands behind it before the next =, or by an = behind a text that is its name.
THEOREM DamageStaysLocal == Spec => []DamageIsLocal
<1>1. IInv => DamageIsLocal
  BY DEF IInv, Values, DamageIsLocal, Opened, GetVariable
<1> QED
  BY <1>1, IInvHolds, PTL

\* What load_config makes of the file is what its author meant, whatever else the
\* file sets, if no slip touches the three variables; fields the file does not set
\* are left as they were.
THEOREM ConfigIsAsWritten == Spec => []ConfigAsWritten
<1>1. ASSUME IInv
      PROVE  ConfigAsWritten
  <2> SUFFICES ASSUME Opened, damaged \cap {DestIp, DestPort, Devices} = {}
               PROVE  ConfigAsWritten
    BY DEF ConfigAsWritten
  <2> DEFINE ip == written[DestIp]
             port == written[DestPort]
             unset == [dest_ip |-> <<>>, dest_port |-> 2 ^ 16, device_names |-> <<>>]
  <2>1. /\ GetVariable(DestIp) = ip
        /\ GetVariable(DestPort) = port
        /\ GetVariable(Devices) = written[Devices]
    BY <1>1, FileAssumption DEF IInv, Values, Opened, GetVariable
  <2>2. ip \in Seq(Words) /\ port \in Seq(Words)
    BY <1>1, FileAssumption DEF IInv, Author
  <2>3. /\ ip # <<>> => Chosen(ip) = ip[1]
        /\ port # <<>> => Chosen(port) = port[1] /\ port[1] \in Words
    BY <2>2 DEF Chosen
  <2>4. port # <<>> /\ Number[port[1]] \in 1 .. 2 ^ 16 - 1 => PortOf(port[1]) = Number[port[1]]
    BY DEF PortOf
  <2> HIDE DEF ip, port
  <2> DEFINE config == LoadConfig(unset)
  <2>5. /\ config.dest_ip = IF ip = <<>> THEN unset.dest_ip ELSE Chosen(ip)
        /\ config.dest_port = IF port = <<>> \/ Number[Chosen(port)] = 0 THEN unset.dest_port
                              ELSE PortOf(Chosen(port))
        /\ config.device_names = IF written[Devices] = <<>> THEN unset.device_names ELSE written[Devices]
    BY <2>1 DEF LoadConfig
  <2>6. unset.device_names = <<>>
    OBVIOUS
  <2> HIDE DEF unset, config
  <2>7. /\ config.dest_ip = IF ip = <<>> THEN unset.dest_ip ELSE ip[1]
        /\ port # <<>> /\ Number[port[1]] \in 1 .. 2 ^ 16 - 1 => config.dest_port = Number[port[1]]
        /\ port = <<>> \/ Number[port[1]] = 0 => config.dest_port = unset.dest_port
        /\ config.device_names = written[Devices]
    BY <2>3, <2>4, <2>5, <2>6
  <2> QED
    BY <2>7 DEF ConfigAsWritten, ip, port, unset, config
<1> QED
  BY <1>1, IInvHolds, PTL
=============================================================================
