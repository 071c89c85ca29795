--------------------------- MODULE ZoneFileTokens ---------------------------
(***************************************************************************)
(* dns.tokenizer.Tokenizer, a character at a time, as dns.zonefile reads   *)
(* with it: the first token of a line may be its leading whitespace or a   *)
(* comment, which must end the line; and what the names and strings that   *)
(* dnspython writes become when they are read again.                       *)
(***************************************************************************)
EXTENDS Naturals, Sequences, SequencesExt

CONSTANTS
    TextChars,      \* the characters of a text
    MaxText,        \* bound: characters of a text that is not written by dnspython
    WrittenNames,   \* names, as sequences of labels; << >> at the end is the root's
    WrittenStrings, \* character-strings
    ReadOrigin      \* the origin of relative names

Digits == {"0", "1", "2", "3"}
Delimiters == {" ", "\n", ";", "(", ")", "\"", "end"}

ASSUME TokenAssumption == MaxText \in Nat /\ "end" \notin TextChars

VARIABLES
    readerState, \* "start", "reading", "read" or "failed"
    source,      \* what has been written: [kind, value]
    text,        \* the text so far, the end of it included
    rest,        \* what of a written text is left
    ungotten,    \* ungotten_char, or << >>
    scan,        \* get(): [mode, token, kind, skipped]
    multiline, quoting,
    lineStart,   \* the caller wants leading whitespace and comments, or
                 \* the end of the line: "leading", "eol" or "token"
    emitted      \* the tokens so far: [kind, value]

tokenVars == <<readerState, source, text, rest, ungotten, scan, multiline, quoting, lineStart, emitted>>

FreshScan == [mode |-> "leading", token |-> << >>, kind |-> "IDENTIFIER", skipped |-> FALSE]

TokenInit ==
    /\ readerState = "start"
    /\ source = [kind |-> "none", value |-> << >>]
    /\ text = << >> /\ rest = << >> /\ ungotten = << >>
    /\ scan = FreshScan /\ multiline = 0 /\ quoting = FALSE
    /\ lineStart = "leading" /\ emitted = << >>

-----------------------------------------------------------------------------
(* What dnspython writes. *)

\* "\%03d" of a character.
Decimal(c) == CASE c = " " -> <<"0", "3", "2">> [] c = "\n" -> <<"0", "1", "0">> [] OTHER -> <<"0", "0", "1">>
CharOf(digits) == CASE digits = <<"0", "3", "2">> -> " " [] digits = <<"0", "1", "0">> -> "\n" [] OTHER -> "ctl"

EscapedBy(c, special, decimal) ==
    IF c \in special THEN <<"\\", c>> ELSE IF c \in decimal THEN <<"\\">> \o Decimal(c) ELSE <<c>>

\* Faulty variant: of a name, the characters that end a token are not escaped.
Escapify_OnlyDots(c) == EscapedBy(c, {".", "\\", "@", "$"}, {" ", "\n", "ctl"})

\* dns.name._escapify().
Escapify(c) == EscapedBy(c, {"\"", "(", ")", ".", ";", "\\", "@", "$"}, {" ", "\n", "ctl"})

Joined(texts) == FoldLeft(LAMBDA all, one : all \o one, << >>, texts)

NameToText(name) ==
    LET label(i) == Joined([j \in DOMAIN name[i] |-> Escapify(name[i][j])])
    IN  CASE name = << >> -> <<"@">>
          [] name = <<<< >>>> -> <<".">>
          [] OTHER -> Joined([i \in DOMAIN name |-> IF i = 1 THEN label(i) ELSE <<".">> \o label(i)])

\* dns.rdata._escapify(), in the quotes that TXT.to_text() puts around it.
StringToText(string) ==
    <<"\"">> \o Joined([i \in DOMAIN string |-> EscapedBy(string[i], {"\"", "\\"}, {"\n", "ctl"})]) \o <<"\"">>

BeginReading ==
    /\ readerState = "start" /\ readerState' = "reading"
    /\ \/ \E name \in WrittenNames : source' = [kind |-> "name", value |-> name] /\ rest' = NameToText(name)
       \/ \E s \in WrittenStrings : source' = [kind |-> "string", value |-> s] /\ rest' = StringToText(s)
       \/ source' = [kind |-> "text", value |-> << >>] /\ rest' = << >>
    /\ UNCHANGED <<text, ungotten, scan, multiline, quoting, lineStart, emitted>>

-----------------------------------------------------------------------------
(* What they become. *)

\* The digits of an escape come in threes.
UnescapeStep(state, c) ==
    CASE state.bad -> state
      [] ~state.bad /\ ~state.escaping ->
           IF c = "\\" THEN [state EXCEPT !.escaping = TRUE, !.digits = << >>]
           ELSE [state EXCEPT !.chars = Append(@, c), !.dots = IF c = "." THEN @ \cup {Len(state.chars) + 1} ELSE @]
      [] ~state.bad /\ state.escaping /\ state.digits = << >> /\ c \notin Digits ->
           [state EXCEPT !.escaping = FALSE, !.chars = Append(@, c)]
      [] OTHER -> IF c \notin Digits THEN [state EXCEPT !.bad = TRUE]
                  ELSE IF Len(state.digits) < 2 THEN [state EXCEPT !.digits = Append(@, c)]
                  ELSE [state EXCEPT !.escaping = FALSE, !.chars = Append(@, CharOf(Append(state.digits, c)))]

\* Token.unescape(); dots are the places of the dots that were not escaped.
Unescape(token) ==
    FoldLeft(UnescapeStep, [chars |-> << >>, dots |-> {}, escaping |-> FALSE, digits |-> << >>, bad |-> FALSE], token)

BadName == <<<<"bad">>>>

\* dns.name.from_text().
NameFromText(token, origin) ==
    LET u == Unescape(token)
        ends == SetToSortSeq(u.dots \cup {Len(u.chars) + 1}, <)
        labels == [i \in DOMAIN ends |->
                     SubSeq(u.chars, IF i = 1 THEN 1 ELSE ends[i - 1] + 1, ends[i] - 1)]
        named == IF token = <<"@">> \/ token = << >> THEN << >> ELSE labels
    IN  CASE token = <<".">> -> <<<< >>>>
          [] token # <<".">> /\ (u.bad \/ u.escaping \/ \E i \in 1..Len(named) - 1 : named[i] = << >>) -> BadName
          [] OTHER -> IF named = << >> \/ Last(named) # << >> THEN named \o origin ELSE named

-----------------------------------------------------------------------------
(* get(). *)

TokenFails == readerState' = "failed" /\ UNCHANGED <<ungotten, scan, multiline, quoting, lineStart, emitted>>

\* A token for the caller; after a comment he takes the end of the line only.
EmitWith(kind, value, c) ==
    IF lineStart = "eol" /\ kind \notin {"EOL", "EOF"} THEN TokenFails
    ELSE /\ emitted' = Append(emitted, [kind |-> kind, value |-> value])
         /\ ungotten' = c /\ scan' = FreshScan
         /\ lineStart' = CASE kind = "EOL" -> "leading" [] kind = "COMMENT" -> "eol" [] OTHER -> "token"
         /\ readerState' = IF kind = "EOF" THEN "read" ELSE readerState
         /\ UNCHANGED <<multiline, quoting>>

Scanning(next) == scan' = next /\ ungotten' = << >> /\ UNCHANGED <<readerState, lineStart, emitted>>
Taken(c) == [scan EXCEPT !.token = Append(@, c)]
InMode(mode) == [scan EXCEPT !.mode = mode]

\* skip_whitespace(), at the start of get() and in it.
SkipWhitespace(c) ==
    IF c = " " \/ (c = "\n" /\ multiline > 0)
    THEN Scanning([scan EXCEPT !.skipped = TRUE]) /\ UNCHANGED <<multiline, quoting>>
    ELSE IF scan.mode = "leading" /\ scan.skipped /\ lineStart = "leading"
    THEN EmitWith("WHITESPACE", << >>, <<c>>)
    ELSE /\ scan' = InMode("token") /\ ungotten' = <<c>>
         /\ UNCHANGED <<readerState, multiline, quoting, lineStart, emitted>>

\* A delimiter where no token has begun.
Punctuation(c) ==
    CASE c = "(" -> multiline' = multiline + 1 /\ Scanning(InMode("inner")) /\ UNCHANGED quoting
      [] c = ")" -> IF multiline = 0 THEN TokenFails
                    ELSE multiline' = multiline - 1 /\ Scanning(InMode("inner")) /\ UNCHANGED quoting
      [] c = "\"" -> /\ quoting' = ~quoting /\ UNCHANGED multiline
                     /\ Scanning(IF quoting THEN InMode("inner") ELSE [scan EXCEPT !.kind = "QUOTED_STRING"])
      [] c = ";" -> Scanning(InMode("comment")) /\ UNCHANGED <<multiline, quoting>>
      [] c = "\n" -> EmitWith("EOL", << >>, << >>)
      [] c = "end" -> IF multiline > 0 THEN TokenFails ELSE EmitWith("EOF", << >>, << >>)

TokenChar(c) ==
    CASE c \in (IF quoting THEN {"\"", "end"} ELSE Delimiters) ->
           IF c = "end" /\ quoting THEN TokenFails
           ELSE IF scan.token = << >> /\ scan.kind # "QUOTED_STRING" THEN Punctuation(c)
           ELSE EmitWith(scan.kind, scan.token, <<c>>)
      [] quoting /\ c = "\n" -> TokenFails
      [] c = "\\" -> Scanning([Taken(c) EXCEPT !.mode = "escape"]) /\ UNCHANGED <<multiline, quoting>>
      [] OTHER -> Scanning(Taken(c)) /\ UNCHANGED <<multiline, quoting>>

EscapeChar(c) ==
    IF c = "end" \/ (c = "\n" /\ ~quoting) THEN TokenFails
    ELSE Scanning([Taken(c) EXCEPT !.mode = "token"]) /\ UNCHANGED <<multiline, quoting>>

CommentEndsLine == multiline = 0

CommentChar(c) ==
    CASE c \notin {"\n", "end"} -> Scanning(scan) /\ UNCHANGED <<multiline, quoting>>
      [] c \in {"\n", "end"} /\ lineStart = "leading" -> EmitWith("COMMENT", << >>, <<c>>)
      [] c = "end" /\ lineStart # "leading" ->
           IF multiline > 0 THEN TokenFails ELSE EmitWith("EOF", << >>, << >>)
      [] OTHER -> IF CommentEndsLine THEN EmitWith("EOL", << >>, << >>)
                  ELSE Scanning(InMode("inner")) /\ UNCHANGED <<multiline, quoting>>

Scan(c) ==
    CASE scan.mode \in {"leading", "inner"} -> SkipWhitespace(c)
      [] scan.mode = "token"   -> TokenChar(c)
      [] scan.mode = "escape"  -> EscapeChar(c)
      [] scan.mode = "comment" -> CommentChar(c)

\* The next character of the file: any, or the one that was written.
NextChars ==
    CASE source.kind = "text" -> (IF Len(text) < MaxText THEN TextChars ELSE {}) \cup {"end"}
      [] source.kind # "text" /\ rest # << >> -> {Head(rest)}
      [] OTHER -> {"end"}

\* _get_char(), and what get() does with it.
ReadChar ==
    /\ readerState = "reading" /\ UNCHANGED source
    /\ IF ungotten # << >> THEN Scan(ungotten[1]) /\ UNCHANGED <<text, rest>>
       ELSE \E c \in NextChars :
              /\ text' = Append(text, c)
              /\ rest' = IF rest = << >> THEN rest ELSE Tail(rest)
              /\ Scan(c)

TokenNext == BeginReading \/ ReadChar
TokenSpec == TokenInit /\ [][TokenNext]_tokenVars

-----------------------------------------------------------------------------
(* Properties. *)

\* Where a text is after each of its characters, by itself.
Place ==
    LET after(place, c) ==
            CASE place.in = "comment" ->
                   CASE c = "\n" -> [place EXCEPT !.in = "gap"]
                     [] c = "end" -> [place EXCEPT !.in = IF place.depth > 0 THEN "malformed" ELSE "gap"]
                     [] OTHER -> place
              [] place.in = "quotes" -> CASE c = "\"" -> [place EXCEPT !.in = "gap"]
                                          [] c = "\\" -> [place EXCEPT !.in = "quoted escape"]
                                          [] c \in {"\n", "end"} -> [place EXCEPT !.in = "malformed"]
                                          [] OTHER -> place
              [] place.in = "quoted escape" -> [place EXCEPT !.in = IF c = "end" THEN "malformed" ELSE "quotes"]
              [] place.in = "escape" -> [place EXCEPT !.in = IF c \in {"end", "\n"} THEN "malformed" ELSE "word"]
              [] place.in = "malformed" -> place
              [] OTHER -> CASE c = "(" -> [depth |-> place.depth + 1, in |-> "gap"]
                            [] c = ")" -> IF place.depth = 0 THEN [place EXCEPT !.in = "malformed"]
                                          ELSE [depth |-> place.depth - 1, in |-> "gap"]
                            [] c = "\"" -> [place EXCEPT !.in = "quotes"]
                            [] c = ";" -> [place EXCEPT !.in = "comment"]
                            [] c \in {" ", "\n"} -> [place EXCEPT !.in = "gap"]
                            [] c = "end" -> [place EXCEPT !.in = IF place.depth > 0 THEN "malformed" ELSE "gap"]
                            [] c = "\\" -> [place EXCEPT !.in = "escape"]
                            [] OTHER -> [place EXCEPT !.in = "word"]
        f[i \in 0..Len(text)] == IF i = 0 THEN [depth |-> 0, in |-> "gap"] ELSE after(f[i - 1], text[i])
    IN  f

\* The words and the quoted strings of the text, and the ends of its lines,
\* each at the place where it begins.
Words(place) ==
    LET inWord(i) == place[i].in \in {"word", "escape"}
        inQuotes(i) == place[i].in \in {"quotes", "quoted escape"}
        begins == {i \in 1..Len(text) : (inWord(i) /\ ~inWord(i - 1)) \/ (inQuotes(i) /\ ~inQuotes(i - 1))}
        ends == {i \in 1..Len(text) : text[i] = "\n" /\ place[i].depth = 0 /\ ~inQuotes(i)}
        last(i) == CHOOSE j \in i..Len(text) :
                     /\ \A k \in i..j : IF inWord(i) THEN inWord(k) ELSE inQuotes(k)
                     /\ j < Len(text) => ~(IF inWord(i) THEN inWord(j + 1) ELSE inQuotes(j + 1))
        wordAt(i) == CASE i \in ends -> [kind |-> "EOL", value |-> << >>]
                       [] i \in begins /\ inWord(i) -> [kind |-> "IDENTIFIER", value |-> SubSeq(text, i, last(i))]
                       [] OTHER -> [kind |-> "QUOTED_STRING", value |-> SubSeq(text, i + 1, last(i))]
        order == SetToSortSeq(begins \cup ends, <)
    IN  [i \in DOMAIN order |-> wordAt(order[i])]

\* A text is read as its words and the ends of its lines, however they are
\* wrapped in parentheses, quoted or followed by comments, and exactly the
\* malformed ones are refused.  (The exception is the reader's: it refuses a
\* line that begins with a parenthesis and a comment.)
TokensAgree ==
    LET place == Place
        read == SelectSeq(emitted, LAMBDA t : t.kind \notin {"WHITESPACE", "COMMENT", "EOF"})
    IN  source.kind = "text" =>
        /\ readerState = "read" => place[Len(text)].in # "malformed" /\ read = Words(place)
        /\ readerState = "failed" /\ lineStart # "eol" => place[Len(text)].in = "malformed"

\* A name or a string that dnspython has written is one token, and is the same
\* name or string again, whatever its characters.
WrittenIsReadBack ==
    /\ readerState # "start" /\ source.kind # "text" => readerState # "failed"
    /\ readerState = "read" /\ source.kind = "name" =>
         /\ Len(emitted) = 2 /\ emitted[1].kind = "IDENTIFIER"
         /\ NameFromText(emitted[1].value, ReadOrigin) =
              IF source.value # << >> /\ Last(source.value) = << >> THEN source.value ELSE source.value \o ReadOrigin
    /\ readerState = "read" /\ source.kind = "string" =>
         /\ Len(emitted) = 2 /\ emitted[1].kind = "QUOTED_STRING"
         /\ Unescape(emitted[1].value).chars = source.value

\* A text means the same to the reader, to the writer and to the grammar.
ZoneTextSound == TokensAgree /\ WrittenIsReadBack
=============================================================================
