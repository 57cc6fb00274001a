--------------------------- MODULE Configuration ---------------------------
(***************************************************************************)
(* The configuration files of src/src/ConfigurationDriver.cpp: the scanner *)
(* of scanner.ll feeds the parser of parser.yy, whose actions fill the     *)
(* map `values' of the driver.  One driver may parse several times.        *)
(*                                                                         *)
(* A text is a sequence of lexemes <<kind, words>>: an identifier "id", a  *)
(* value "value" (with the words of a quoted string), one of the special   *)
(* characters, the ends of a comment, or "unknown" text.  White space and  *)
(* comments to the end of the line are left out.                           *)
(***************************************************************************)
EXTENDS Naturals, Sequences, FiniteSets, FiniteSetsExt

CONSTANTS
    Texts,         \* contents of configuration files
    Names,         \* identifiers: the names of sections and keys
    Absent,        \* no value
    MaxParses      \* bound: calls of Parse

Lexemes == UNION {{t[i] : i \in DOMAIN t} : t \in Texts}

(* An identifier has a name, and a value has words. *)
ASSUME ConfigurationAssumption ==
    /\ MaxParses \in Nat
    /\ \A t \in Texts : t \in Seq(Lexemes)
    /\ \A x \in Lexemes : x[1] = "id" => \E n \in Names : x = <<"id", <<n>>>>
    /\ \A x \in Lexemes : x[1] = "value" => x[2] # Absent

VARIABLES
    unsuccessful,  \* an error was reported, at any time
    values,        \* section -> key -> words
    sections,      \* the sections that are there
    csect,         \* the section being parsed
    inComment,     \* the start condition of the scanner, kept between parses
    text,          \* the lexemes not yet scanned
    expect,        \* what the parser is to see next, or "nothing" outside Parse
    key, value,    \* of the statement being parsed
    parses,        \* calls of Parse so far
    read           \* history: what the files say, without comments

ConfigVars == <<unsuccessful, values, sections, csect, inComment, text, expect, key,
                value, parses, read>>

ConfigInit ==
    /\ unsuccessful = FALSE /\ inComment = FALSE
    /\ values = [s \in Names |-> [k \in Names |-> Absent]]
    /\ sections = {}
    /\ csect = "" /\ key = "" /\ value = <<>>
    /\ text = <<>> /\ expect = "nothing" /\ read = <<>>
    /\ parses = 0

-----------------------------------------------------------------------------
(* The lexemes of t that are not in a comment. *)
InComment(t, i) ==
    \E j \in 1 .. i : t[j][1] = "/*" /\ \A k \in j .. i - 1 : t[k][1] # "*/"
Uncommented(t) ==
    LET kept == {i \in DOMAIN t : ~InComment(t, i)}
    IN  [n \in 1 .. Cardinality(kept) |->
            t[CHOOSE i \in kept : Cardinality({j \in kept : j <= i}) = n]]

(* Faulty variant: a new Parse forgets the errors of the one before. *)
ParseAnew(t) ==
    /\ expect = "nothing" /\ parses < MaxParses
    /\ parses' = parses + 1
    /\ text' = t /\ expect' = "section"
    /\ read' = read \o Uncommented(t)
    /\ unsuccessful' = FALSE
    /\ UNCHANGED <<values, sections, csect, inComment, key, value>>

(* Parse: neither the values nor the scanner's start condition are reset. *)
Parse(t) ==
    /\ expect = "nothing" /\ parses < MaxParses
    /\ parses' = parses + 1
    /\ text' = t /\ expect' = "section"
    /\ read' = read \o Uncommented(t)
    /\ UNCHANGED <<unsuccessful, values, sections, csect, inComment, key, value>>

CannotOpen ==
    /\ expect = "nothing" /\ parses < MaxParses
    /\ parses' = parses + 1
    /\ unsuccessful' = TRUE
    /\ UNCHANGED <<values, sections, csect, inComment, text, expect, key, value, read>>

Scanning == expect # "nothing"
Lexeme == text[1]

(* The scanner: a comment begins, goes on, or ends. *)
ScanComment ==
    /\ Scanning /\ text # <<>>
    /\ inComment \/ Lexeme[1] = "/*"
    /\ inComment' = (Lexeme[1] # "*/")
    /\ text' = Tail(text)
    /\ UNCHANGED <<unsuccessful, values, sections, csect, expect, key, value, parses, read>>

(* Text that is no token is an error, and skipped. *)
ScanUnknown ==
    /\ Scanning /\ text # <<>> /\ ~inComment
    /\ Lexeme[1] \in {"unknown", "*/"}
    /\ unsuccessful' = TRUE
    /\ text' = Tail(text)
    /\ UNCHANGED <<values, sections, csect, inComment, expect, key, value, parses, read>>

(* The end of the file, an error in a comment or in the middle of a        *)
(* section.  (csect, key and value are cleared here because nothing reads  *)
(* them again before they are set.)                                        *)
ScanEnd ==
    /\ Scanning /\ text = <<>>
    /\ unsuccessful' = (unsuccessful \/ inComment \/ expect # "section")
    /\ expect' = "nothing"
    /\ csect' = "" /\ key' = "" /\ value' = <<>>
    /\ UNCHANGED <<values, sections, inComment, text, parses, read>>

-----------------------------------------------------------------------------
(* The parser takes the next token, when it is of the kind it expects. *)
Takes(state, kind, next) ==
    /\ expect = state /\ text # <<>> /\ ~inComment /\ Lexeme[1] = kind
    /\ expect' = next
    /\ text' = Tail(text)
    /\ UNCHANGED <<unsuccessful, inComment, parses, read>>

BeginSection ==
    /\ Takes("section", "id", "{")
    /\ csect' = Lexeme[2][1]
    /\ sections' = sections \cup {csect'}
    /\ UNCHANGED <<values, key, value>>

Brace ==
    /\ \/ Takes("{", "{", "statement")
       \/ Takes("statement", "}", "section")
    /\ UNCHANGED <<values, sections, csect, key, value>>

Key ==
    /\ Takes("statement", "id", "=")
    /\ key' = Lexeme[2][1]
    /\ UNCHANGED <<values, sections, csect, value>>

Equals ==
    /\ Takes("=", "=", "value")
    /\ UNCHANGED <<values, sections, csect, key, value>>

Value ==
    /\ Takes("value", "value", ";")
    /\ value' = Lexeme[2]
    /\ UNCHANGED <<values, sections, csect, key>>

(* section_item: a later statement of the same key replaces it. *)
EndStatement ==
    /\ Takes(";", ";", "statement")
    /\ values' = [values EXCEPT ![csect][key] = value]
    /\ UNCHANGED <<sections, csect, key, value>>

(* A token out of place: yyparse gives up, and what it has stored stays. *)
SyntaxError ==
    /\ Scanning /\ text # <<>> /\ ~inComment
    /\ Lexeme[1] \in {"id", "value", "{", "}", "=", ";"}
    /\ Lexeme[1] # IF expect = "section" THEN "id" ELSE expect
    /\ expect = "statement" => Lexeme[1] \notin {"id", "}"}
    /\ unsuccessful' = TRUE
    /\ text' = <<>> /\ expect' = "nothing"
    /\ csect' = "" /\ key' = "" /\ value' = <<>>
    /\ UNCHANGED <<values, sections, inComment, parses, read>>

ConfigNext ==
    \/ \E t \in Texts : Parse(t)
    \/ CannotOpen
    \/ ScanComment \/ ScanUnknown \/ ScanEnd
    \/ BeginSection \/ Brace \/ Key \/ Equals \/ Value \/ EndStatement
    \/ SyntaxError

ConfigSpec == ConfigInit /\ [][ConfigNext]_ConfigVars

(* What operator>> reads of a string: its first word. *)
FirstWord(words) == IF words = <<>> THEN "" ELSE words[1]

(* FindSection, GetValue and value_or. *)
FindSection(s) == s \in sections
GetValue(s, k) == IF values[s][k] = Absent THEN Absent ELSE FirstWord(values[s][k])
value_or(s, k, default) ==
    IF FindSection(s) /\ values[s][k] # Absent THEN GetValue(s, k) ELSE default

-----------------------------------------------------------------------------
(* Where read says the value of k in section s.  *)
Stated(s, k) ==
    {i \in 2 .. Len(read) - 3 :
        /\ read[i] = <<"id", <<k>>>> /\ read[i + 1][1] = "="
        /\ \E j \in 1 .. i - 1 :
              /\ read[j] = <<"id", <<s>>>> /\ read[j + 1][1] = "{"
              /\ \A m \in j + 2 .. i : read[m][1] # "{"}

(* As long as the driver says good(), every statement that is in one of    *)
(* the files it was given is in force, unless a later one replaced it, and *)
(* no other is: an error, once found, is never forgotten, although parsing *)
(* goes on after some and a comment may run on into the next file.         *)
(* (ConfigurationDriver.cpp:60-75, scanner.ll:78-85)                       *)
GoodMeansWhole ==
    expect = "nothing" /\ ~unsuccessful =>
       \A s, k \in Names :
          value_or(s, k, "default") =
             IF Stated(s, k) = {} THEN "default"
             ELSE FirstWord(read[Max(Stated(s, k)) + 2][2])

=============================================================================
