------------------------------- MODULE Strings -------------------------------
(***************************************************************************)
(* Flux::string of include/Flux.h: searching, splitting, joining, and the  *)
(* loops of replace_all_cs and replace_all_ci.  A string is a sequence of  *)
(* characters; positions count from 0, as in the code.  substr returns a   *)
(* string made from a C string, so it ends at the first NUL.               *)
(***************************************************************************)
EXTENDS Integers, Sequences, SequencesExt

CONSTANTS
    NUL,           \* the character '\0'
    Upper, Lower,  \* a letter in both cases, of ascii_case_insensitive_map
    Strs,          \* strings to replace in
    Patterns,      \* strings to replace
    Replacements,  \* strings to put there
    MaxLength      \* bound: the loop over an empty pattern is cut there

Characters == UNION {ToSet(s) : s \in Strs \cup Patterns \cup Replacements}

ASSUME StringsAssumption ==
    /\ NUL \notin {Upper, Lower} /\ MaxLength \in Nat
    /\ Strs \cup Patterns \cup Replacements \subseteq Seq(Characters)

npos == -1

(* The eq of std::char_traits and of ci_char_traits. *)
FoldCase(c) == IF c = Upper THEN Lower ELSE c
eq(c, d, ci) == c = d \/ (ci /\ FoldCase(c) = FoldCase(d))

(* The first place in s, at or after from, where t is. *)
Search(s, t, from, ci) ==
    LET places == {p \in from .. Len(s) - Len(t) :
                      \A i \in 1 .. Len(t) : eq(s[p + i], t[i], ci)}
    IN  IF places = {} THEN npos ELSE CHOOSE p \in places : \A q \in places : p <= q

UpToNUL(s) ==
    IF NUL \in ToSet(s) THEN SubSeq(s, 1, Search(s, <<NUL>>, 0, FALSE)) ELSE s

(* find, and find_ci, which compares what it makes of C strings. *)
Find(s, t, from) == Search(s, t, from, FALSE)
find_ci(s, t, from) == Search(UpToNUL(s), UpToNUL(t), from, TRUE)
FindAny(s, t, from, ci) == IF ci THEN find_ci(s, t, from) ELSE Find(s, t, from)

Smaller(m, n) == IF m <= n THEN m ELSE n
Substr(s, pos, n) == UpToNUL(SubSeq(s, pos + 1, Smaller(pos + n, Len(s))))
From(s, pos) == Substr(s, pos, Len(s))

(* split, for a delimiter that is not empty: its loop has no end for "".   *)
Split(s, delim, ci) ==
    LET pieces[start \in 0 .. Len(s)] ==
          LET end == FindAny(s, delim, start, ci)
          IN  IF end = npos THEN <<SubSeq(s, start + 1, Len(s))>>
              ELSE <<SubSeq(s, start + 1, end)>> \o pieces[end + Len(delim)]
    IN  pieces[0]

Join(vec, delim) ==
    LET joined[n \in 0 .. Len(vec)] ==
          IF n = 0 THEN <<>>
          ELSE joined[n - 1] \o vec[n] \o (IF n = Len(vec) THEN <<>> ELSE delim)
    IN  joined[Len(vec)]

-----------------------------------------------------------------------------
VARIABLES
    string,        \* *this
    _orig, _repl,  \* the arguments
    ignoreCase,    \* whether it is replace_all_ci
    new_string, spos,
    replacing      \* "no", "loop", "returned" or "exception"

StringVars == <<string, _orig, _repl, ignoreCase, new_string, spos, replacing>>

StringInit ==
    /\ string = <<>> /\ _orig = <<>> /\ _repl = <<>> /\ ignoreCase = FALSE
    /\ new_string = <<>> /\ spos = npos /\ replacing = "no"

replace_all(s, o, r, ci) ==
    /\ replacing = "no"
    /\ string' = s /\ _orig' = o /\ _repl' = r /\ ignoreCase' = ci
    /\ new_string' = s
    /\ spos' = FindAny(s, o, 0, ci)
    /\ replacing' = "loop"

(* Faulty variant: the search goes on within the replacement. *)
ReplaceOneAgain ==
    /\ replacing = "loop" /\ spos # npos /\ Len(new_string) <= MaxLength
    /\ spos + Len(_orig) <= Len(new_string)
    /\ new_string' = Substr(new_string, 0, spos) \o _repl
                     \o From(new_string, spos + Len(_orig))
    /\ spos' = FindAny(new_string', _orig, spos, ignoreCase)
    /\ UNCHANGED <<string, _orig, _repl, ignoreCase, replacing>>

ReplaceOne ==
    /\ replacing = "loop" /\ spos # npos /\ Len(new_string) <= MaxLength
    /\ spos + Len(_orig) <= Len(new_string)
    /\ new_string' = Substr(new_string, 0, spos) \o _repl
                     \o From(new_string, spos + Len(_orig))
    /\ spos' = FindAny(new_string', _orig, spos + Len(_repl), ignoreCase)
    /\ UNCHANGED <<string, _orig, _repl, ignoreCase, replacing>>

(* substr throws std::out_of_range: find_ci searches for what is before    *)
(* the pattern's NUL, and the whole pattern is longer than the string.     *)
ReplaceThrows ==
    /\ replacing = "loop" /\ spos # npos
    /\ spos + Len(_orig) > Len(new_string)
    /\ replacing' = "exception"
    /\ UNCHANGED <<string, _orig, _repl, ignoreCase, new_string, spos>>

ReplaceReturns ==
    /\ replacing = "loop" /\ spos = npos
    /\ replacing' = "returned"
    /\ UNCHANGED <<string, _orig, _repl, ignoreCase, new_string, spos>>

StringNext ==
    \/ \E s \in Strs, o \in Patterns, r \in Replacements, ci \in BOOLEAN :
          replace_all(s, o, r, ci)
    \/ ReplaceOne \/ ReplaceThrows \/ ReplaceReturns

StringSpec == StringInit /\ [][StringNext]_StringVars

-----------------------------------------------------------------------------
(* replace_all, which searches the string it is changing, gives what       *)
(* splitting at the pattern and joining with the replacement gives, even   *)
(* where occurrences overlap or the replacement contains the pattern.  It  *)
(* does so for a pattern that is not empty, when substr has no NUL to end  *)
(* at and find_ci none in the pattern.  (Flux.h:480-501, :352-382)         *)
ReplaceIsSplitJoin ==
    /\ replacing = "returned" /\ _orig # <<>>
    /\ NUL \notin ToSet(string) \cup ToSet(_repl)
    /\ ignoreCase => NUL \notin ToSet(_orig)
    => new_string = Join(Split(string, _orig, ignoreCase), _repl)

=============================================================================
