----------------------------- MODULE Placeholder -----------------------------
(***************************************************************************)
(* Placeholder::ProcessString of src/src/PlaceholderUtil.cpp: the loop     *)
(* that replaces {variable}, {variable|filter} and {variable|filter:arg}   *)
(* in a string.  It keeps two positions in the string it is changing and   *)
(* moves each to the next brace of its kind.  The length it takes the name *)
(* with is the closing brace's position, so the name always has the brace  *)
(* in it, and more if the opening one is not the first character.          *)
(***************************************************************************)
EXTENDS Strings, FiniteSets

CONSTANTS
    Templates,       \* strings to process
    VariableMaps,    \* functions from names to strings
    FilterName,      \* the strings that name the default filters
    TrueWords,       \* "true", "yes", "on", "enable", "enabled"
    Yes, No,         \* "yes", "no"
    MaxExpansion     \* bound: the loop is cut at that length

Values(map) == {map[name] : name \in DOMAIN map}
PlaceholderTexts == Templates \cup UNION {Values(map) : map \in VariableMaps}
Letters == UNION {ToSet(s) : s \in PlaceholderTexts}

ASSUME PlaceholderAssumption == PlaceholderTexts \subseteq Seq(Letters) /\ MaxExpansion \in Nat

VARIABLES
    template,        \* str
    variables,
    retstr, pos, pos2,
    processing       \* "no", "loop", "returned" or "exception" (out_of_range)

PlaceholderVars == <<template, variables, retstr, pos, pos2, processing>>

PlaceholderInit ==
    /\ template = <<>> /\ variables = <<>> /\ retstr = <<>>
    /\ pos = npos /\ pos2 = npos /\ processing = "no"

(* equals_ci compares what it makes of two C strings. *)
equals_ci(s, t) ==
    /\ Len(UpToNUL(s)) = Len(UpToNUL(t))
    /\ \A i \in DOMAIN UpToNUL(s) : eq(s[i], t[i], TRUE)
_booltostr(s) == \E word \in TrueWords : equals_ci(s, word)

_yesno(lvalue, arg) ==
    LET choice == IF arg = <<>> THEN <<Yes, No>>
                  ELSE IF Find(arg, <<",">>, 0) # npos THEN Split(arg, <<",">>, FALSE)
                  ELSE <<arg, No>>
    IN  choice[IF _booltostr(lvalue) THEN 1 ELSE 2]

(* filters: the default ones. *)
Transformed(s, to) == [i \in DOMAIN s |-> IF s[i] \in {Upper, Lower} THEN to ELSE s[i]]
filters == {FilterName[f] : f \in DOMAIN FilterName}
Apply(filter, lvalue, arg) ==
    CASE filter = FilterName.upper           -> Transformed(lvalue, Upper)
      [] filter = FilterName.lower           -> Transformed(lvalue, Lower)
      [] filter = FilterName.default_if_none -> IF lvalue = <<>> THEN arg ELSE lvalue
      [] filter = FilterName.empty_if_none   -> IF lvalue = <<>> THEN <<>> ELSE arg
      [] filter = FilterName.empty_if_false  -> IF _booltostr(lvalue) THEN arg ELSE <<>>
      [] filter = FilterName.yesno           -> _yesno(lvalue, arg)

-----------------------------------------------------------------------------
OpenBrace == "{"
CloseBrace == "}"
Bar == "|"

ProcessString(s, map) ==
    /\ processing = "no"
    /\ template' = s /\ variables' = map /\ retstr' = s
    /\ pos' = Find(s, <<OpenBrace>>, 0)
    /\ pos2' = IF pos' = npos THEN npos ELSE Find(s, <<CloseBrace>>, pos')
    /\ processing' = IF s = <<>> \/ DOMAIN map = {} \/ pos' = npos THEN "returned"
                     ELSE "loop"

variable == Substr(retstr, pos + 1, pos2)
Parts(s) == Split(s, <<Bar>>, FALSE)
Colon(s) == Find(s, <<":">>, 0)

(* {lvalue|rvalue} and {lvalue|rvalue:argument}. *)
Filter == LET r == Parts(variable)[2]
          IN  IF Colon(r) = npos THEN r ELSE Substr(r, 0, Colon(r))
Argument == LET r == Parts(variable)[2]
            IN  IF Colon(r) = npos THEN <<>> ELSE Substr(r, Colon(r) + 2, Len(r) - 1)
Filtered == Find(variable, <<Bar>>, 0) # npos

(* variables.at, filters.at and substr throw out_of_range. *)
LookupThrows ==
    /\ Filtered
    /\ \/ Parts(variable)[1] \notin DOMAIN variables
       \/ Filter \notin filters
       \/ LET r == Parts(variable)[2] IN Colon(r) # npos /\ Colon(r) + 2 > Len(r)

replaceWith ==
    IF Filtered THEN Apply(Filter, variables[Parts(variable)[1]], Argument)
    ELSE IF variable \in DOMAIN variables THEN variables[variable]
    ELSE <<>>

InLoop ==
    /\ processing = "loop" /\ pos # npos /\ pos2 # npos
    /\ pos + 1 <= Len(retstr) /\ pos2 + 1 <= Len(retstr)

(* Faulty variant: the text from the opening brace on is kept. *)
ReplacePlaceholderKeep ==
    /\ InLoop /\ ~LookupThrows /\ Len(retstr) <= MaxExpansion
    /\ retstr' = IF replaceWith = <<>> THEN retstr
                 ELSE Substr(retstr, 0, pos) \o replaceWith \o From(retstr, pos)
    /\ pos' = Find(retstr', <<OpenBrace>>, pos + 1)
    /\ pos2' = Find(retstr', <<CloseBrace>>, pos2 + 1)
    /\ UNCHANGED <<template, variables, processing>>

ReplacePlaceholder ==
    /\ InLoop /\ ~LookupThrows /\ Len(retstr) <= MaxExpansion
    /\ retstr' = IF replaceWith = <<>> THEN retstr
                 ELSE Substr(retstr, 0, pos) \o replaceWith \o From(retstr, pos2 + 1)
    /\ pos' = Find(retstr', <<OpenBrace>>, pos + 1)
    /\ pos2' = Find(retstr', <<CloseBrace>>, pos2 + 1)
    /\ UNCHANGED <<template, variables, processing>>

LookupFails ==
    /\ InLoop /\ LookupThrows
    /\ processing' = "exception"
    /\ UNCHANGED <<template, variables, retstr, pos, pos2>>

ProcessReturns ==
    /\ processing = "loop" /\ ~InLoop
    /\ processing' = "returned"
    /\ UNCHANGED <<template, variables, retstr, pos, pos2>>

PlaceholderNext ==
    \/ \E s \in Templates, map \in VariableMaps : ProcessString(s, map)
    \/ ReplacePlaceholder \/ LookupFails \/ ProcessReturns

PlaceholderSpec == PlaceholderInit /\ [][PlaceholderNext]_PlaceholderVars

-----------------------------------------------------------------------------
Closing(s) == {i \in DOMAIN s : s[i] = CloseBrace}

(* Between two closing braces is an opening one. *)
ClosedOnce(s) ==
    \A i, j \in Closing(s) : i < j => \E k \in i .. j : s[k] = OpenBrace

(* Although the string changes under its two positions, in a template that *)
(* opens a placeholder before it closes the next and has no filter, the    *)
(* closing brace the loop takes is after the opening one, and each closing *)
(* brace adds at most one value: no text is put in twice.  A value may     *)
(* have an opening brace, which the loop then takes, but it closes none    *)
(* and brings no filter.  (With a closing brace too many or an argument of *)
(* a filter, the loop takes what it put in for more placeholders, and the  *)
(* string may grow without end; substr ends it at a NUL.)                  *)
(* (PlaceholderUtil.cpp:85-120)                                            *)
GrowthBounded ==
    /\ ClosedOnce(template) /\ ToSet(template) \cap {Bar, NUL} = {}
    /\ \A value \in Values(variables) :
          ToSet(value) \cap {CloseBrace, NUL} = {} /\ ~({OpenBrace, Bar} \subseteq ToSet(value))
    => /\ InLoop => pos < pos2
       /\ \A longest \in 0 .. MaxExpansion :
             (\A value \in Values(variables) : Len(value) <= longest) =>
                Len(retstr) <= Len(template) + Cardinality(Closing(template)) * longest

=============================================================================
