----------------------------- MODULE MCLibrary -----------------------------
(***************************************************************************)
(* The parts of the library that share no state, for TLC: a behaviour is   *)
(* one of the part it chooses at the start, and the others stay in their   *)
(* initial states.                                                         *)
(***************************************************************************)
EXTENDS Sockets, Events, DateTime, ManagedBuffer, Files, Directories,
        Configuration, Placeholder, TLC

CONSTANTS pa, pb, pc    \* paths

VARIABLE part

parts == {"sockets", "events", "datetime", "buffers", "files", "directories",
          "configuration", "strings", "placeholders"}

State == <<SocketVars, EventVars, DateTimeVars, BufferVars, FileVars,
           DirectoryVars, ConfigVars, StringVars, PlaceholderVars>>

(* pa is longer than a block, and pc is not there. *)
Disk0 == (pa :> <<1, 2, 3>>) @@ (pb :> <<4>>) @@ (pc :> Missing)

SeqsUpTo(n, S) == UNION {[1 .. k -> S] : k \in 0 .. n}

(* Occurrences of a pattern may overlap, differ in case, or hold a NUL. *)
Strs0 == SeqsUpTo(3, {"a", Upper, "b"}) \cup [1 .. 4 -> {"a", "b"}]
         \cup {<<"a", NUL, "a">>, <<NUL, "a">>}
Patterns0 == SeqsUpTo(2, {"a", "b"}) \cup {<<Upper>>, <<"a", NUL>>}
Replacements0 == SeqsUpTo(1, {"a", "b"}) \cup {<<"a", "a">>, <<"b", "a">>, <<NUL>>}

(* Every short text, and longer ones with each filter or several braces,  *)
(* with a text that an argument puts in twice or that substr cuts short.   *)
(* A filter's name and a true word are a letter; "A" is that word in the   *)
(* other case.                                                             *)
FilterName0 == [upper |-> <<"u">>, lower |-> <<"l">>, default_if_none |-> <<"d">>,
                empty_if_none |-> <<"n">>, empty_if_false |-> <<"f">>, yesno |-> <<"y">>]
TrueWords0 == {<<"a">>}
Yes0 == <<"y">>
No0 == <<"n">>
Filtering(arg) == {<<"{", "a", "|">> \o FilterName0[f] \o <<":">> \o arg \o <<"}">> :
                      f \in DOMAIN FilterName0}
Long0 == Filtering(<<>>) \cup Filtering(<<"b">>) \cup Filtering(<<"b", ",", "b">>) \cup {<<"{", "b", "}">>, <<"a">>}
Short0 == {<<"{", "a", "}">>, <<"{", "b", "}">>, <<"b">>, <<"}", "{">>, <<NUL>>}
Twice == [i \in 1 .. 6 |-> "b"] \o <<"{", "|">> \o FilterName0.default_if_none
         \o <<":", "b", "}">> \o [i \in 1 .. 6 |-> "b"]
Shortened == {<<NUL>>, <<"{", "b", "}">>}
Templates0 == SeqsUpTo(4, {"{", "}", "|", ":", "a", "d"})
              \cup {s \o t : s \in Long0, t \in Long0 \cup Short0}
              \cup {r \o s \o t : r \in Short0, s \in Short0, t \in Short0}
              \cup {s \o <<"{", "a", "}", "{", "b", "b", "}", "{", "b", "}">> : s \in Shortened}
              \cup {Twice}
VariableMaps0 ==
    {(<<"a">> :> <<"x", "A">>) @@ (<<"a", "}">> :> <<"x", "x", "x", "x">>) @@ (<<"b", "}">> :> <<"x">>),
     (<<"a">> :> <<"A">>) @@ (<<"b", "}">> :> <<>>) @@ (<<"a", "}">> :> <<"x", "{">>)
        @@ (<<"{", "b", "}">> :> <<"|">>) @@ (<<"a", "}", "{">> :> <<"x">>),
     (<<"a">> :> <<>>) @@ (<<"a", "}">> :> <<"x", "{", "a", "}">>),
     (<<"b", "}">> :> <<"x", NUL>>) @@ (<<"a", "}", "{", "b">> :> <<"x">>),
     <<>> :> <<>>}

(* Sections that are stated, stated again, unfinished, or in a comment.    *)
Id(n) == <<"id", <<n>>>>
Sign(c) == <<c, <<>>>>
Statement(k, words) == <<Id(k), Sign("="), <<"value", words>>, Sign(";")>>
Section(s, k, words) == <<Id(s), Sign("{")>> \o Statement(k, words) \o <<Sign("}")>>
First == Section("a", "b", <<"1">>)
Second == Section("a", "b", <<"2", "3">>)
Fragments == {First, Second, Section("b", "b", <<>>), <<Sign("/*")>>, <<Sign("*/")>>,
              <<Sign("unknown")>>, <<Id("a"), Sign("{")>> \o Statement("a", <<"1">>), <<>>}
Texts0 == {f \o g : f \in Fragments, g \in Fragments}
          \cup {<<Sign("/*")>> \o f \o <<Sign("*/")>> \o g : f \in {First, Second}, g \in {First, Second}}

-----------------------------------------------------------------------------
Init ==
    /\ part \in parts
    /\ SocketInit /\ EventInit /\ DateTimeInit /\ BufferInit /\ FileInit
    /\ DirectoryInit /\ ConfigInit /\ StringInit /\ PlaceholderInit

SocketStep ==
    /\ part = "sockets" /\ SocketNext
    /\ UNCHANGED <<part, EventVars, DateTimeVars, BufferVars, FileVars,
                   DirectoryVars, ConfigVars, StringVars, PlaceholderVars>>
EventStep ==
    /\ part = "events" /\ EventNext
    /\ UNCHANGED <<part, SocketVars, DateTimeVars, BufferVars, FileVars,
                   DirectoryVars, ConfigVars, StringVars, PlaceholderVars>>
DateTimeStep ==
    /\ part = "datetime" /\ DateTimeNext
    /\ UNCHANGED <<part, SocketVars, EventVars, BufferVars, FileVars,
                   DirectoryVars, ConfigVars, StringVars, PlaceholderVars>>
BufferStep ==
    /\ part = "buffers" /\ BufferNext
    /\ UNCHANGED <<part, SocketVars, EventVars, DateTimeVars, FileVars,
                   DirectoryVars, ConfigVars, StringVars, PlaceholderVars>>
FileStep ==
    /\ part = "files" /\ FileNext
    /\ UNCHANGED <<part, SocketVars, EventVars, DateTimeVars, BufferVars,
                   DirectoryVars, ConfigVars, StringVars, PlaceholderVars>>
DirectoryStep ==
    /\ part = "directories" /\ DirectoryNext
    /\ UNCHANGED <<part, SocketVars, EventVars, DateTimeVars, BufferVars,
                   FileVars, ConfigVars, StringVars, PlaceholderVars>>
ConfigStep ==
    /\ part = "configuration" /\ ConfigNext
    /\ UNCHANGED <<part, SocketVars, EventVars, DateTimeVars, BufferVars,
                   FileVars, DirectoryVars, StringVars, PlaceholderVars>>
StringStep ==
    /\ part = "strings" /\ StringNext
    /\ UNCHANGED <<part, SocketVars, EventVars, DateTimeVars, BufferVars,
                   FileVars, DirectoryVars, ConfigVars, PlaceholderVars>>
PlaceholderStep ==
    /\ part = "placeholders" /\ PlaceholderNext
    /\ UNCHANGED <<part, SocketVars, EventVars, DateTimeVars, BufferVars,
                   FileVars, DirectoryVars, ConfigVars, StringVars>>

Next ==
    \/ SocketStep \/ EventStep \/ DateTimeStep \/ BufferStep \/ FileStep
    \/ DirectoryStep \/ ConfigStep \/ StringStep \/ PlaceholderStep

LibrarySpec == Init /\ [][Next]_<<part, State>> /\ SocketFairness /\ EventFairness

=============================================================================
