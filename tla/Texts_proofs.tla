---------------------------- MODULE Texts_proofs ----------------------------
(***************************************************************************)
(* Proofs about the parts of the library that work on texts: the           *)
(* configuration files of ConfigurationDriver.cpp, replace_all of Flux.h   *)
(* and the placeholders of PlaceholderUtil.cpp.                            *)
(***************************************************************************)
EXTENDS Configuration, Placeholder, SequenceLemmas, FiniteSetTheorems

-----------------------------------------------------------------------------
(* The configuration, for any texts.  As long as there is no error, D      *)
(* lexemes of what was read have been parsed, and what was read after them *)
(* is what the scanner will make of the text that is left (ToScan).  What  *)
(* is in force is what these D say (InForce).  For that, the last of them  *)
(* must be what the parser remembers of them (AtHand), and a statement     *)
(* must be complete except where it is being parsed (Regular).             *)
InSect(r, s, i) ==
    \E j \in 1 .. i - 1 :
       /\ r[j] = <<"id", <<s>>>> /\ r[j + 1][1] = "{"
       /\ \A m \in j + 2 .. i : r[m][1] # "{"

(* The statements of the first D lexemes. *)
Statements(r, s, k, D) ==
    {i \in 2 .. D - 3 :
        r[i] = <<"id", <<k>>>> /\ r[i + 1][1] = "=" /\ InSect(r, s, i)}

InForce(r, D, vals, S) ==
    \A s, k \in Names :
       \/ Statements(r, s, k, D) = {} /\ vals[s][k] = Absent
       \/ \E i \in Statements(r, s, k, D) :
             /\ \A j \in Statements(r, s, k, D) : j <= i
             /\ vals[s][k] = r[i + 2][2] /\ vals[s][k] # Absent
             /\ s \in S

Regular(r, D, state) ==
    \A n \in 1 .. D :
       /\ r[n][1] = "=" => IF n = D THEN state = "value" ELSE r[n + 1][1] = "value"
       /\ r[n][1] = "value" => IF n = D THEN state = ";" ELSE r[n + 1][1] = ";"

AtHand(r, D, state, c, k, words, S) ==
    /\ state = "{" => D >= 1 /\ r[D] = <<"id", <<c>>>> /\ c \in S
    /\ state \in {"statement", "=", "value", ";"} => InSect(r, c, D) /\ c \in S
    /\ state = "=" => D >= 1 /\ r[D] = <<"id", <<k>>>>
    /\ state = "value" => D >= 2 /\ r[D - 1] = <<"id", <<k>>>> /\ r[D][1] = "="
    /\ state = ";" => /\ D >= 3 /\ r[D - 2] = <<"id", <<k>>>> /\ r[D - 1][1] = "="
                      /\ r[D][1] = "value" /\ r[D][2] = words

(* The lexemes of t that are not in a comment, if t begins in one or not.  *)
Kept(t, c) ==
    {i \in 1 .. Len(t) :
        ~InComment(t, i) /\ ~(c /\ \A k \in 1 .. i - 1 : t[k][1] # "*/")}

ToScan(r, t, c, D) ==
    \E f \in [D + 1 .. Len(r) -> Kept(t, c)] :
       /\ \A m, n \in D + 1 .. Len(r) : m < n => f[m] < f[n]
       /\ \A i \in Kept(t, c) : \E n \in D + 1 .. Len(r) : f[n] = i
       /\ \A n \in D + 1 .. Len(r) : r[n] = t[f[n]]

Parsed(D) ==
    /\ ToScan(read, text, inComment, D)
    /\ Regular(read, D, expect)
    /\ AtHand(read, D, expect, csect, key, value, sections)
    /\ InForce(read, D, values, sections)

(* What the map may hold. *)
Storable == {x[2] : x \in Lexemes} \cup {Absent}

ConfigInv ==
    /\ read \in Seq(Lexemes) /\ text \in Seq(Lexemes) /\ inComment \in BOOLEAN
    /\ ~unsuccessful =>
          /\ values \in [Names -> [Names -> Storable]]
          /\ expect = "nothing" => text = <<>> /\ ~inComment
          /\ \E D \in 0 .. Len(read) : Parsed(D)

(* Position i of t is in a comment, if t begins in one or not.             *)
Covered(t, c, i) ==
    InComment(t, i) \/ (c /\ \A k \in 1 .. i - 1 : t[k][1] # "*/")

(* After its first lexeme a text goes on in a comment or not.              *)
LEMMA CoveredTail ==
    ASSUME NEW S, NEW t \in Seq(S), t # <<>>, NEW c \in BOOLEAN,
           NEW i \in 1 .. Len(t) - 1
    PROVE  Covered(t, c, i + 1)
              <=> Covered(Tail(t), (c \/ t[1][1] = "/*") /\ t[1][1] # "*/", i)
<1> DEFINE u == Tail(t)
           d == (c \/ t[1][1] = "/*") /\ t[1][1] # "*/"
<1>1. /\ Len(t) \in Nat /\ Len(u) = Len(t) - 1 /\ \A k \in 1 .. Len(t) - 1 : u[k] = t[k + 1]
  BY HeadTailProperties, LenProperties
<1> HIDE DEF u
<1>2. ASSUME NEW j \in 1 .. i + 1, t[j][1] = "/*", \A k \in j .. i : t[k][1] # "*/"
      PROVE  Covered(u, d, i)
  <2>1. CASE j = 1
    <3>1. d
      BY <1>2, <2>1
    <3>2. \A k \in 1 .. i - 1 : u[k][1] # "*/"
      <4>1. ASSUME NEW k \in 1 .. i - 1 PROVE u[k][1] # "*/"
        <5>1. k \in 1 .. Len(t) - 1 /\ k + 1 \in j .. i
          BY <1>1, <2>1
        <5> QED BY <1>1, <1>2, <5>1
      <4> QED BY <4>1
    <3> QED BY <3>1, <3>2 DEF Covered
  <2>2. CASE j # 1
    <3>1. j - 1 \in 1 .. i /\ j - 1 + 1 = j /\ j - 1 \in 1 .. Len(t) - 1
      BY <1>1, <2>2
    <3>2. u[j - 1][1] = "/*"
      BY <1>1, <1>2, <3>1
    <3>3. \A k \in j - 1 .. i - 1 : u[k][1] # "*/"
      <4>1. ASSUME NEW k \in j - 1 .. i - 1 PROVE u[k][1] # "*/"
        <5>1. k \in 1 .. Len(t) - 1 /\ k + 1 \in j .. i
          BY <1>1, <3>1
        <5> QED BY <1>1, <1>2, <5>1
      <4> QED BY <4>1
    <3> QED BY <3>1, <3>2, <3>3 DEF Covered, InComment
  <2> QED BY <2>1, <2>2
<1>3. ASSUME c, \A k \in 1 .. i : t[k][1] # "*/" PROVE Covered(u, d, i)
  <2>1. d
    <3>1. 1 \in 1 .. i
      OBVIOUS
    <3> QED BY <1>3, <3>1
  <2>2. ASSUME NEW k \in 1 .. i - 1 PROVE u[k][1] # "*/"
    <3>1. k \in 1 .. Len(t) - 1 /\ k + 1 \in 1 .. i
      BY <1>1
    <3> QED BY <1>1, <1>3, <3>1
  <2> QED BY <2>1, <2>2 DEF Covered
<1>4. ASSUME NEW j \in 1 .. i, u[j][1] = "/*", \A k \in j .. i - 1 : u[k][1] # "*/"
      PROVE  Covered(t, c, i + 1)
  <2>1. j \in 1 .. Len(t) - 1 /\ j + 1 \in 1 .. i + 1
    BY <1>1
  <2>2. t[j + 1][1] = "/*"
    BY <1>1, <1>4, <2>1
  <2>3. ASSUME NEW k \in j + 1 .. i PROVE t[k][1] # "*/"
    <3>1. k - 1 \in 1 .. Len(t) - 1 /\ k - 1 \in j .. i - 1 /\ k - 1 + 1 = k
      BY <1>1, <2>1
    <3>2. u[k - 1] = t[k]
      BY <1>1, <3>1
    <3> QED BY <1>4, <3>1, <3>2
  <2>4. i + 1 - 1 = i
    OBVIOUS
  <2> QED BY <2>1, <2>2, <2>3, <2>4 DEF Covered, InComment
<1>5. ASSUME d, \A k \in 1 .. i - 1 : u[k][1] # "*/" PROVE Covered(t, c, i + 1)
  <2>1. ASSUME NEW k \in 1 .. i PROVE t[k][1] # "*/"
    <3>1. CASE k = 1
      BY <1>5, <3>1
    <3>2. CASE k # 1
      <4>1. k - 1 \in 1 .. Len(t) - 1 /\ k - 1 \in 1 .. i - 1 /\ k - 1 + 1 = k
        BY <1>1, <3>2
      <4>2. u[k - 1] = t[k]
        BY <1>1, <4>1
      <4> QED BY <1>5, <4>1, <4>2
    <3> QED BY <3>1, <3>2
  <2>2. i + 1 - 1 = i /\ 1 \in 1 .. i + 1
    OBVIOUS
  <2>3. CASE c
    BY <2>1, <2>2, <2>3 DEF Covered
  <2>4. CASE t[1][1] = "/*"
    BY <2>1, <2>2, <2>4 DEF Covered, InComment
  <2> QED BY <1>5, <2>3, <2>4
<1> HIDE DEF d
<1>6. Covered(t, c, i + 1) => Covered(u, d, i)
  <2>1. i + 1 - 1 = i
    OBVIOUS
  <2> QED BY <1>2, <1>3, <2>1 DEF Covered, InComment
<1>7. Covered(u, d, i) => Covered(t, c, i + 1)
  BY <1>4, <1>5 DEF Covered, InComment
<1> QED BY <1>6, <1>7 DEF u, d

(* What is kept of a text is its first lexeme, if that is not in a         *)
(* comment, and what is kept of the others.                                *)
LEMMA KeptTail ==
    ASSUME NEW S, NEW t \in Seq(S), t # <<>>, NEW c \in BOOLEAN, NEW i \in 1 .. Len(t)
    PROVE  i \in Kept(t, c)
              <=> IF i = 1 THEN ~c /\ t[1][1] # "/*"
                  ELSE i - 1 \in Kept(Tail(t), (c \/ t[1][1] = "/*") /\ t[1][1] # "*/")
<1> DEFINE d == (c \/ t[1][1] = "/*") /\ t[1][1] # "*/"
<1>1. i \in Kept(t, c) <=> ~Covered(t, c, i)
  BY DEF Kept, Covered
<1>2. Len(t) \in Nat /\ Tail(t) \in Seq(S) /\ Len(Tail(t)) = Len(t) - 1
  BY HeadTailProperties, LenProperties
<1>3. CASE i = 1
  <2>1. Covered(t, c, 1) <=> c \/ t[1][1] = "/*"
    BY DEF Covered, InComment
  <2> QED BY <1>1, <1>3, <2>1
<1>4. CASE i # 1
  <2>1. i - 1 \in 1 .. Len(t) - 1 /\ i - 1 + 1 = i
    BY <1>2, <1>4
  <2> HIDE DEF d
  <2>2. Covered(t, c, i) <=> Covered(Tail(t), d, i - 1)
    BY <2>1, CoveredTail DEF d
  <2>3. i - 1 \in Kept(Tail(t), d) <=> ~Covered(Tail(t), d, i - 1)
    BY <1>2, <2>1 DEF Kept, Covered
  <2> QED BY <1>1, <1>4, <2>2, <2>3 DEF d
<1> QED BY <1>3, <1>4

(* ... as positions of the shorter text have it.                           *)
LEMMA KeptNext ==
    ASSUME NEW S, NEW t \in Seq(S), t # <<>>, NEW c \in BOOLEAN, NEW i \in 1 .. Len(t) - 1
    PROVE  i + 1 \in Kept(t, c)
              <=> i \in Kept(Tail(t), (c \/ t[1][1] = "/*") /\ t[1][1] # "*/")
<1> DEFINE d == (c \/ t[1][1] = "/*") /\ t[1][1] # "*/"
<1>1. Len(t) \in Nat /\ Len(Tail(t)) = Len(t) - 1
  BY HeadTailProperties, LenProperties
<1>2. i + 1 \in 1 .. Len(t)
  BY <1>1
<1>3. i + 1 \in Kept(t, c) <=> ~Covered(t, c, i + 1)
  BY <1>2 DEF Kept, Covered
<1> HIDE DEF d
<1>4. Covered(t, c, i + 1) <=> Covered(Tail(t), d, i)
  BY CoveredTail DEF d
<1>5. i \in Kept(Tail(t), d) <=> ~Covered(Tail(t), d, i)
  BY <1>1 DEF Kept, Covered
<1> QED BY <1>3, <1>4, <1>5 DEF d

(* A lexeme that is in a comment, or begins one, changes nothing else.     *)
LEMMA ToScanSkips ==
    ASSUME NEW S, NEW t \in Seq(S), t # <<>>, NEW c \in BOOLEAN, c \/ t[1][1] = "/*",
           NEW r, NEW D, ToScan(r, t, c, D)
    PROVE  ToScan(r, Tail(t), t[1][1] # "*/", D)
<1> DEFINE u == Tail(t)
           d == t[1][1] # "*/"
           N == D + 1 .. Len(r)
<1>1. Len(t) \in Nat /\ Len(u) = Len(t) - 1
  BY HeadTailProperties, LenProperties
<1>2. \A i \in 1 .. Len(t) : i \in Kept(t, c) <=> i # 1 /\ i - 1 \in Kept(u, d)
  <2>1. ((c \/ t[1][1] = "/*") /\ t[1][1] # "*/") = d
    OBVIOUS
  <2>2. \A i \in 1 .. Len(t) :
           i \in Kept(t, c)
              <=> IF i = 1 THEN ~c /\ t[1][1] # "/*"
                  ELSE i - 1 \in Kept(u, (c \/ t[1][1] = "/*") /\ t[1][1] # "*/")
    BY KeptTail
  <2> HIDE DEF d, u
  <2> QED BY <2>1, <2>2
<1>b. \A i \in 1 .. Len(t) - 1 : i + 1 \in Kept(t, c) <=> i \in Kept(u, d)
  <2>1. ((c \/ t[1][1] = "/*") /\ t[1][1] # "*/") = d
    OBVIOUS
  <2>2. \A i \in 1 .. Len(t) - 1 :
           i + 1 \in Kept(t, c) <=> i \in Kept(u, (c \/ t[1][1] = "/*") /\ t[1][1] # "*/")
    BY KeptNext
  <2> HIDE DEF d, u
  <2> QED BY <2>1, <2>2
<1>3. Kept(t, c) \subseteq 1 .. Len(t) /\ Kept(u, d) \subseteq 1 .. Len(t) - 1
  BY <1>1 DEF Kept
<1> HIDE DEF u, d
<1>4. PICK f \in [N -> Kept(t, c)] :
         /\ \A m, n \in N : m < n => f[m] < f[n]
         /\ \A i \in Kept(t, c) : \E n \in N : f[n] = i
         /\ \A n \in N : r[n] = t[f[n]]
  BY DEF ToScan
<1> DEFINE g == [n \in N |-> f[n] - 1]
<1> HIDE DEF N
<1>5. \A n \in N : /\ f[n] \in 1 .. Len(t) /\ f[n] # 1 /\ f[n] - 1 \in Kept(u, d)
                   /\ g[n] = f[n] - 1
  BY <1>2, <1>3, <1>4
<1>6. g \in [N -> Kept(u, d)]
  BY <1>5
<1>7. \A m, n \in N : m < n => g[m] < g[n]
  <2> HIDE DEF g
  <2> QED BY <1>1, <1>4, <1>5
<1>8. \A n \in N : r[n] = u[g[n]]
  <2>1. \A k \in 1 .. Len(t) - 1 : u[k] = t[k + 1]
    BY <1>1, HeadTailProperties DEF u
  <2>2. ASSUME NEW n \in N PROVE r[n] = u[g[n]]
    <3>1. f[n] - 1 \in 1 .. Len(t) - 1 /\ f[n] - 1 + 1 = f[n] /\ g[n] = f[n] - 1
      BY <1>1, <1>5
    <3> QED BY <1>4, <2>1, <3>1
  <2> QED BY <2>2
<1>9. ASSUME NEW i \in Kept(u, d) PROVE \E n \in N : g[n] = i
  <2>1. i \in 1 .. Len(t) - 1 /\ i \in Int
    BY <1>3, <1>9
  <2>2. i + 1 \in Kept(t, c)
    BY <1>b, <1>9, <2>1
  <2>3. PICK n \in N : f[n] = i + 1
    BY <1>4, <2>2
  <2>4. g[n] = f[n] - 1
    BY <1>5, <2>3
  <2>5. g[n] = i
    BY <2>1, <2>3, <2>4
  <2> QED BY <2>3, <2>5
<1> HIDE DEF g
<1> QED BY <1>6, <1>7, <1>8, <1>9 DEF ToScan, N, u, d

(* A lexeme that is not in a comment is the next of what was read.         *)
LEMMA ToScanTakes ==
    ASSUME NEW S, NEW t \in Seq(S), t # <<>>, t[1][1] # "/*",
           NEW c \in BOOLEAN, ~c, NEW R, NEW r \in Seq(R), NEW D \in 0 .. Len(r), ToScan(r, t, c, D)
    PROVE  /\ D + 1 \in 0 .. Len(r) /\ r[D + 1] = t[1]
           /\ ToScan(r, Tail(t), c, D + 1)
<1> DEFINE u == Tail(t)
           L == Len(r)
           N == D + 1 .. L
           M == (D + 1) + 1 .. L
<1>1. Len(t) \in Nat /\ Len(t) >= 1 /\ Len(u) = Len(t) - 1 /\ L \in Nat /\ D \in 0 .. L
  BY HeadTailProperties, LenProperties, EmptySeq
<1>2. \A i \in 1 .. Len(t) : i \in Kept(t, c) <=> i = 1 \/ i - 1 \in Kept(u, c)
  <2>1. ((c \/ t[1][1] = "/*") /\ t[1][1] # "*/") = c
    OBVIOUS
  <2>2. \A i \in 1 .. Len(t) :
           i \in Kept(t, c)
              <=> IF i = 1 THEN ~c /\ t[1][1] # "/*"
                  ELSE i - 1 \in Kept(u, (c \/ t[1][1] = "/*") /\ t[1][1] # "*/")
    BY KeptTail
  <2>3. 0 \notin Kept(u, c)
    BY DEF Kept
  <2> HIDE DEF u
  <2> QED BY <2>1, <2>2, <2>3
<1>b. \A i \in 1 .. Len(t) - 1 : i + 1 \in Kept(t, c) <=> i \in Kept(u, c)
  <2>1. ((c \/ t[1][1] = "/*") /\ t[1][1] # "*/") = c
    OBVIOUS
  <2>2. \A i \in 1 .. Len(t) - 1 :
           i + 1 \in Kept(t, c)
              <=> i \in Kept(u, (c \/ t[1][1] = "/*") /\ t[1][1] # "*/")
    BY KeptNext
  <2> HIDE DEF u
  <2> QED BY <2>1, <2>2
<1>3. Kept(t, c) \subseteq 1 .. Len(t) /\ Kept(u, c) \subseteq 1 .. Len(t) - 1
  BY <1>1 DEF Kept
<1> HIDE DEF u, L
<1>4. PICK f \in [N -> Kept(t, c)] :
         /\ \A m, n \in N : m < n => f[m] < f[n]
         /\ \A i \in Kept(t, c) : \E n \in N : f[n] = i
         /\ \A n \in N : r[n] = t[f[n]]
  BY DEF ToScan, L
<1>n. /\ \A n \in N : f[n] \in 1 .. Len(t)
      /\ \A n \in N : n \in Nat /\ n >= D + 1 /\ n <= L
      /\ \A n \in Nat : n >= D + 1 /\ n <= L => n \in N
      /\ \A n \in M : n \in N /\ n # D + 1
      /\ \A n \in N : n # D + 1 => n \in M
  <2>1. \A n \in N : f[n] \in 1 .. Len(t)
    <3> HIDE DEF N
    <3> QED BY <1>3, <1>4
  <2>2. /\ \A n \in N : n \in Nat /\ n >= D + 1 /\ n <= L
        /\ \A n \in Nat : n >= D + 1 /\ n <= L => n \in N
    BY <1>1
  <2>3. /\ \A n \in M : n \in N /\ n # D + 1
        /\ \A n \in N : n # D + 1 => n \in M
    BY <1>1
  <2> QED BY <2>1, <2>2, <2>3
<1> HIDE DEF N, M
<1>5. 1 \in Kept(t, c)
  <2>1. 1 \in 1 .. Len(t)
    BY <1>1
  <2> QED BY <1>2, <2>1
<1>6. D + 1 \in N /\ f[D + 1] = 1
  <2>1. PICK n \in N : f[n] = 1
    BY <1>4, <1>5
  <2>2. D + 1 \in N
    BY <1>1, <1>n, <2>1
  <2>3. ASSUME D + 1 # n PROVE FALSE
    <3>1. D + 1 < n
      BY <1>n, <2>1, <2>3
    <3>2. f[D + 1] < 1 /\ f[D + 1] \in 1 .. Len(t)
      BY <1>4, <1>n, <2>1, <2>2, <3>1
    <3> QED BY <1>1, <3>2
  <2> QED BY <2>1, <2>2, <2>3
<1>7. D + 1 \in 0 .. L /\ r[D + 1] = t[1]
  BY <1>1, <1>4, <1>6, <1>n
<1> DEFINE g == [n \in M |-> f[n] - 1]
<1>8. ASSUME NEW n \in M
      PROVE  /\ n \in N /\ f[n] \in 2 .. Len(t) /\ f[n] - 1 \in Kept(u, c)
             /\ f[n] \in Int /\ g[n] = f[n] - 1
  <2>1. n \in N /\ n # D + 1
    BY <1>n, <1>8
  <2>2. D + 1 < n
    BY <1>n, <2>1
  <2>3. 1 < f[n] /\ f[n] \in 1 .. Len(t) /\ f[n] \in Kept(t, c)
    BY <1>4, <1>6, <1>n, <2>1, <2>2
  <2>4. f[n] \in 2 .. Len(t) /\ f[n] # 1 /\ f[n] \in Int
    BY <1>1, <2>3
  <2>5. f[n] - 1 \in Kept(u, c)
    BY <1>2, <2>3, <2>4
  <2>6. g[n] = f[n] - 1
    BY <1>8
  <2> QED BY <2>1, <2>4, <2>5, <2>6
<1>9. g \in [M -> Kept(u, c)]
  BY <1>8
<1>10. \A m, n \in M : m < n => g[m] < g[n]
  <2> HIDE DEF g
  <2>1. ASSUME NEW m \in M, NEW n \in M, m < n PROVE g[m] < g[n]
    <3>1. f[m] < f[n]
      BY <1>4, <1>8, <2>1
    <3>2. f[m] \in Int /\ f[n] \in Int /\ g[m] = f[m] - 1 /\ g[n] = f[n] - 1
      BY <1>8, <2>1
    <3> QED BY <3>1, <3>2
  <2> QED BY <2>1
<1>11. \A n \in M : r[n] = u[g[n]]
  <2>1. \A k \in 1 .. Len(t) - 1 : u[k] = t[k + 1]
    BY <1>1, HeadTailProperties DEF u
  <2>2. ASSUME NEW n \in M PROVE r[n] = u[g[n]]
    <3> HIDE DEF g
    <3>1. n \in N /\ f[n] \in 2 .. Len(t) /\ g[n] = f[n] - 1
      BY <1>8, <2>2
    <3>2. f[n] - 1 \in 1 .. Len(t) - 1 /\ f[n] - 1 + 1 = f[n]
      BY <1>1, <3>1
    <3> QED BY <1>4, <2>1, <3>1, <3>2
  <2> QED BY <2>2
<1> HIDE DEF g
<1>12. ASSUME NEW i \in Kept(u, c) PROVE \E n \in M : g[n] = i
  <2>1. i \in 1 .. Len(t) - 1 /\ i \in Int /\ i >= 1
    BY <1>3, <1>12
  <2>2. i + 1 \in Kept(t, c)
    BY <1>b, <1>12, <2>1
  <2>3. PICK n \in N : f[n] = i + 1
    BY <1>4, <2>2
  <2>4. n # D + 1
    BY <1>6, <2>1, <2>3
  <2>5. n \in M
    BY <1>n, <2>3, <2>4
  <2>6. g[n] = i
    <3>1. g[n] = f[n] - 1
      BY <1>8, <2>5
    <3> QED BY <2>1, <2>3, <3>1
  <2> QED BY <2>5, <2>6
<1>13. ToScan(r, u, c, D + 1)
  BY <1>9, <1>10, <1>11, <1>12 DEF ToScan, M, L
<1> QED BY <1>7, <1>13 DEF u, L

(* At the end of the text all that was read has been parsed.               *)
LEMMA ToScanEnds ==
    ASSUME NEW R, NEW r \in Seq(R), NEW D \in 0 .. Len(r), NEW c, ToScan(r, <<>>, c, D)
    PROVE  D = Len(r)
<1>1. Kept(<<>>, c) = {}
  BY DEF Kept
<1>2. PICK f \in [D + 1 .. Len(r) -> Kept(<<>>, c)] : TRUE
  BY DEF ToScan
<1>3. \A n : n \notin D + 1 .. Len(r)
  BY <1>1, <1>2
<1>4. Len(r) \in Nat
  OBVIOUS
<1> QED
  <2> SUFFICES ASSUME D # Len(r) PROVE FALSE
    OBVIOUS
  <2>1. D + 1 \in D + 1 .. Len(r)
    BY <1>4
  <2> QED BY <1>3, <2>1

(* Uncommented(t) has the kept lexemes of t in their order.                *)
LEMMA UncommentedOrder ==
    ASSUME NEW S, NEW t \in Seq(S)
    PROVE  /\ Uncommented(t) \in Seq(S)
           /\ \E f \in [1 .. Len(Uncommented(t)) -> Kept(t, FALSE)] :
                 /\ \A m, n \in 1 .. Len(Uncommented(t)) : m < n => f[m] < f[n]
                 /\ \A i \in Kept(t, FALSE) : \E n \in 1 .. Len(Uncommented(t)) : f[n] = i
                 /\ \A n \in 1 .. Len(Uncommented(t)) : Uncommented(t)[n] = t[f[n]]
<1> DEFINE K == {i \in DOMAIN t : ~InComment(t, i)}
           N == Cardinality(K)
           Upto(i) == {j \in K : j <= i}
<1>1. Len(t) \in Nat /\ DOMAIN t = 1 .. Len(t)
  OBVIOUS
<1>2. Kept(t, FALSE) = K
  BY <1>1 DEF Kept
<1>3. K \subseteq 1 .. Len(t) /\ K \in SUBSET Nat
  BY <1>1
<1>4. IsFiniteSet(K) /\ N \in Nat
  <2> HIDE DEF K
  <2>1. IsFiniteSet(1 .. Len(t))
    BY <1>1, FS_Interval
  <2> QED BY <1>3, <2>1, FS_Subset, FS_CardinalityType
<1>5. Uncommented(t) = [n \in 1 .. N |-> t[CHOOSE i \in K : Cardinality(Upto(i)) = n]]
  BY Zenon DEF Uncommented
<1> HIDE DEF K
<1>6. PICK f \in [1 .. N -> K] : \A i, j \in DOMAIN f : i < j => f[i] < f[j]
  BY <1>3, <1>4, Sortable
<1>7. f \in Seq(K) /\ Len(f) = N /\ ToSet(f) = K
      /\ \A i, j \in 1 .. N : f[i] = f[j] => i = j
  BY <1>3, <1>4, <1>6, SortedComplete
<1>8. DOMAIN f = 1 .. N /\ \A i \in K : \E n \in 1 .. N : f[n] = i
  BY <1>7 DEF ToSet
<1>9. ASSUME NEW m \in 1 .. N PROVE Cardinality(Upto(f[m])) = m
  <2> DEFINE s == [x \in 1 .. m |-> f[x]]
  <2> HIDE DEF N
  <2>1. m \in Nat /\ m <= N /\ \A x \in 1 .. m : x \in 1 .. N
    BY <1>4, <1>9
  <2>2. s \in Seq(K) /\ Len(s) = m /\ \A x \in 1 .. m : s[x] = f[x]
    BY <1>6, <2>1
  <2>3. DOMAIN s = 1 .. m
    OBVIOUS
  <2> HIDE DEF s
  <2>4. \A i, j \in 1 .. m : s[i] = s[j] => i = j
    BY <1>7, <2>1, <2>2
  <2>5. Cardinality(ToSet(s)) = m
    BY <2>2, <2>4, DistinctElements
  <2>6. ToSet(s) = {s[x] : x \in 1 .. m}
    BY <2>3 DEF ToSet
  <2>7. ASSUME NEW i \in ToSet(s) PROVE i \in K /\ i <= f[m]
    <3>1. PICK x \in 1 .. m : i = f[x]
      BY <2>2, <2>6, <2>7
    <3>2. x \in 1 .. N /\ (x < m \/ x = m)
      BY <2>1
    <3>3. f[x] \in Nat /\ f[x] \in K /\ f[m] \in Nat
      BY <1>3, <1>6, <1>9, <3>2
    <3> QED BY <1>6, <1>8, <1>9, <3>1, <3>2, <3>3
  <2>8. ASSUME NEW i \in K, i <= f[m] PROVE i \in ToSet(s)
    <3>1. PICK x \in 1 .. N : f[x] = i
      BY <1>8, <2>8
    <3>2. f[x] \in Nat /\ f[m] \in Nat
      BY <1>3, <1>6, <1>9
    <3>3. ~(m < x)
      BY <1>6, <1>8, <1>9, <2>8, <3>1, <3>2
    <3>4. x \in 1 .. m
      BY <2>1, <3>3
    <3> QED BY <2>2, <2>6, <3>1, <3>4
  <2>9. ToSet(s) = Upto(f[m])
    BY <2>7, <2>8
  <2> QED BY <2>5, <2>9
<1> HIDE DEF Upto, N
<1>10. ASSUME NEW m \in 1 .. N
       PROVE  (CHOOSE i \in K : Cardinality(Upto(i)) = m) = f[m]
  <2>1. f[m] \in K /\ Cardinality(Upto(f[m])) = m
    BY <1>6, <1>9, <1>10
  <2>2. ASSUME NEW i \in K, Cardinality(Upto(i)) = m PROVE i = f[m]
    <3>1. PICK x \in 1 .. N : f[x] = i
      BY <1>8, <2>2
    <3>2. Cardinality(Upto(f[x])) = x
      BY <1>9
    <3> QED BY <2>2, <3>1, <3>2
  <2> QED BY <2>1, <2>2
<1>11. /\ Uncommented(t) = [n \in 1 .. N |-> t[f[n]]]
  BY <1>5, <1>10
<1>12. \A n \in 1 .. N : f[n] \in 1 .. Len(t) /\ t[f[n]] \in S
  <2>1. \A i \in 1 .. Len(t) : t[i] \in S
    OBVIOUS
  <2> QED BY <1>3, <1>6, <2>1
<1>13. Uncommented(t) \in Seq(S) /\ Len(Uncommented(t)) = N
       /\ \A n \in 1 .. N : Uncommented(t)[n] = t[f[n]]
  BY <1>4, <1>11, <1>12
<1> QED BY <1>2, <1>6, <1>8, <1>13

(* Parse adds to what was read all that the scanner will find in the text. *)
LEMMA ToScanStarts ==
    ASSUME NEW S, NEW t \in Seq(S), NEW r \in Seq(S)
    PROVE  /\ r \o Uncommented(t) \in Seq(S)
           /\ Len(r) \in 0 .. Len(r \o Uncommented(t))
           /\ \A n \in 1 .. Len(r) : (r \o Uncommented(t))[n] = r[n]
           /\ ToScan(r \o Uncommented(t), t, FALSE, Len(r))
<1> DEFINE U == Uncommented(t)
           q == r \o U
           L == Len(r)
           M == Len(U)
           K == Kept(t, FALSE)
<1>1. U \in Seq(S) /\ L \in Nat /\ M \in Nat
  BY UncommentedOrder, LenProperties
<1>2. PICK f \in [1 .. M -> K] :
         /\ \A m, n \in 1 .. M : m < n => f[m] < f[n]
         /\ \A i \in K : \E n \in 1 .. M : f[n] = i
         /\ \A n \in 1 .. M : U[n] = t[f[n]]
  BY UncommentedOrder
<1> HIDE DEF U, K
<1>3. /\ q \in Seq(S) /\ Len(q) = L + M
      /\ \A n \in 1 .. L + M : q[n] = IF n <= L THEN r[n] ELSE U[n - L]
  BY <1>1, ConcatProperties
<1> HIDE DEF q, L, M
<1>4. L \in 0 .. Len(q) /\ \A n \in 1 .. L : q[n] = r[n]
  BY <1>1, <1>3
<1> DEFINE P == L + 1 .. L + M
           g == [n \in P |-> f[n - L]]
<1>5. ASSUME NEW n \in P
      PROVE  n - L \in 1 .. M /\ n \in Int /\ g[n] = f[n - L] /\ q[n] = U[n - L]
  <2>1. n - L \in 1 .. M /\ n \in Int /\ n \in 1 .. L + M /\ ~(n <= L)
    BY <1>1
  <2> QED BY <1>3, <1>5, <2>1
<1>6. \A n \in 1 .. M : n + L \in P /\ n + L - L = n
  BY <1>1
<1> HIDE DEF P
<1>7. g \in [P -> K]
  BY <1>2, <1>5
<1> HIDE DEF g
<1>8. ASSUME NEW m \in P, NEW n \in P, m < n PROVE g[m] < g[n]
  <2>1. m - L < n - L
    BY <1>1, <1>5, <1>8
  <2> QED BY <1>2, <1>5, <1>8, <2>1
<1>9. ASSUME NEW i \in K PROVE \E n \in P : g[n] = i
  <2>1. PICK n \in 1 .. M : f[n] = i
    BY <1>2, <1>9
  <2>2. n + L \in P /\ n + L - L = n
    BY <1>6
  <2>3. g[n + L] = f[n]
    <3>1. g[n + L] = f[(n + L) - L]
      BY <1>5, <2>2
    <3>2. (n + L) - L = n
      BY <1>1, <2>1
    <3> QED BY <3>1, <3>2, Zenon
  <2> QED BY <2>1, <2>2, <2>3
<1>10. ASSUME NEW n \in P PROVE q[n] = t[g[n]]
  BY <1>2, <1>5, <1>10
<1>11. ToScan(q, t, FALSE, L)
  <2>1. P = L + 1 .. Len(q)
    BY <1>3 DEF P
  <2> QED BY <1>7, <1>8, <1>9, <1>10, <2>1 DEF ToScan, K
<1> QED BY <1>3, <1>4, <1>11 DEF q, U, L

(* Identifiers with different names are different.                         *)
LEMMA SameName ==
    ASSUME NEW s, NEW q, <<"id", <<s>>>> = <<"id", <<q>>>>
    PROVE  s = q
<1>1. <<"id", <<s>>>>[2] = <<s>> /\ <<"id", <<q>>>>[2] = <<q>>
  OBVIOUS
<1>2. <<s>> = <<q>>
  BY <1>1
<1>3. <<s>>[1] = s /\ <<q>>[1] = q
  OBVIOUS
<1> QED BY <1>2, <1>3

(* A position is in one section.                                           *)
LEMMA OneSection ==
    ASSUME NEW r, NEW i \in Int, NEW s, NEW q, InSect(r, s, i), InSect(r, q, i)
    PROVE  s = q
<1>1. PICK j \in 1 .. i - 1 : /\ r[j] = <<"id", <<s>>>> /\ r[j + 1][1] = "{"
                              /\ \A m \in j + 2 .. i : r[m][1] # "{"
  BY DEF InSect
<1>2. PICK h \in 1 .. i - 1 : /\ r[h] = <<"id", <<q>>>> /\ r[h + 1][1] = "{"
                              /\ \A m \in h + 2 .. i : r[m][1] # "{"
  BY DEF InSect
<1>3. ~(j < h)
  <2>1. j < h => h + 1 \in j + 2 .. i
    OBVIOUS
  <2> QED BY <1>1, <1>2, <2>1
<1>4. ~(h < j)
  <2>1. h < j => j + 1 \in h + 2 .. i
    OBVIOUS
  <2> QED BY <1>1, <1>2, <2>1
<1>5. j = h
  BY <1>3, <1>4
<1>6. <<"id", <<s>>>> = <<"id", <<q>>>>
  BY <1>1, <1>2, <1>5, Zenon
<1> QED BY <1>6, SameName

(* What follows a position is in the section it is in, until a brace.      *)
LEMMA SectionGoesOn ==
    ASSUME NEW r, NEW i \in Nat, NEW s
    PROVE  /\ InSect(r, s, i) /\ r[i + 1][1] # "{" => InSect(r, s, i + 1)
           /\ i >= 1 /\ InSect(r, s, i) /\ r[i][1] # "{" => InSect(r, s, i - 1)
           /\ i >= 1 /\ r[i] = <<"id", <<s>>>> /\ r[i + 1][1] = "{" => InSect(r, s, i + 1)
<1>1. ASSUME InSect(r, s, i), r[i + 1][1] # "{" PROVE InSect(r, s, i + 1)
  <2>1. PICK j \in 1 .. i - 1 : /\ r[j] = <<"id", <<s>>>> /\ r[j + 1][1] = "{"
                                /\ \A m \in j + 2 .. i : r[m][1] # "{"
    BY <1>1 DEF InSect
  <2>2. j \in 1 .. (i + 1) - 1 /\ \A m \in j + 2 .. i + 1 : m \in j + 2 .. i \/ m = i + 1
    OBVIOUS
  <2> QED BY <1>1, <2>1, <2>2 DEF InSect
<1>2. ASSUME i >= 1, InSect(r, s, i), r[i][1] # "{" PROVE InSect(r, s, i - 1)
  <2>1. PICK j \in 1 .. i - 1 : /\ r[j] = <<"id", <<s>>>> /\ r[j + 1][1] = "{"
                                /\ \A m \in j + 2 .. i : r[m][1] # "{"
    BY <1>2 DEF InSect
  <2>2. j + 1 # i
    BY <1>2, <2>1
  <2>3. j \in 1 .. (i - 1) - 1 /\ \A m \in j + 2 .. i - 1 : m \in j + 2 .. i
    BY <2>2
  <2> QED BY <2>1, <2>3 DEF InSect
<1>3. ASSUME i >= 1, r[i] = <<"id", <<s>>>>, r[i + 1][1] = "{" PROVE InSect(r, s, i + 1)
  <2>1. i >= 1
    BY <1>3
  <2>2. i \in 1 .. (i + 1) - 1 /\ \A m \in i + 2 .. i + 1 : FALSE
    BY <2>1
  <2> QED BY <1>3, <2>2, Zenon DEF InSect
<1> QED BY <1>1, <1>2, <1>3

(* The last positions of D.                                                *)
LEMMA LastPositions ==
    ASSUME NEW D \in Nat
    PROVE  /\ D - 2 \in Int /\ (D - 2) + 1 = D - 1 /\ (D - 2) + 2 = D
           /\ (D - 1) + 1 = D /\ (D - 1) - 1 = D - 2
           /\ D >= 3 => D >= 1 /\ D - 1 \in Nat /\ D - 1 >= 1
           /\ D >= 3 /\ 1 .. (D - 2) - 1 # {} => D - 2 \in 2 .. D
           /\ D - 2 \in 2 .. D => D - 1 \in 1 .. D /\ D - 1 # D /\ D \in 1 .. D
           /\ \A i \in 2 .. (D + 1) - 3 : i <= D - 2
           /\ \A n \in 1 .. D + 1 : n # D + 1 => n \in 1 .. D
           /\ \A n \in 1 .. D : n # D + 1 /\ (n # D => n + 1 # D + 1)
OBVIOUS

(* One lexeme more completes at most one statement.                        *)
LEMMA StatementsNext ==
    ASSUME NEW r, NEW D \in Nat, NEW s, NEW k, NEW i
    PROVE  i \in Statements(r, s, k, D + 1)
              <=> \/ i \in Statements(r, s, k, D)
                  \/ /\ i = D - 2 /\ i \in 2 .. D
                     /\ r[i] = <<"id", <<k>>>> /\ r[i + 1][1] = "=" /\ InSect(r, s, i)
<1>1. i \in 2 .. (D + 1) - 3 <=> i \in 2 .. D - 3 \/ (i = D - 2 /\ i \in 2 .. D)
  OBVIOUS
<1> QED BY <1>1 DEF Statements

(* What the parser takes, but for the end of a statement, states nothing.  *)
LEMMA InForceStays ==
    ASSUME NEW r, NEW D \in Nat, NEW state, Regular(r, D, state), state # ";",
           NEW vals, NEW S, InForce(r, D, vals, S), NEW T, S \subseteq T
    PROVE  InForce(r, D + 1, vals, T)
<1>1. ASSUME NEW s \in Names, NEW k \in Names
      PROVE  Statements(r, s, k, D + 1) = Statements(r, s, k, D)
  <2>1. ASSUME D - 2 \in 2 .. D, r[(D - 2) + 1][1] = "=" PROVE FALSE
    <3>0. D - 2 \in 2 .. D
      BY <2>1
    <3>1. D - 1 \in 1 .. D /\ D - 1 # D /\ D \in 1 .. D /\ (D - 1) + 1 = D /\ (D - 2) + 1 = D - 1
      BY <3>0, LastPositions, Zenon
    <3>2. r[D - 1][1] = "="
      BY <2>1, <3>1, Zenon
    <3>3. r[(D - 1) + 1][1] = "value"
      BY <3>1, <3>2, Zenon DEF Regular
    <3>4. r[D][1] = "value"
      BY <3>1, <3>3, Zenon
    <3>5. state = ";"
      BY <3>1, <3>4, Zenon DEF Regular
    <3> QED BY <3>5
  <2>2. \A i : i \in Statements(r, s, k, D + 1) <=> i \in Statements(r, s, k, D)
    BY <2>1, StatementsNext
  <2> QED BY <2>2 DEF Statements
<1> QED BY <1>1 DEF InForce

(* The end of a statement puts it in force, in the place of what was.      *)
LEMMA InForceChanges ==
    ASSUME NEW r, NEW D \in Nat, NEW c \in Names, NEW k \in Names, NEW words,
           NEW S, AtHand(r, D, ";", c, k, words, S), words # Absent,
           NEW V, NEW vals \in [Names -> [Names -> V]], InForce(r, D, vals, S)
    PROVE  InForce(r, D + 1, [vals EXCEPT ![c][k] = words], S)
<1>1. /\ D >= 3 /\ r[D - 2] = <<"id", <<k>>>> /\ r[D - 1][1] = "="
      /\ r[D][1] = "value" /\ r[D][2] = words /\ InSect(r, c, D) /\ c \in S
  BY DEF AtHand
<1>2. InSect(r, c, D - 2) /\ D - 2 \in 2 .. D
  <2>0. D >= 3
    BY <1>1
  <2>1. /\ D - 1 \in Nat /\ D >= 1 /\ D - 1 >= 1
        /\ (D - 1) - 1 = D - 2 /\ D - 2 \in Int
    BY <2>0, LastPositions, Zenon
  <2>2. r[D][1] # "{" /\ r[D - 1][1] # "{"
    BY <1>1
  <2>3. InSect(r, c, D - 1)
    BY <1>1, <2>1, <2>2, SectionGoesOn, Zenon
  <2>4. InSect(r, c, (D - 1) - 1)
    BY <2>1, <2>2, <2>3, SectionGoesOn, Zenon
  <2>5. InSect(r, c, D - 2)
    BY <2>1, <2>4, Zenon
  <2>6. 1 .. (D - 2) - 1 # {}
    BY <2>5, Zenon DEF InSect
  <2>7. D - 2 \in 2 .. D
    BY <2>0, <2>6, LastPositions, Zenon
  <2> QED BY <2>5, <2>7
<1> DEFINE vals2 == [vals EXCEPT ![c][k] = words]
<1>3. \A s, n \in Names : vals2[s][n] = IF s = c /\ n = k THEN words ELSE vals[s][n]
  OBVIOUS
<1>4. /\ D - 2 \in Statements(r, c, k, D + 1)
      /\ \A i \in Statements(r, c, k, D + 1) : i <= D - 2
      /\ r[(D - 2) + 2][2] = words
  <2>1. (D - 2) + 1 = D - 1 /\ (D - 2) + 2 = D
    BY LastPositions, Zenon
  <2>2. D - 2 \in Statements(r, c, k, D + 1)
    BY <1>1, <1>2, <2>1, StatementsNext, Zenon
  <2>3. ASSUME NEW i \in Statements(r, c, k, D + 1) PROVE i <= D - 2
    <3>1. i \in 2 .. (D + 1) - 3
      BY Zenon DEF Statements
    <3> QED BY <3>1, LastPositions, Zenon
  <2>4. r[(D - 2) + 2][2] = words
    BY <1>1, <2>1, Zenon
  <2> QED BY <2>2, <2>3, <2>4
<1>5. ASSUME NEW s \in Names, NEW n \in Names, ~(s = c /\ n = k)
      PROVE  Statements(r, s, n, D + 1) = Statements(r, s, n, D)
  <2>1. ASSUME r[D - 2] = <<"id", <<n>>>>, InSect(r, s, D - 2) PROVE FALSE
    <3>1. <<"id", <<n>>>> = <<"id", <<k>>>>
      BY <1>1, <2>1, Zenon
    <3>2. n = k
      BY <3>1, SameName
    <3>3. D - 2 \in Int
      BY LastPositions, Zenon
    <3>4. s = c
      BY <1>2, <2>1, <3>3, OneSection, Zenon
    <3> QED BY <1>5, <3>2, <3>4
  <2>2. ASSUME NEW i
        PROVE  i \in Statements(r, s, n, D + 1) <=> i \in Statements(r, s, n, D)
    <3>1. ~(i = D - 2 /\ r[i] = <<"id", <<n>>>> /\ InSect(r, s, i))
      BY <2>1, Zenon
    <3>2. i \in Statements(r, s, n, D + 1)
             <=> \/ i \in Statements(r, s, n, D)
                 \/ /\ i = D - 2 /\ i \in 2 .. D
                    /\ r[i] = <<"id", <<n>>>> /\ r[i + 1][1] = "=" /\ InSect(r, s, i)
      BY StatementsNext
    <3> QED BY <3>1, <3>2, Zenon
  <2> QED BY <2>2 DEF Statements
<1> HIDE DEF vals2
<1>6. ASSUME NEW s \in Names, NEW n \in Names
      PROVE  \/ Statements(r, s, n, D + 1) = {} /\ vals2[s][n] = Absent
             \/ \E i \in Statements(r, s, n, D + 1) :
                   /\ \A j \in Statements(r, s, n, D + 1) : j <= i
                   /\ vals2[s][n] = r[i + 2][2] /\ vals2[s][n] # Absent
                   /\ s \in S
  <2>1. CASE s = c /\ n = k
    BY <1>1, <1>3, <1>4, <2>1
  <2>2. CASE ~(s = c /\ n = k)
    <3>1. vals2[s][n] = vals[s][n] /\ Statements(r, s, n, D + 1) = Statements(r, s, n, D)
      BY <1>3, <1>5, <2>2
    <3> QED BY <3>1 DEF InForce
  <2> QED BY <2>1, <2>2
<1>7. InForce(r, D + 1, vals2, S)
  BY <1>6 DEF InForce
<1> QED BY <1>7 DEF vals2

(* A token of the kind that is expected after a sign or a value.           *)
LEMMA RegularNext ==
    ASSUME NEW r, NEW D \in Nat, NEW state, NEW next, Regular(r, D, state),
           state = "value" => r[D + 1][1] = "value",
           state = ";" => r[D + 1][1] = ";",
           r[D + 1][1] = "=" => next = "value",
           r[D + 1][1] = "value" => next = ";"
    PROVE  Regular(r, D + 1, next)
<1>1. ASSUME NEW n \in 1 .. D + 1
      PROVE  /\ r[n][1] = "=" => IF n = D + 1 THEN next = "value" ELSE r[n + 1][1] = "value"
             /\ r[n][1] = "value" => IF n = D + 1 THEN next = ";" ELSE r[n + 1][1] = ";"
  <2>1. CASE n = D + 1
    BY <2>1
  <2>2. CASE n # D + 1
    <3>1. n \in 1 .. D
      BY <2>2, LastPositions, Zenon
    <3>2. CASE n = D
      BY <2>2, <3>1, <3>2 DEF Regular
    <3>3. CASE n # D
      BY <2>2, <3>1, <3>3 DEF Regular
    <3> QED BY <3>2, <3>3
  <2> QED BY <2>1, <2>2
<1> QED BY <1>1 DEF Regular

(* What the first D lexemes say does not depend on those that follow.      *)
LEMMA InForcePrefix ==
    ASSUME NEW r, NEW q, NEW D \in Nat, \A n \in 1 .. D : q[n] = r[n],
           NEW vals, NEW S, InForce(r, D, vals, S)
    PROVE  InForce(q, D, vals, S)
<1>1. ASSUME NEW i \in Nat, i <= D, NEW s PROVE InSect(r, s, i) <=> InSect(q, s, i)
  <2>1. \A j \in 1 .. i - 1 : j \in 1 .. D /\ j + 1 \in 1 .. D /\ \A m \in j + 2 .. i : m \in 1 .. D
    BY <1>1
  <2>2. \A j \in 1 .. i - 1 : q[j] = r[j] /\ q[j + 1] = r[j + 1]
                              /\ \A m \in j + 2 .. i : q[m] = r[m]
    BY <2>1, Zenon
  <2>3. ASSUME NEW j \in 1 .. i - 1
        PROVE  (/\ r[j] = <<"id", <<s>>>> /\ r[j + 1][1] = "{"
                /\ \A m \in j + 2 .. i : r[m][1] # "{")
                  <=> (/\ q[j] = <<"id", <<s>>>> /\ q[j + 1][1] = "{"
                       /\ \A m \in j + 2 .. i : q[m][1] # "{")
    <3>1. q[j] = r[j] /\ q[j + 1][1] = r[j + 1][1]
      BY <2>2, Zenon
    <3>2. \A m \in j + 2 .. i : q[m][1] = r[m][1]
      BY <2>2, Zenon
    <3> QED BY <3>1, <3>2, Zenon
  <2> QED BY <2>3, Zenon DEF InSect
<1>2. \A i \in 2 .. D - 3 : /\ i \in Nat /\ i <= D /\ i \in 1 .. D
                            /\ i + 1 \in 1 .. D /\ i + 2 \in 1 .. D
  OBVIOUS
<1>3. \A i \in 2 .. D - 3 : q[i] = r[i] /\ q[i + 1] = r[i + 1] /\ q[i + 2] = r[i + 2]
  BY <1>2, Zenon
<1>4. ASSUME NEW s, NEW k PROVE Statements(q, s, k, D) = Statements(r, s, k, D)
  <2>1. \A i \in 2 .. D - 3 : InSect(r, s, i) <=> InSect(q, s, i)
    BY <1>1, <1>2, Zenon
  <2>2. \A i : i \in Statements(q, s, k, D) <=> i \in Statements(r, s, k, D)
    BY <1>3, <2>1, Zenon DEF Statements
  <2> QED BY <2>2, Zenon DEF Statements
<1>5. \A s, k : \A i \in Statements(r, s, k, D) : q[i + 2][2] = r[i + 2][2]
  BY <1>3, Zenon DEF Statements
<1>6. ASSUME NEW s \in Names, NEW k \in Names
      PROVE  \/ Statements(q, s, k, D) = {} /\ vals[s][k] = Absent
             \/ \E i \in Statements(q, s, k, D) :
                   /\ \A j \in Statements(q, s, k, D) : j <= i
                   /\ vals[s][k] = q[i + 2][2] /\ vals[s][k] # Absent
                   /\ s \in S
  <2>1. Statements(q, s, k, D) = Statements(r, s, k, D)
    BY <1>4
  <2>2. CASE Statements(r, s, k, D) = {} /\ vals[s][k] = Absent
    BY <2>1, <2>2, Zenon
  <2>3. ASSUME NEW i \in Statements(r, s, k, D),
               \A j \in Statements(r, s, k, D) : j <= i,
               vals[s][k] = r[i + 2][2], vals[s][k] # Absent, s \in S
        PROVE  \E h \in Statements(q, s, k, D) :
                   /\ \A j \in Statements(q, s, k, D) : j <= h
                   /\ vals[s][k] = q[h + 2][2] /\ vals[s][k] # Absent
                   /\ s \in S
    <3>1. q[i + 2][2] = r[i + 2][2]
      BY <1>5, <2>3, Zenon
    <3> QED BY <2>1, <2>3, <3>1, Zenon
  <2> QED BY <2>2, <2>3, Zenon DEF InForce
<1> QED BY <1>6, Zenon DEF InForce

(* A text begins with a lexeme.                                            *)
LEMMA FirstLexeme ==
    ASSUME NEW S, NEW t \in Seq(S), t # <<>>
    PROVE  t[1] \in S /\ Tail(t) \in Seq(S)
<1>1. Len(t) \in Nat /\ Len(t) >= 1
  BY LenProperties, EmptySeq
<1>2. DOMAIN t = 1 .. Len(t)
  OBVIOUS
<1> QED BY <1>1, <1>2, HeadTailProperties

(* Signs and values are followed by what Regular asks for.                 *)
Follows(state, kind, next) ==
    /\ kind # "/*"
    /\ state = "value" => kind = "value"
    /\ state = ";" => kind = ";"
    /\ kind = "=" => next = "value"
    /\ kind = "value" => next = ";"

(* Every action of the parser takes a token of which this is true.         *)
LEMMA Grammar ==
    /\ Follows("section", "id", "{") /\ Follows("{", "{", "statement")
    /\ Follows("statement", "}", "section") /\ Follows("statement", "id", "=")
    /\ Follows("=", "=", "value") /\ Follows("value", "value", ";")
    /\ Follows(";", ";", "statement")
BY DEF Follows

(* The next token is the next of what was read.                            *)
LEMMA TokenTaken ==
    ASSUME ConfigInv, ~unsuccessful, NEW state, NEW kind, NEW next,
           Takes(state, kind, next), Follows(state, kind, next),
           NEW D \in Nat, D \in 0 .. Len(read), Parsed(D)
    PROVE  /\ D \in Nat /\ D + 1 \in 0 .. Len(read)
           /\ read[D + 1] = text[1] /\ read[D + 1][1] = kind /\ text[1] \in Lexemes
           /\ ToScan(read, text', inComment, D + 1) /\ Regular(read, D + 1, next)
           /\ text' \in Seq(Lexemes) /\ expect = state /\ expect' = next
           /\ UNCHANGED <<unsuccessful, inComment, read>>
<1>1. /\ text \in Seq(Lexemes) /\ read \in Seq(Lexemes) /\ inComment \in BOOLEAN
      /\ text # <<>> /\ ~inComment /\ text[1][1] = kind /\ text' = Tail(text)
      /\ expect = state /\ expect' = next
      /\ UNCHANGED <<unsuccessful, inComment, read>>
  BY DEF ConfigInv, Takes, Lexeme
<1>2. ToScan(read, text, inComment, D) /\ Regular(read, D, state)
  BY <1>1 DEF Parsed
<1>3. text[1][1] # "/*"
  BY <1>1 DEF Follows
<1>4. /\ D + 1 \in 0 .. Len(read) /\ read[D + 1] = text[1]
      /\ ToScan(read, Tail(text), inComment, D + 1)
  BY <1>1, <1>2, <1>3, ToScanTakes
<1>5. read[D + 1][1] = kind
  BY <1>1, <1>4
<1>6. Regular(read, D + 1, next)
  <2>1. /\ state = "value" => read[D + 1][1] = "value"
        /\ state = ";" => read[D + 1][1] = ";"
        /\ read[D + 1][1] = "=" => next = "value"
        /\ read[D + 1][1] = "value" => next = ";"
    BY <1>5 DEF Follows
  <2> QED BY <1>2, <2>1, RegularNext, Zenon
<1>7. text[1] \in Lexemes /\ Tail(text) \in Seq(Lexemes)
  BY <1>1, FirstLexeme, Zenon
<1> QED BY <1>1, <1>4, <1>5, <1>6, <1>7

(* What an identifier says.                                                *)
LEMMA Identifier ==
    ASSUME NEW x \in Lexemes
    PROVE  /\ x[1] = "id" => x[2][1] \in Names /\ x = <<"id", <<x[2][1]>>>>
           /\ \A n : x = <<"id", <<n>>>> => n \in Names
<1>1. ASSUME x[1] = "id" PROVE \E n \in Names : x = <<"id", <<n>>>>
  BY <1>1, ConfigurationAssumption
<1>2. ASSUME NEW n, x = <<"id", <<n>>>> PROVE x[1] = "id" /\ x[2][1] = n
  <2>1. x[2] = <<n>> /\ x[1] = "id"
    BY <1>2
  <2>2. <<n>>[1] = n
    OBVIOUS
  <2> QED BY <2>1, <2>2
<1>3. ASSUME x[1] = "id" PROVE x[2][1] \in Names /\ x = <<"id", <<x[2][1]>>>>
  <2>1. PICK n \in Names : x = <<"id", <<n>>>>
    BY <1>1, <1>3, Zenon
  <2>2. x[2][1] = n
    BY <1>2, <2>1, Zenon
  <2> QED BY <2>1, <2>2, Zenon
<1>4. ASSUME NEW n, x = <<"id", <<n>>>> PROVE n \in Names
  BY <1>2, <1>3, <1>4, Zenon
<1> QED BY <1>3, <1>4, Zenon

(* A step that takes a token: what the invariant says of the next state.   *)
LEMMA TokenStep ==
    ASSUME ConfigInv, NEW D \in Nat, D + 1 \in 0 .. Len(read),
           UNCHANGED <<unsuccessful, inComment, read>>, text' \in Seq(Lexemes),
           expect' # "nothing", values' \in [Names -> [Names -> Storable]],
           ToScan(read, text', inComment, D + 1), Regular(read, D + 1, expect'),
           AtHand(read, D + 1, expect', csect', key', value', sections'),
           InForce(read, D + 1, values', sections')
    PROVE  ConfigInv'
<1>1. Parsed(D + 1)'
  BY Zenon DEF Parsed
<1>2. \E n \in 0 .. Len(read') : Parsed(n)'
  BY <1>1, Zenon
<1>3. read' \in Seq(Lexemes) /\ inComment' \in BOOLEAN
  BY Zenon DEF ConfigInv
<1> QED BY <1>2, <1>3, Zenon DEF ConfigInv

(* The name of a section is taken: it is at hand, and there from now on.   *)
LEMMA BeginSectionStep ==
    ASSUME ConfigInv, ~unsuccessful, NEW D \in Nat, D \in 0 .. Len(read), Parsed(D), BeginSection
    PROVE  ConfigInv'
<1>1. /\ Takes("section", "id", "{") /\ csect' = text[1][2][1]
      /\ sections' = sections \cup {csect'} /\ UNCHANGED values
  BY DEF BeginSection, Lexeme
<1>2. /\ D + 1 \in 0 .. Len(read) /\ read[D + 1] = text[1] /\ text[1][1] = "id"
      /\ text[1] \in Lexemes /\ ToScan(read, text', inComment, D + 1)
      /\ Regular(read, D + 1, "{") /\ text' \in Seq(Lexemes) /\ expect = "section"
      /\ expect' = "{" /\ UNCHANGED <<unsuccessful, inComment, read>>
  BY <1>1, Grammar, TokenTaken, Zenon
<1>3. Regular(read, D, "section") /\ InForce(read, D, values, sections)
      /\ values \in [Names -> [Names -> Storable]]
  BY <1>2 DEF ConfigInv, Parsed
<1>4. InForce(read, D + 1, values', sections')
  BY <1>1, <1>3, InForceStays
<1>5. text[1] = <<"id", <<csect'>>>>
  BY <1>1, <1>2, Identifier, Zenon
<1>6. AtHand(read, D + 1, "{", csect', key', value', sections')
  <2>1. D + 1 >= 1
    OBVIOUS
  <2> QED BY <1>1, <1>2, <1>5, <2>1 DEF AtHand
<1> QED BY <1>1, <1>2, <1>3, <1>4, <1>6, TokenStep

(* A brace is taken: the statements that follow are in the section, or     *)
(* none is at hand.                                                        *)
LEMMA BraceStep ==
    ASSUME ConfigInv, ~unsuccessful, NEW D \in Nat, D \in 0 .. Len(read), Parsed(D), Brace
    PROVE  ConfigInv'
<1>1. CASE Takes("{", "{", "statement")
  <2>1. /\ D + 1 \in 0 .. Len(read) /\ read[D + 1][1] = "{"
        /\ ToScan(read, text', inComment, D + 1)
        /\ Regular(read, D + 1, "statement") /\ text' \in Seq(Lexemes) /\ expect = "{"
        /\ expect' = "statement" /\ UNCHANGED <<unsuccessful, inComment, read>>
    BY <1>1, Grammar, TokenTaken, Zenon
  <2>2. UNCHANGED <<values, sections, csect, key, value>>
    BY DEF Brace
  <2>3. /\ Regular(read, D, "{") /\ InForce(read, D, values, sections)
        /\ values \in [Names -> [Names -> Storable]]
        /\ AtHand(read, D, "{", csect, key, value, sections)
    BY <2>1 DEF ConfigInv, Parsed
  <2>4. InForce(read, D + 1, values', sections')
    BY <2>2, <2>3, InForceStays
  <2>5. D >= 1 /\ read[D] = <<"id", <<csect>>>> /\ csect \in sections
    BY <2>3 DEF AtHand
  <2>6. InSect(read, csect, D + 1)
    BY <2>1, <2>5, SectionGoesOn
  <2>7. AtHand(read, D + 1, "statement", csect', key', value', sections')
    BY <2>2, <2>5, <2>6 DEF AtHand
  <2> QED BY <2>1, <2>2, <2>3, <2>4, <2>7, TokenStep
<1>2. CASE Takes("statement", "}", "section")
  <2>1. /\ D + 1 \in 0 .. Len(read) /\ ToScan(read, text', inComment, D + 1)
        /\ Regular(read, D + 1, "section") /\ text' \in Seq(Lexemes) /\ expect = "statement"
        /\ expect' = "section" /\ UNCHANGED <<unsuccessful, inComment, read>>
    BY <1>2, Grammar, TokenTaken, Zenon
  <2>2. UNCHANGED <<values, sections, csect, key, value>>
    BY DEF Brace
  <2>3. /\ Regular(read, D, "statement") /\ InForce(read, D, values, sections)
        /\ values \in [Names -> [Names -> Storable]]
    BY <2>1 DEF ConfigInv, Parsed
  <2>4. InForce(read, D + 1, values', sections')
    BY <2>2, <2>3, InForceStays
  <2>5. AtHand(read, D + 1, "section", csect', key', value', sections')
    BY DEF AtHand
  <2> QED BY <2>1, <2>2, <2>3, <2>4, <2>5, TokenStep
<1> QED BY <1>1, <1>2 DEF Brace

(* The key of a statement is taken.                                        *)
LEMMA KeyStep ==
    ASSUME ConfigInv, ~unsuccessful, NEW D \in Nat, D \in 0 .. Len(read), Parsed(D), Key
    PROVE  ConfigInv'
<1>1. /\ Takes("statement", "id", "=") /\ key' = text[1][2][1]
      /\ UNCHANGED <<values, sections, csect, value>>
  BY DEF Key, Lexeme
<1>2. /\ D + 1 \in 0 .. Len(read) /\ read[D + 1] = text[1] /\ read[D + 1][1] = "id"
      /\ text[1] \in Lexemes /\ ToScan(read, text', inComment, D + 1)
      /\ Regular(read, D + 1, "=") /\ text' \in Seq(Lexemes) /\ expect = "statement"
      /\ expect' = "=" /\ UNCHANGED <<unsuccessful, inComment, read>>
  BY <1>1, Grammar, TokenTaken, Zenon
<1>3. /\ Regular(read, D, "statement") /\ InForce(read, D, values, sections)
      /\ values \in [Names -> [Names -> Storable]]
      /\ AtHand(read, D, "statement", csect, key, value, sections)
  BY <1>2 DEF ConfigInv, Parsed
<1>4. InForce(read, D + 1, values', sections')
  BY <1>1, <1>3, InForceStays
<1>5. text[1] = <<"id", <<key'>>>>
  BY <1>1, <1>2, Identifier, Zenon
<1>6. InSect(read, csect, D + 1) /\ csect \in sections
  <2>1. InSect(read, csect, D) /\ csect \in sections
    BY <1>3 DEF AtHand
  <2>2. read[D + 1][1] # "{"
    BY <1>2
  <2> QED BY <2>1, <2>2, SectionGoesOn
<1>7. AtHand(read, D + 1, "=", csect', key', value', sections')
  <2>1. D + 1 >= 1
    OBVIOUS
  <2> QED BY <1>1, <1>2, <1>5, <1>6, <2>1 DEF AtHand
<1> QED BY <1>1, <1>2, <1>3, <1>4, <1>7, TokenStep

(* The sign after the key is taken.                                        *)
LEMMA EqualsStep ==
    ASSUME ConfigInv, ~unsuccessful, NEW D \in Nat, D \in 0 .. Len(read), Parsed(D), Equals
    PROVE  ConfigInv'
<1>1. Takes("=", "=", "value") /\ UNCHANGED <<values, sections, csect, key, value>>
  BY DEF Equals
<1>2. /\ D + 1 \in 0 .. Len(read) /\ read[D + 1][1] = "="
      /\ ToScan(read, text', inComment, D + 1)
      /\ Regular(read, D + 1, "value") /\ text' \in Seq(Lexemes) /\ expect = "="
      /\ expect' = "value" /\ UNCHANGED <<unsuccessful, inComment, read>>
  BY <1>1, Grammar, TokenTaken, Zenon
<1>3. /\ Regular(read, D, "=") /\ InForce(read, D, values, sections)
      /\ values \in [Names -> [Names -> Storable]]
      /\ AtHand(read, D, "=", csect, key, value, sections)
  BY <1>2 DEF ConfigInv, Parsed
<1>4. InForce(read, D + 1, values', sections')
  BY <1>1, <1>3, InForceStays
<1>5. /\ InSect(read, csect, D) /\ csect \in sections
      /\ D >= 1 /\ read[D] = <<"id", <<key>>>>
  BY <1>3 DEF AtHand
<1>6. InSect(read, csect, D + 1)
  <2>1. read[D + 1][1] # "{"
    BY <1>2
  <2> QED BY <1>5, <2>1, SectionGoesOn
<1>7. AtHand(read, D + 1, "value", csect', key', value', sections')
  <2>1. D >= 1
    BY <1>5
  <2>2. D + 1 >= 2 /\ (D + 1) - 1 = D
    BY <2>1
  <2>3. read[(D + 1) - 1] = <<"id", <<key>>>>
    BY <1>5, <2>2, Zenon
  <2> QED BY <1>1, <1>2, <1>5, <1>6, <2>2, <2>3 DEF AtHand
<1> QED BY <1>1, <1>2, <1>3, <1>4, <1>7, TokenStep

(* The value of the statement is taken.                                    *)
LEMMA ValueStep ==
    ASSUME ConfigInv, ~unsuccessful, NEW D \in Nat, D \in 0 .. Len(read), Parsed(D), Value
    PROVE  ConfigInv'
<1>1. /\ Takes("value", "value", ";") /\ value' = text[1][2]
      /\ UNCHANGED <<values, sections, csect, key>>
  BY DEF Value, Lexeme
<1>2. /\ D + 1 \in 0 .. Len(read) /\ read[D + 1] = text[1] /\ read[D + 1][1] = "value"
      /\ ToScan(read, text', inComment, D + 1)
      /\ Regular(read, D + 1, ";") /\ text' \in Seq(Lexemes) /\ expect = "value"
      /\ expect' = ";" /\ UNCHANGED <<unsuccessful, inComment, read>>
  BY <1>1, Grammar, TokenTaken, Zenon
<1>3. /\ Regular(read, D, "value") /\ InForce(read, D, values, sections)
      /\ values \in [Names -> [Names -> Storable]]
      /\ AtHand(read, D, "value", csect, key, value, sections)
  BY <1>2 DEF ConfigInv, Parsed
<1>4. InForce(read, D + 1, values', sections')
  BY <1>1, <1>3, InForceStays
<1>5. /\ InSect(read, csect, D) /\ csect \in sections
      /\ D >= 2 /\ read[D - 1] = <<"id", <<key>>>> /\ read[D][1] = "="
  BY <1>3 DEF AtHand
<1>6. InSect(read, csect, D + 1)
  <2>1. read[D + 1][1] # "{"
    BY <1>2
  <2> QED BY <1>5, <2>1, SectionGoesOn
<1>7. AtHand(read, D + 1, ";", csect', key', value', sections')
  <2>1. D >= 2
    BY <1>5
  <2>2. D + 1 >= 3 /\ (D + 1) - 1 = D /\ (D + 1) - 2 = D - 1
    BY <2>1
  <2>3. read[(D + 1) - 2] = <<"id", <<key>>>> /\ read[(D + 1) - 1][1] = "="
    BY <1>5, <2>2, Zenon
  <2>4. read[D + 1][2] = value'
    BY <1>1, <1>2, Zenon
  <2> QED BY <1>1, <1>2, <1>5, <1>6, <2>2, <2>3, <2>4 DEF AtHand
<1> QED BY <1>1, <1>2, <1>3, <1>4, <1>7, TokenStep

(* The statement ends: it is the last one read of its key, and stored.     *)
LEMMA EndStatementStep ==
    ASSUME ConfigInv, ~unsuccessful, NEW D \in Nat, D \in 0 .. Len(read), Parsed(D), EndStatement
    PROVE  ConfigInv'
<1>1. /\ Takes(";", ";", "statement") /\ values' = [values EXCEPT ![csect][key] = value]
      /\ UNCHANGED <<sections, csect, key, value>>
  BY DEF EndStatement
<1>2. /\ D + 1 \in 0 .. Len(read) /\ read[D + 1][1] = ";"
      /\ ToScan(read, text', inComment, D + 1)
      /\ Regular(read, D + 1, "statement") /\ text' \in Seq(Lexemes) /\ expect = ";"
      /\ expect' = "statement" /\ UNCHANGED <<unsuccessful, inComment, read>>
  BY <1>1, Grammar, TokenTaken, Zenon
<1>3. /\ InForce(read, D, values, sections)
      /\ values \in [Names -> [Names -> Storable]]
      /\ AtHand(read, D, ";", csect, key, value, sections)
  BY <1>2 DEF ConfigInv, Parsed
<1>4. /\ InSect(read, csect, D) /\ csect \in sections /\ D >= 3
      /\ read[D - 2] = <<"id", <<key>>>> /\ read[D][1] = "value" /\ read[D][2] = value
  BY <1>3 DEF AtHand
<1>5. \A n \in 1 .. D : read[n] \in Lexemes
  <2>1. read \in Seq(Lexemes)
    BY DEF ConfigInv
  <2> QED BY <2>1
<1>6. key \in Names /\ csect \in Names
  <2>1. D >= 3
    BY <1>4
  <2>2. D - 2 \in 1 .. D /\ D \in 1 .. D /\ \A j \in 1 .. D - 1 : j \in 1 .. D
    BY <2>1
  <2>3. key \in Names
    BY <1>4, <1>5, <2>2, Identifier, Zenon
  <2>4. PICK j \in 1 .. D - 1 : read[j] = <<"id", <<csect>>>>
    BY <1>4, Zenon DEF InSect
  <2>5. csect \in Names
    BY <1>5, <2>2, <2>4, Identifier, Zenon
  <2> QED BY <2>3, <2>5
<1>7. value \in Storable /\ value # Absent
  <2>1. D >= 3
    BY <1>4
  <2>2. D \in 1 .. D
    BY <2>1
  <2>3. read[D] \in Lexemes
    BY <1>5, <2>2
  <2> QED BY <1>4, <2>3, ConfigurationAssumption, Zenon DEF Storable
<1>8. InForce(read, D + 1, values', sections')
  BY <1>1, <1>3, <1>6, <1>7, InForceChanges, Zenon
<1>9. values' \in [Names -> [Names -> Storable]]
  BY <1>1, <1>3, <1>6, <1>7
<1>10. AtHand(read, D + 1, "statement", csect', key', value', sections')
  <2>1. read[D + 1][1] # "{"
    BY <1>2
  <2>2. InSect(read, csect, D + 1)
    BY <1>4, <2>1, SectionGoesOn
  <2> QED BY <1>1, <1>4, <2>2 DEF AtHand
<1> QED BY <1>2, <1>8, <1>9, <1>10, TokenStep

(* Parse: what was read before has been parsed to its end.                 *)
LEMMA ParseStep ==
    ASSUME ConfigInv, ~unsuccessful, NEW t \in Texts, Parse(t)
    PROVE  ConfigInv'
<1>1. /\ expect = "nothing" /\ text' = t /\ expect' = "section"
      /\ read' = read \o Uncommented(t)
      /\ UNCHANGED <<unsuccessful, values, sections, csect, inComment, key, value>>
  BY DEF Parse
<1>2. /\ read \in Seq(Lexemes) /\ text = <<>> /\ ~inComment /\ inComment \in BOOLEAN
      /\ values \in [Names -> [Names -> Storable]]
  BY <1>1 DEF ConfigInv
<1>3. PICK D \in 0 .. Len(read) : Parsed(D)
  BY DEF ConfigInv
<1>4. ToScan(read, <<>>, inComment, D) /\ Regular(read, D, "nothing")
      /\ InForce(read, D, values, sections)
  BY <1>1, <1>2, <1>3 DEF Parsed
<1>5. D = Len(read) /\ D \in Nat
  BY <1>2, <1>4, ToScanEnds
<1>6. t \in Seq(Lexemes)
  BY ConfigurationAssumption
<1>7. /\ read' \in Seq(Lexemes) /\ D \in 0 .. Len(read')
      /\ \A n \in 1 .. D : read'[n] = read[n]
      /\ ToScan(read', t, FALSE, D)
  BY <1>1, <1>2, <1>5, <1>6, ToScanStarts, Zenon
<1>8. ToScan(read', text', inComment', D)
  BY <1>1, <1>2, <1>7
<1>9. InForce(read', D, values', sections')
  <2>1. InForce(read', D, values, sections)
    BY <1>4, <1>5, <1>7, InForcePrefix, Zenon
  <2> QED BY <1>1, <2>1
<1>10. Regular(read', D, "section")
  <2>1. ASSUME NEW n \in 1 .. D
        PROVE  /\ read'[n][1] = "=" => IF n = D THEN "section" = "value" ELSE read'[n + 1][1] = "value"
               /\ read'[n][1] = "value" => IF n = D THEN "section" = ";" ELSE read'[n + 1][1] = ";"
    <3>1. n # D => n + 1 \in 1 .. D
      BY <1>5
    <3>2. read'[n] = read[n] /\ (n # D => read'[n + 1] = read[n + 1])
      BY <1>7, <3>1, Zenon
    <3>3. /\ read[n][1] = "=" => IF n = D THEN "nothing" = "value" ELSE read[n + 1][1] = "value"
          /\ read[n][1] = "value" => IF n = D THEN "nothing" = ";" ELSE read[n + 1][1] = ";"
      BY <1>4, Zenon DEF Regular
    <3>4. CASE n = D
      BY <3>2, <3>3, <3>4
    <3>5. CASE n # D
      BY <3>2, <3>3, <3>5
    <3> QED BY <3>4, <3>5
  <2> QED BY <2>1, Zenon DEF Regular
<1>11. AtHand(read', D, "section", csect', key', value', sections')
  BY DEF AtHand
<1>12. Parsed(D)'
  BY <1>1, <1>8, <1>9, <1>10, <1>11 DEF Parsed
<1>13. text' \in Seq(Lexemes) /\ inComment' \in BOOLEAN /\ expect' # "nothing"
       /\ values' \in [Names -> [Names -> Storable]]
  BY <1>1, <1>2, <1>6
<1> QED BY <1>7, <1>12, <1>13, Zenon DEF ConfigInv

(* A lexeme of a comment, or the first of one, is none of what was read.   *)
LEMMA ScanCommentStep ==
    ASSUME ConfigInv, ~unsuccessful, ScanComment
    PROVE  ConfigInv'
<1>1. /\ expect # "nothing" /\ text # <<>> /\ (inComment \/ text[1][1] = "/*")
      /\ inComment' = (text[1][1] # "*/") /\ text' = Tail(text)
      /\ UNCHANGED <<unsuccessful, values, sections, csect, expect, key, value, read>>
  BY DEF ScanComment, Scanning, Lexeme
<1>2. /\ read \in Seq(Lexemes) /\ text \in Seq(Lexemes) /\ inComment \in BOOLEAN
      /\ values \in [Names -> [Names -> Storable]]
  BY DEF ConfigInv
<1>3. PICK D \in 0 .. Len(read) : Parsed(D)
  BY DEF ConfigInv
<1>4. ToScan(read, Tail(text), text[1][1] # "*/", D)
  BY <1>1, <1>2, <1>3, ToScanSkips, Zenon DEF Parsed
<1>5. ToScan(read', text', inComment', D)
  BY <1>1, <1>4
<1>6. /\ Regular(read', D, expect') /\ InForce(read', D, values', sections')
      /\ AtHand(read', D, expect', csect', key', value', sections')
  BY <1>1, <1>3 DEF Parsed
<1>7. Parsed(D)' /\ D \in 0 .. Len(read')
  BY <1>1, <1>5, <1>6, Zenon DEF Parsed
<1>8. text' \in Seq(Lexemes)
  BY <1>1, <1>2, FirstLexeme, Zenon
<1>9. inComment' \in BOOLEAN
  BY <1>1
<1>10. read' \in Seq(Lexemes) /\ expect' # "nothing" /\ values' \in [Names -> [Names -> Storable]]
  BY <1>1, <1>2
<1> QED BY <1>7, <1>8, <1>9, <1>10, Zenon DEF ConfigInv

(* The end of the file is no error only between two sections.              *)
LEMMA ScanEndStep ==
    ASSUME ConfigInv, ~unsuccessful, ScanEnd
    PROVE  ConfigInv'
<1>1. /\ text = <<>> /\ unsuccessful' = (unsuccessful \/ inComment \/ expect # "section")
      /\ expect' = "nothing" /\ UNCHANGED <<values, sections, inComment, text, read>>
  BY DEF ScanEnd
<1>2. /\ read' \in Seq(Lexemes) /\ text' \in Seq(Lexemes) /\ inComment' \in BOOLEAN
      /\ values' \in [Names -> [Names -> Storable]]
  BY <1>1 DEF ConfigInv
<1>3. CASE unsuccessful'
  BY <1>2, <1>3 DEF ConfigInv
<1>4. CASE ~unsuccessful'
  <2>1. ~inComment /\ expect = "section" /\ text' = <<>> /\ ~inComment'
    BY <1>1, <1>4
  <2>2. PICK D \in 0 .. Len(read) : Parsed(D)
    BY DEF ConfigInv
  <2>3. ToScan(read', text', inComment', D) /\ InForce(read', D, values', sections')
    BY <1>1, <2>2 DEF Parsed
  <2>4. Regular(read', D, "nothing")
    <3>1. Regular(read, D, "section")
      BY <2>1, <2>2 DEF Parsed
    <3>2. Regular(read, D, "nothing")
      BY <3>1 DEF Regular
    <3> QED BY <1>1, <3>2
  <2>5. AtHand(read', D, "nothing", csect', key', value', sections')
    BY DEF AtHand
  <2>6. Parsed(D)'
    BY <1>1, <2>3, <2>4, <2>5 DEF Parsed
  <2>7. D \in 0 .. Len(read')
    BY <1>1
  <2> QED BY <1>2, <2>1, <2>6, <2>7, Zenon DEF ConfigInv
<1> QED BY <1>3, <1>4

(* After an error the invariant says only what the types are.              *)
LEMMA ErrorStep ==
    ASSUME ConfigInv, unsuccessful', [ConfigNext]_ConfigVars
    PROVE  ConfigInv'
<1>1. read \in Seq(Lexemes) /\ text \in Seq(Lexemes) /\ inComment \in BOOLEAN
  BY DEF ConfigInv
<1>2. text # <<>> => Tail(text) \in Seq(Lexemes)
  BY <1>1, FirstLexeme
<1>3. /\ <<>> \in Seq(Lexemes)
      /\ \A t \in Texts : t \in Seq(Lexemes) /\ read \o Uncommented(t) \in Seq(Lexemes)
  <2>1. \A t \in Texts : t \in Seq(Lexemes)
    BY ConfigurationAssumption
  <2>2. \A t \in Texts : read \o Uncommented(t) \in Seq(Lexemes)
    BY <1>1, <2>1, ToScanStarts, Zenon
  <2>3. <<>> \in Seq(Lexemes)
    OBVIOUS
  <2> QED BY <2>1, <2>2, <2>3
<1>4. /\ read' \in {read} \cup {read \o Uncommented(t) : t \in Texts}
      /\ text' \in {text, <<>>} \cup (IF text = <<>> THEN {} ELSE {Tail(text)}) \cup Texts
      /\ inComment' \in BOOLEAN
  BY <1>1 DEF ConfigNext, ConfigVars, Parse, CannotOpen, ScanComment, ScanUnknown, ScanEnd,
              BeginSection, Brace, Key, Equals, Value, EndStatement, SyntaxError, Takes
<1>5. read' \in Seq(Lexemes) /\ text' \in Seq(Lexemes)
  BY <1>1, <1>2, <1>3, <1>4
<1> QED BY <1>4, <1>5 DEF ConfigInv

(* A driver that was just constructed has read nothing.                    *)
LEMMA ConfigInitInv == ConfigInit => ConfigInv
<1> SUFFICES ASSUME ConfigInit PROVE ConfigInv
  OBVIOUS
<1>1. /\ unsuccessful = FALSE /\ inComment = FALSE
      /\ values = [s \in Names |-> [k \in Names |-> Absent]]
      /\ text = <<>> /\ expect = "nothing" /\ read = <<>>
  BY DEF ConfigInit
<1>2. values \in [Names -> [Names -> Storable]]
  BY <1>1 DEF Storable
<1>3. ToScan(<<>>, <<>>, FALSE, 0)
  <2>1. Len(<<>>) = 0 /\ Kept(<<>>, FALSE) = {}
    BY DEF Kept
  <2>2. 0 + 1 .. Len(<<>>) = {}
    BY <2>1
  <2>3. [n \in {} |-> 0] \in [{} -> {}]
    OBVIOUS
  <2> QED BY <2>1, <2>2, <2>3, Zenon DEF ToScan
<1>4. Regular(<<>>, 0, "nothing")
  <2>1. 1 .. 0 = {}
    OBVIOUS
  <2> QED BY <2>1, Zenon DEF Regular
<1>5. AtHand(read, 0, "nothing", csect, key, value, sections)
  BY DEF AtHand
<1>6. InForce(<<>>, 0, values, sections)
  <2>1. 2 .. 0 - 3 = {}
    OBVIOUS
  <2>2. \A s, k : Statements(<<>>, s, k, 0) = {}
    BY <2>1, Zenon DEF Statements
  <2>3. \A s, k \in Names : values[s][k] = Absent
    BY <1>1
  <2> QED BY <2>2, <2>3, Zenon DEF InForce
<1>7. Parsed(0)
  BY <1>1, <1>3, <1>4, <1>5, <1>6, Zenon DEF Parsed
<1>8. 0 \in 0 .. Len(read) /\ read \in Seq(Lexemes) /\ text \in Seq(Lexemes)
  BY <1>1
<1> QED BY <1>1, <1>2, <1>7, <1>8, Zenon DEF ConfigInv

(* No step of the driver, its scanner or its parser breaks the invariant.  *)
LEMMA ConfigInductive == ConfigInv /\ [ConfigNext]_ConfigVars => ConfigInv'
<1> SUFFICES ASSUME ConfigInv, [ConfigNext]_ConfigVars PROVE ConfigInv'
  OBVIOUS
<1>1. CASE unsuccessful'
  BY <1>1, ErrorStep
<1>2. CASE ~unsuccessful'
  <2>1. ~unsuccessful
    BY <1>2 DEF ConfigNext, ConfigVars, Parse, CannotOpen, ScanComment, ScanUnknown, ScanEnd,
                BeginSection, Brace, Key, Equals, Value, EndStatement, SyntaxError, Takes
  <2>2. PICK D \in 0 .. Len(read) : Parsed(D)
    BY <2>1 DEF ConfigInv
  <2>3. D \in Nat
    OBVIOUS
  <2>4. CASE \E t \in Texts : Parse(t)
    BY <2>1, <2>4, ParseStep
  <2>5. CASE CannotOpen \/ ScanUnknown \/ SyntaxError
    BY <1>2, <2>5 DEF CannotOpen, ScanUnknown, SyntaxError
  <2>6. CASE ScanComment
    BY <2>1, <2>6, ScanCommentStep
  <2>7. CASE ScanEnd
    BY <2>1, <2>7, ScanEndStep
  <2>8. CASE BeginSection
    BY <2>1, <2>2, <2>3, <2>8, BeginSectionStep, Zenon
  <2>9. CASE Brace
    BY <2>1, <2>2, <2>3, <2>9, BraceStep, Zenon
  <2>10. CASE Key
    BY <2>1, <2>2, <2>3, <2>10, KeyStep, Zenon
  <2>11. CASE Equals
    BY <2>1, <2>2, <2>3, <2>11, EqualsStep, Zenon
  <2>12. CASE Value
    BY <2>1, <2>2, <2>3, <2>12, ValueStep, Zenon
  <2>13. CASE EndStatement
    BY <2>1, <2>2, <2>3, <2>13, EndStatementStep, Zenon
  <2>14. CASE UNCHANGED ConfigVars
    BY <2>14 DEF ConfigVars, ConfigInv, Parsed
  <2> QED BY <2>4, <2>5, <2>6, <2>7, <2>8, <2>9, <2>10, <2>11, <2>12, <2>13, <2>14 DEF ConfigNext
<1> QED BY <1>1, <1>2

(* What is in force of all that was read is what a reader of it is given.  *)
LEMMA ConfigInvWhole == ConfigInv => GoodMeansWhole
<1> SUFFICES ASSUME ConfigInv, expect = "nothing", ~unsuccessful,
                    NEW s \in Names, NEW k \in Names
             PROVE  value_or(s, k, "default") =
                       IF Stated(s, k) = {} THEN "default"
                       ELSE FirstWord(read[Max(Stated(s, k)) + 2][2])
  BY DEF GoodMeansWhole
<1>1. read \in Seq(Lexemes) /\ text = <<>>
  BY DEF ConfigInv
<1>2. PICK D \in 0 .. Len(read) : Parsed(D)
  BY DEF ConfigInv
<1>3. D = Len(read)
  <2>1. ToScan(read, <<>>, inComment, D)
    BY <1>1, <1>2 DEF Parsed
  <2> QED BY <1>1, <2>1, ToScanEnds
<1>4. Statements(read, s, k, Len(read)) = Stated(s, k)
  BY Zenon DEF Statements, Stated, InSect
<1>5. InForce(read, Len(read), values, sections)
  BY <1>2, <1>3 DEF Parsed
<1>6. CASE Stated(s, k) = {} /\ values[s][k] = Absent
  BY <1>6 DEF value_or
<1>7. ASSUME NEW i \in Stated(s, k), \A j \in Stated(s, k) : j <= i,
             values[s][k] = read[i + 2][2], values[s][k] # Absent, s \in sections
      PROVE  value_or(s, k, "default") =
                IF Stated(s, k) = {} THEN "default"
                ELSE FirstWord(read[Max(Stated(s, k)) + 2][2])
  <2>1. \A j \in Stated(s, k) : j \in Int
    <3>1. Len(read) \in Nat
      BY <1>1
    <3>2. \A j \in 2 .. Len(read) - 3 : j \in Int
      BY <3>1
    <3> QED BY <3>2, Zenon DEF Stated
  <2>2. Max(Stated(s, k)) = i
    <3>1. \A j \in Stated(s, k) : (\A h \in Stated(s, k) : j >= h) <=> j = i
      BY <1>7, <2>1
    <3> QED BY <3>1 DEF Max
  <2>3. value_or(s, k, "default") = FirstWord(values[s][k])
    BY <1>7, Zenon DEF value_or, FindSection, GetValue
  <2>4. Stated(s, k) # {}
    BY <1>7
  <2> QED BY <1>7, <2>2, <2>3, <2>4, Zenon
<1> QED BY <1>4, <1>5, <1>6, <1>7, Zenon DEF InForce

(* As long as no error was reported, the driver gives for every key of     *)
(* every section what the files it has parsed say last, comments left out  *)
(* even where one runs on into the next file, whatever the files are.      *)
(* (ConfigurationDriver.cpp:60-75, scanner.ll:78-85)                       *)
THEOREM WholeWhenGood == ConfigSpec => []GoodMeansWhole
<1>1. ConfigInit => ConfigInv
  BY ConfigInitInv
<1>2. ConfigInv /\ [ConfigNext]_ConfigVars => ConfigInv'
  BY ConfigInductive
<1>3. ConfigInv => GoodMeansWhole
  BY ConfigInvWhole
<1> QED BY <1>1, <1>2, <1>3, PTL DEF ConfigSpec

-----------------------------------------------------------------------------
(* Strings, for any texts.  Recursion over a text is reasoned about by     *)
(* AllNumbers: the lengths up to which a function is defined, or typed,    *)
(* are all of them.  SMT expands \o and SubSeq wherever it sees them, so   *)
(* strings are put together and cut by Cat, FirstOf and RestOf.            *)
(* Whether t is in s at p: what Search looks for. *)
At(s, t, p, ci) == \A i \in 1 .. Len(t) : eq(s[p + i], t[i], ci)
Places(s, t, from, ci) == {p \in from .. Len(s) - Len(t) : At(s, t, p, ci)}

(* What a search gives, in terms of the places where it may find t.        *)
LEMMA SearchPlaces ==
    ASSUME NEW s, NEW t, NEW from, NEW ci
    PROVE  Search(s, t, from, ci) =
             IF Places(s, t, from, ci) = {} THEN npos
             ELSE CHOOSE p \in Places(s, t, from, ci) :
                     \A q \in Places(s, t, from, ci) : p <= q
BY DEF Search, Places, At

(* A search finds nothing or the first place. *)
LEMMA SearchResult ==
    ASSUME NEW S, NEW s \in Seq(S), NEW t \in Seq(S), NEW from \in Nat, NEW ci
    PROVE  \/ /\ Search(s, t, from, ci) = npos
              /\ Places(s, t, from, ci) = {}
           \/ /\ Search(s, t, from, ci) \in Places(s, t, from, ci)
              /\ \A q \in Places(s, t, from, ci) : Search(s, t, from, ci) <= q
<1> DEFINE P == Places(s, t, from, ci)
<1>1. P \in SUBSET Nat
  BY DEF Places
<1> SUFFICES ASSUME P # {}
             PROVE  /\ Search(s, t, from, ci) \in P
                    /\ \A q \in P : Search(s, t, from, ci) <= q
  BY SearchPlaces
<1>2. \E p \in P : \A q \in P : p <= q
  BY <1>1, LeastIndex
<1>3. Search(s, t, from, ci) = CHOOSE p \in P : \A q \in P : p <= q
  BY SearchPlaces
<1> HIDE DEF P
<1> QED BY <1>2, <1>3

(* The place that is before all others is the one a search gives. *)
LEMMA SearchUnique ==
    ASSUME NEW S, NEW s \in Seq(S), NEW t \in Seq(S), NEW from \in Nat, NEW ci,
           NEW p \in Places(s, t, from, ci), \A q \in Places(s, t, from, ci) : p <= q
    PROVE  Search(s, t, from, ci) = p
<1>1. /\ Search(s, t, from, ci) \in Places(s, t, from, ci)
      /\ \A q \in Places(s, t, from, ci) : Search(s, t, from, ci) <= q
  BY SearchResult
<1>2. Search(s, t, from, ci) <= p /\ p <= Search(s, t, from, ci)
  BY <1>1
<1>3. Places(s, t, from, ci) \subseteq Nat
  BY DEF Places
<1>4. \A x, y \in Nat : x <= y /\ y <= x => x = y
  OBVIOUS
<1> QED BY <1>1, <1>2, <1>3, <1>4

(* What a search finds is inside the string and after its start. *)
LEMMA SearchRange ==
    ASSUME NEW S, NEW s \in Seq(S), NEW t \in Seq(S), NEW from \in Nat, NEW ci
    PROVE  LET e == Search(s, t, from, ci)
           IN  e # npos => /\ e \in Nat /\ from <= e /\ e + Len(t) <= Len(s)
                           /\ At(s, t, e, ci)
<1> DEFINE e == Search(s, t, from, ci)
<1>1. e # npos => e \in from .. Len(s) - Len(t) /\ At(s, t, e, ci)
  BY SearchResult DEF Places
<1>2. Len(s) \in Nat /\ Len(t) \in Nat
  OBVIOUS
<1>3. \A x \in from .. Len(s) - Len(t) : x \in Nat /\ from <= x /\ x + Len(t) <= Len(s)
  BY <1>2
<1> HIDE DEF e
<1> QED BY <1>1, <1>3 DEF e

(* Two strings that are the same from a and from b on. *)
SameFrom(s1, a, s2, b) ==
    /\ a \in Nat /\ b \in Nat /\ a <= Len(s1) /\ b <= Len(s2)
    /\ Len(s1) - a = Len(s2) - b
    /\ \A i \in 1 .. Len(s1) - a : s1[a + i] = s2[b + i]

(* Being the same from there on goes both ways.                            *)
LEMMA SameBack ==
    ASSUME NEW S, NEW s1 \in Seq(S), NEW s2 \in Seq(S), NEW a, NEW b, SameFrom(s1, a, s2, b)
    PROVE  SameFrom(s2, b, s1, a)
BY DEF SameFrom

(* A place in the one is a place in the other. *)
LEMMA PlaceMoves ==
    ASSUME NEW S, NEW s1 \in Seq(S), NEW s2 \in Seq(S), NEW t \in Seq(S),
           NEW a, NEW b, SameFrom(s1, a, s2, b), NEW ci, NEW p \in Places(s1, t, a, ci)
    PROVE  p - a + b \in Places(s2, t, b, ci)
<1> DEFINE n1 == Len(s1)
           n2 == Len(s2)
           m == Len(t)
<1>1. /\ n1 \in Nat /\ n2 \in Nat /\ m \in Nat /\ a \in Nat /\ b \in Nat
      /\ n1 - a = n2 - b
  BY DEF SameFrom
<1>2. p \in a .. n1 - m /\ At(s1, t, p, ci)
  BY DEF Places
<1>3. \A i \in 1 .. n1 - a : s1[a + i] = s2[b + i]
  BY DEF SameFrom
<1> HIDE DEF n1, n2, m
<1>4. p - a + b \in b .. n2 - m
  BY <1>1, <1>2
<1>5. ASSUME NEW i \in 1 .. m
      PROVE  s1[p + i] = s2[p - a + b + i]
  <2>1. /\ p - a + i \in 1 .. n1 - a /\ a + (p - a + i) = p + i
        /\ b + (p - a + i) = p - a + b + i
    BY <1>1, <1>2
  <2>2. s1[a + (p - a + i)] = s2[b + (p - a + i)]
    BY <1>3, <2>1
  <2> QED BY <2>1, <2>2
<1>6. At(s2, t, p - a + b, ci)
  <2> SUFFICES ASSUME NEW i \in 1 .. m PROVE eq(s2[p - a + b + i], t[i], ci)
    BY DEF At, m
  <2>1. eq(s1[p + i], t[i], ci)
    BY <1>2 DEF At, m
  <2> QED BY <1>5, <2>1
<1> QED BY <1>4, <1>6 DEF Places, n2, m

(* Searching one from a is searching the other from b. *)
LEMMA SearchMoves ==
    ASSUME NEW S, NEW s1 \in Seq(S), NEW s2 \in Seq(S), NEW t \in Seq(S),
           NEW a, NEW b, SameFrom(s1, a, s2, b), NEW ci
    PROVE  Search(s2, t, b, ci) = IF Search(s1, t, a, ci) = npos THEN npos
                                  ELSE Search(s1, t, a, ci) - a + b
<1> DEFINE e == Search(s1, t, a, ci)
           P1 == Places(s1, t, a, ci)
           P2 == Places(s2, t, b, ci)
<1>1. a \in Nat /\ b \in Nat /\ P1 \subseteq Nat /\ P2 \subseteq Nat
  BY DEF SameFrom, Places
<1>2. \A p \in P1 : p - a + b \in P2
  BY PlaceMoves
<1>3. \A p \in P2 : p - b + a \in P1
  BY PlaceMoves, SameBack
<1>4. CASE P1 = {}
  <2>1. P2 = {}
    BY <1>3, <1>4
  <2> QED BY <1>4, <2>1, SearchPlaces
<1>5. CASE P1 # {}
  <2>1. e \in P1 /\ \A q \in P1 : e <= q
    BY <1>1, <1>5, SearchResult
  <2>2. e # npos
    BY <1>1, <2>1 DEF npos
  <2> HIDE DEF e, P1, P2
  <2>3. e - a + b \in P2
    BY <1>2, <2>1
  <2>4. ASSUME NEW q \in P2 PROVE e - a + b <= q
    <3>1. e <= q - b + a
      BY <1>3, <2>1
    <3>2. e \in Nat /\ q \in Nat
      BY <1>1, <2>1
    <3> HIDE DEF e
    <3> QED BY <1>1, <3>1, <3>2
  <2>5. Search(s2, t, b, ci) = e - a + b
    BY <1>1, <2>3, <2>4, SearchUnique DEF P2
  <2> QED BY <2>2, <2>5 DEF e
<1> QED BY <1>4, <1>5

(* Where there is no NUL, a C string is the whole string. *)
LEMMA WithoutNUL ==
    ASSUME NEW s, NUL \notin ToSet(s)
    PROVE  UpToNUL(s) = s
BY DEF UpToNUL

(* Without NULs both kinds of find are a search of the whole strings.      *)
LEMMA FindAnyIsSearch ==
    ASSUME NEW s, NEW t, NEW from, NEW ci,
           ci => NUL \notin ToSet(s) /\ NUL \notin ToSet(t), ci \in BOOLEAN
    PROVE  FindAny(s, t, from, ci) = Search(s, t, from, ci)
<1>1. CASE ci = TRUE
  BY <1>1, WithoutNUL DEF FindAny, find_ci
<1>2. CASE ci = FALSE
  BY <1>2 DEF FindAny, Find
<1> QED BY <1>1, <1>2

(* The function of Split, and one step of it. *)
PieceFn(s, delim, ci) ==
    LET pieces[start \in 0 .. Len(s)] ==
          LET end == FindAny(s, delim, start, ci)
          IN  IF end = npos THEN <<SubSeq(s, start + 1, Len(s))>>
              ELSE <<SubSeq(s, start + 1, end)>> \o pieces[end + Len(delim)]
    IN  pieces

PieceStep(f, s, delim, ci, start) ==
    IF FindAny(s, delim, start, ci) = npos THEN <<SubSeq(s, start + 1, Len(s))>>
    ELSE <<SubSeq(s, start + 1, FindAny(s, delim, start, ci))>>
         \o f[FindAny(s, delim, start, ci) + Len(delim)]

(* split is its recursive function at the start of the string.             *)
LEMMA SplitPieces ==
    ASSUME NEW s, NEW delim, NEW ci
    PROVE  /\ Split(s, delim, ci) = PieceFn(s, delim, ci)[0]
           /\ PieceFn(s, delim, ci) =
                CHOOSE f : f = [start \in 0 .. Len(s) |-> PieceStep(f, s, delim, ci, start)]
BY DEF Split, PieceFn, PieceStep

(* What can be split: a delimiter that is not empty, and no NUL in it or   *)
(* in the string when the case is ignored.                                 *)
Splittable(s, delim, ci) ==
    /\ delim # <<>> /\ ci \in BOOLEAN
    /\ ci => NUL \notin ToSet(s) /\ NUL \notin ToSet(delim)

(* What find gives lies between its start and the end of the string.       *)
LEMMA FindAnyRange ==
    ASSUME NEW S, NEW s \in Seq(S), NEW delim \in Seq(S), NEW ci,
           Splittable(s, delim, ci), NEW start \in 0 .. Len(s),
           FindAny(s, delim, start, ci) # npos
    PROVE  LET end == FindAny(s, delim, start, ci)
           IN  /\ end \in start .. Len(s)
               /\ end + Len(delim) \in start + 1 .. Len(s)
<1> DEFINE end == FindAny(s, delim, start, ci)
<1>1. end = Search(s, delim, start, ci)
  BY FindAnyIsSearch DEF Splittable
<1>2. start \in Nat
  OBVIOUS
<1>3. end \in Nat /\ start <= end /\ end + Len(delim) <= Len(s)
  BY <1>1, <1>2, SearchRange
<1>4. Len(delim) \in Nat \ {0} /\ Len(s) \in Nat
  BY EmptySeq DEF Splittable
<1> DEFINE n == Len(s)
           m == Len(delim)
<1>5. start \in Nat /\ m \in Nat \ {0} /\ n \in Nat /\ end \in Nat /\ start <= end /\ end + m <= n
  BY <1>2, <1>3, <1>4
<1> HIDE DEF end, n, m
<1>6. end \in start .. n /\ end + m \in start + 1 .. n
  BY <1>5
<1> QED BY <1>6 DEF n, m, end

(* A piece and the rest make a vector of strings. *)
LEMMA PieceStepType ==
    ASSUME NEW S, NEW s \in Seq(S), NEW delim \in Seq(S), NEW ci,
           Splittable(s, delim, ci), NEW start \in 0 .. Len(s), NEW f,
           FindAny(s, delim, start, ci) # npos =>
              f[FindAny(s, delim, start, ci) + Len(delim)] \in Seq(Seq(S))
    PROVE  /\ PieceStep(f, s, delim, ci, start) \in Seq(Seq(S))
           /\ PieceStep(f, s, delim, ci, start) # <<>>
<1> DEFINE end == FindAny(s, delim, start, ci)
<1>1. CASE end = npos
  <2>1. SubSeq(s, start + 1, Len(s)) \in Seq(S)
    OBVIOUS
  <2>2. PieceStep(f, s, delim, ci, start) = <<SubSeq(s, start + 1, Len(s))>>
    BY <1>1 DEF PieceStep
  <2> QED BY <2>1, <2>2
<1>2. CASE end # npos
  <2>1. end \in start .. Len(s)
    BY <1>2, FindAnyRange
  <2> DEFINE p == SubSeq(s, start + 1, end)
             rest == f[end + Len(delim)]
  <2>2. p \in Seq(S)
    <3> HIDE DEF end
    <3> QED BY <2>1
  <2>3. rest \in Seq(Seq(S))
    BY <1>2
  <2>4. PieceStep(f, s, delim, ci, start) = <<p>> \o rest
    BY <1>2 DEF PieceStep
  <2> HIDE DEF p, rest
  <2>5. <<p>> \in Seq(Seq(S)) /\ <<p>> # <<>>
    BY <2>2
  <2>6. <<p>> \o rest \in Seq(Seq(S)) /\ <<p>> \o rest # <<>>
    BY <2>3, <2>5, ConcatProperties, ConcatEqualIffEmpty
  <2> QED BY <2>4, <2>6
<1> QED BY <1>1, <1>2

(* The function of Split exists: from the end of the string backwards,     *)
(* since each call starts after the delimiter the last one found.          *)
LEMMA PiecesExist ==
    ASSUME NEW S, NEW s \in Seq(S), NEW delim \in Seq(S), NEW ci,
           Splittable(s, delim, ci)
    PROVE  \E f : f = [start \in 0 .. Len(s) |-> PieceStep(f, s, delim, ci, start)]
<1> DEFINE n == Len(s)
           Good(f, k) == f = [start \in n + 1 - k .. n |-> PieceStep(f, s, delim, ci, start)]
           T == {k \in Nat : k <= n + 1 => \E f : Good(f, k)}
<1>1. n \in Nat
  OBVIOUS
<1>2. 0 \in T
  <2>1. Good([start \in n + 1 - 0 .. n |-> <<>>], 0)
    <3>1. n + 1 - 0 .. n = {}
      <4> HIDE DEF n
      <4> QED BY <1>1
    <3> QED BY <3>1
  <2> QED BY <2>1
<1>3. ASSUME NEW k \in Nat, k \in T PROVE k + 1 \in T
  <2> SUFFICES ASSUME k + 1 <= n + 1 PROVE \E f : Good(f, k + 1)
    OBVIOUS
  <2> DEFINE m == n - k
  <2>1. /\ m \in 0 .. n /\ n + 1 - (k + 1) = m /\ n + 1 - k = m + 1 /\ k <= n + 1
        /\ m \in m .. n /\ \A x \in m .. n : x \in 0 .. n /\ (x # m => x \in m + 1 .. n)
        /\ m + 1 .. n \subseteq m .. n /\ \A x \in m .. n : x + 1 .. n \subseteq m + 1 .. n
        /\ m \notin m + 1 .. n
    <3> HIDE DEF n
    <3> QED BY <1>1
  <2>2. PICK f : Good(f, k)
    BY <1>3, <2>1
  <2> DEFINE g == [x \in m .. n |-> IF x = m THEN PieceStep(f, s, delim, ci, m) ELSE f[x]]
  <2> HIDE DEF m, n
  <2>3. f = [start \in m + 1 .. n |-> PieceStep(f, s, delim, ci, start)]
    BY <2>1, <2>2
  <2>4. \A x \in m + 1 .. n : g[x] = f[x] /\ f[x] = PieceStep(f, s, delim, ci, x)
    BY <2>1, <2>3
  <2>5. ASSUME NEW x \in m .. n
        PROVE  PieceStep(g, s, delim, ci, x) = PieceStep(f, s, delim, ci, x)
    <3> DEFINE end == FindAny(s, delim, x, ci)
    <3>1. CASE end = npos
      BY <3>1 DEF PieceStep
    <3>2. CASE end # npos
      <4>1. x \in 0 .. Len(s)
        BY <2>1 DEF n
      <4>2. end + Len(delim) \in x + 1 .. n
        BY <3>2, <4>1, FindAnyRange DEF n
      <4>3. end + Len(delim) \in m + 1 .. n
        BY <2>1, <4>2
      <4>4. g[end + Len(delim)] = f[end + Len(delim)]
        BY <2>4, <4>3
      <4> HIDE DEF g
      <4> QED BY <3>2, <4>4 DEF PieceStep
    <3> QED BY <3>1, <3>2
  <2>6. \A x \in m .. n : g[x] = PieceStep(g, s, delim, ci, x)
    <3> SUFFICES ASSUME NEW x \in m .. n PROVE g[x] = PieceStep(f, s, delim, ci, x)
      BY <2>5
    <3>1. CASE x = m
      BY <3>1
    <3>2. CASE x # m
      BY <2>1, <2>4, <3>2
    <3> QED BY <3>1, <3>2
  <2>7. g = [x \in m .. n |-> PieceStep(g, s, delim, ci, x)]
    <3>1. g = [x \in m .. n |-> g[x]]
      OBVIOUS
    <3> HIDE DEF g
    <3> QED BY <2>6, <3>1
  <2>8. Good(g, k + 1)
    BY <2>1, <2>7
  <2> QED BY <2>8
<1>4. n + 1 \in T
  <2> HIDE DEF T
  <2>1. Nat \subseteq T
    BY <1>2, <1>3, AllNumbers
  <2> QED BY <1>1, <2>1
<1>5. n + 1 - (n + 1) = 0 /\ n + 1 <= n + 1
  <2> HIDE DEF n
  <2> QED BY <1>1
<1>6. \E f : Good(f, n + 1)
  BY <1>4, <1>5
<1> QED BY <1>5, <1>6

(* What each call of split's loop gives, and that it is a vector. *)
LEMMA PieceFnStep ==
    ASSUME NEW S, NEW s \in Seq(S), NEW delim \in Seq(S), NEW ci,
           Splittable(s, delim, ci), NEW start \in 0 .. Len(s)
    PROVE  PieceFn(s, delim, ci)[start] = PieceStep(PieceFn(s, delim, ci), s, delim, ci, start)
<1> DEFINE F == PieceFn(s, delim, ci)
<1>1. F = [x \in 0 .. Len(s) |-> PieceStep(F, s, delim, ci, x)]
  <2>1. F = CHOOSE f : f = [x \in 0 .. Len(s) |-> PieceStep(f, s, delim, ci, x)]
    BY SplitPieces
  <2> HIDE DEF F
  <2>2. \E f : f = [x \in 0 .. Len(s) |-> PieceStep(f, s, delim, ci, x)]
    BY PiecesExist
  <2> QED BY <2>1, <2>2, Zenon
<1> HIDE DEF F
<1>2. F[start] = PieceStep(F, s, delim, ci, start)
  BY <1>1
<1> QED BY <1>2 DEF F

(* The pieces of a string are strings, and there is at least one.          *)
LEMMA PieceFnType ==
    ASSUME NEW S, NEW s \in Seq(S), NEW delim \in Seq(S), NEW ci,
           Splittable(s, delim, ci), NEW start \in 0 .. Len(s)
    PROVE  /\ PieceFn(s, delim, ci)[start] \in Seq(Seq(S))
           /\ PieceFn(s, delim, ci)[start] # <<>>
<1> DEFINE n == Len(s)
           F == PieceFn(s, delim, ci)
           T == {k \in Nat : \A x \in 0 .. n : n + 1 - k <= x =>
                    F[x] \in Seq(Seq(S)) /\ F[x] # <<>>}
<1>1. n \in Nat
  OBVIOUS
<1>2. 0 \in T
  <2>1. \A x \in 0 .. n : ~(n + 1 - 0 <= x)
    <3> HIDE DEF n
    <3> QED BY <1>1
  <2> QED BY <2>1
<1>3. ASSUME NEW k \in Nat, k \in T PROVE k + 1 \in T
  <2> SUFFICES ASSUME NEW x \in 0 .. n, n + 1 - (k + 1) <= x
               PROVE  F[x] \in Seq(Seq(S)) /\ F[x] # <<>>
    OBVIOUS
  <2>1. \A y \in x + 1 .. n : y \in 0 .. n /\ n + 1 - k <= y
    <3> HIDE DEF n
    <3> QED BY <1>1
  <2>2. \A y \in x + 1 .. n : F[y] \in Seq(Seq(S))
    BY <1>3, <2>1
  <2> DEFINE end == FindAny(s, delim, x, ci)
  <2>3. end # npos => end + Len(delim) \in x + 1 .. n
    BY FindAnyRange
  <2>4. end # npos => F[end + Len(delim)] \in Seq(Seq(S))
    BY <2>2, <2>3
  <2>5. F[x] = PieceStep(F, s, delim, ci, x)
    BY PieceFnStep
  <2> HIDE DEF F
  <2> QED BY <2>4, <2>5, PieceStepType
<1>4. n + 1 \in T
  <2> HIDE DEF T
  <2>1. Nat \subseteq T
    BY <1>2, <1>3, AllNumbers
  <2> QED BY <1>1, <2>1
<1>5. n + 1 - (n + 1) <= start
  <2>1. start \in 0 .. n
    OBVIOUS
  <2> HIDE DEF n
  <2> QED BY <1>1, <2>1
<1> QED BY <1>4, <1>5

(* The function of Join, and one step of it. *)
JoinFn(vec, delim) ==
    LET joined[n \in 0 .. Len(vec)] ==
          IF n = 0 THEN <<>>
          ELSE joined[n - 1] \o vec[n] \o (IF n = Len(vec) THEN <<>> ELSE delim)
    IN  joined

JoinStep(f, vec, delim, n) ==
    IF n = 0 THEN <<>>
    ELSE f[n - 1] \o vec[n] \o (IF n = Len(vec) THEN <<>> ELSE delim)

(* join is its recursive function at the number of the strings.            *)
LEMMA JoinIsFn ==
    ASSUME NEW vec, NEW delim
    PROVE  /\ Join(vec, delim) = JoinFn(vec, delim)[Len(vec)]
           /\ JoinFn(vec, delim) = CHOOSE f : f = [n \in 0 .. Len(vec) |-> JoinStep(f, vec, delim, n)]
BY DEF Join, JoinFn, JoinStep

(* There is a function that does, for each n, what one round of join does. *)
LEMMA JoinExists ==
    ASSUME NEW vec, Len(vec) \in Nat, NEW delim
    PROVE  \E f : f = [n \in 0 .. Len(vec) |-> JoinStep(f, vec, delim, n)]
<1> DEFINE l == Len(vec)
           Good(f, k) == f = [n \in 0 .. k |-> JoinStep(f, vec, delim, n)]
           T == {k \in Nat : \E f : Good(f, k)}
<1>1. 0 \in T
  <2> DEFINE f == [n \in 0 .. 0 |-> <<>>]
  <2>1. \A n \in 0 .. 0 : JoinStep(f, vec, delim, n) = <<>>
    BY DEF JoinStep
  <2>2. f = [n \in 0 .. 0 |-> JoinStep(f, vec, delim, n)]
    <3> HIDE DEF f
    <3>1. f = [n \in 0 .. 0 |-> <<>>]
      BY DEF f
    <3> QED BY <2>1, <3>1
  <2>3. Good(f, 0)
    BY <2>2
  <2> QED BY <2>3
<1>2. ASSUME NEW k \in Nat, k \in T PROVE k + 1 \in T
  <2>1. PICK f : Good(f, k)
    BY <1>2
  <2> DEFINE g == [n \in 0 .. k + 1 |-> IF n = k + 1 THEN JoinStep(f, vec, delim, n) ELSE f[n]]
  <2>2. /\ \A n \in 0 .. k + 1 : n = k + 1 \/ (n \in 0 .. k /\ n # k + 1)
        /\ \A n \in 0 .. k + 1 : n # 0 => n - 1 \in 0 .. k
        /\ 0 .. k \subseteq 0 .. k + 1
        /\ k + 1 \notin 0 .. k
    OBVIOUS
  <2>3. \A n \in 0 .. k : g[n] = f[n]
    BY <2>2
  <2>4. \A n \in 0 .. k : f[n] = JoinStep(f, vec, delim, n)
    BY <2>1
  <2>5. ASSUME NEW n \in 0 .. k + 1
        PROVE  JoinStep(g, vec, delim, n) = JoinStep(f, vec, delim, n)
    <3>1. n # 0 => g[n - 1] = f[n - 1]
      BY <2>2, <2>3
    <3> HIDE DEF g
    <3> QED BY <3>1 DEF JoinStep
  <2>6. \A n \in 0 .. k + 1 : g[n] = JoinStep(g, vec, delim, n)
    <3> SUFFICES ASSUME NEW n \in 0 .. k + 1 PROVE g[n] = JoinStep(f, vec, delim, n)
      BY <2>5
    <3> QED BY <2>2, <2>4
  <2>7. g = [n \in 0 .. k + 1 |-> JoinStep(g, vec, delim, n)]
    <3>1. g = [n \in 0 .. k + 1 |-> g[n]]
      OBVIOUS
    <3> HIDE DEF g
    <3> QED BY <2>6, <3>1
  <2> HIDE DEF g
  <2>8. Good(g, k + 1)
    BY <2>7
  <2> QED BY <2>8
<1>3. l \in T
  <2> HIDE DEF T
  <2>1. Nat \subseteq T
    BY <1>1, <1>2, AllNumbers
  <2> QED BY <2>1
<1> QED BY <1>3

(* The recursive function of join is one.                                  *)
LEMMA JoinFnStep ==
    ASSUME NEW vec, Len(vec) \in Nat, NEW delim, NEW n \in 0 .. Len(vec)
    PROVE  JoinFn(vec, delim)[n] = JoinStep(JoinFn(vec, delim), vec, delim, n)
<1> DEFINE F == JoinFn(vec, delim)
<1>1. F = [x \in 0 .. Len(vec) |-> JoinStep(F, vec, delim, x)]
  <2>1. F = CHOOSE f : f = [x \in 0 .. Len(vec) |-> JoinStep(f, vec, delim, x)]
    BY JoinIsFn
  <2> HIDE DEF F
  <2>2. \E f : f = [x \in 0 .. Len(vec) |-> JoinStep(f, vec, delim, x)]
    BY JoinExists
  <2> QED BY <2>1, <2>2, Zenon
<1> HIDE DEF F
<1>2. F[n] = JoinStep(F, vec, delim, n)
  BY <1>1
<1> QED BY <1>2 DEF F


(* Strings put one after another, as an operator that is left unexpanded,  *)
(* and what follows the n-th string.                                       *)
Cat(s, t) == s \o t
After(vec, delim, n) == IF n = Len(vec) THEN <<>> ELSE delim

(* Strings put together are a string, in whichever order it is done.       *)
LEMMA CatProperties ==
    ASSUME NEW S, NEW a \in Seq(S), NEW b \in Seq(S), NEW c \in Seq(S)
    PROVE  Cat(a, b) \in Seq(S) /\ Cat(Cat(a, b), c) = Cat(a, Cat(b, c))
BY ConcatAssociative, ConcatProperties DEF Cat

(* What join makes of no strings, and of one more.                         *)
LEMMA JoinFnIs ==
    ASSUME NEW vec, Len(vec) \in Nat, NEW delim
    PROVE  /\ JoinFn(vec, delim)[0] = <<>>
           /\ \A k \in 0 .. Len(vec) - 1 :
                 JoinFn(vec, delim)[k + 1] =
                    Cat(Cat(JoinFn(vec, delim)[k], vec[k + 1]), After(vec, delim, k + 1))
<1> DEFINE F == JoinFn(vec, delim)
<1>1. F[0] = JoinStep(F, vec, delim, 0)
  BY JoinFnStep
<1>2. ASSUME NEW k \in 0 .. Len(vec) - 1
      PROVE  F[k + 1] = Cat(Cat(F[k], vec[k + 1]), After(vec, delim, k + 1))
  <2> DEFINE n == k + 1
  <2>1. n \in 0 .. Len(vec) /\ n # 0 /\ n - 1 = k
    OBVIOUS
  <2> HIDE DEF n
  <2>2. F[n] = JoinStep(F, vec, delim, n)
    BY <2>1, JoinFnStep
  <2> HIDE DEF F
  <2>3. JoinStep(F, vec, delim, n) = Cat(Cat(F[k], vec[n]), After(vec, delim, n))
    BY <2>1, Zenon DEF JoinStep, Cat, After
  <2> QED BY <2>2, <2>3, Zenon DEF n
<1> HIDE DEF F
<1>3. F[0] = <<>>
  BY <1>1, Zenon DEF JoinStep
<1> QED BY <1>2, <1>3 DEF F

(* A vector of one string is that string. *)
LEMMA JoinOne ==
    ASSUME NEW S, NEW p \in Seq(S), NEW vec, Len(vec) = 1, vec[1] = p, NEW delim
    PROVE  Join(vec, delim) = p
<1> DEFINE F == JoinFn(vec, delim)
<1>1. /\ F[0] = <<>>
      /\ \A k \in 0 .. 0 : F[k + 1] = Cat(Cat(F[k], vec[k + 1]), After(vec, delim, k + 1))
  <2>1. Len(vec) \in Nat /\ Len(vec) - 1 = 0
    OBVIOUS
  <2> QED BY <2>1, JoinFnIs
<1>2. F[0 + 1] = Cat(Cat(F[0], vec[0 + 1]), After(vec, delim, 0 + 1))
  <2>1. 0 \in 0 .. 0
    OBVIOUS
  <2> HIDE DEF F
  <2> QED BY <1>1, <2>1, Zenon
<1> HIDE DEF F
<1>3. F[1] = Cat(Cat(F[0], vec[1]), After(vec, delim, 1))
  BY <1>2
<1>4. After(vec, delim, 1) = <<>>
  BY DEF After
<1>5. Cat(Cat(<<>>, p), <<>>) = p
  BY ConcatEmptySeq DEF Cat
<1>6. F[1] = Cat(Cat(<<>>, p), <<>>)
  BY <1>1, <1>3, <1>4
<1> QED BY <1>5, <1>6, JoinIsFn DEF F

(* Joining is in S, piece by piece. *)
LEMMA JoinFnType ==
    ASSUME NEW S, NEW vec \in Seq(Seq(S)), NEW delim \in Seq(S), NEW n \in 0 .. Len(vec)
    PROVE  JoinFn(vec, delim)[n] \in Seq(S)
<1> DEFINE F == JoinFn(vec, delim)
           T == {k \in Nat : k <= Len(vec) => F[k] \in Seq(S)}
<1>0. /\ F[0] = <<>>
      /\ \A k \in 0 .. Len(vec) - 1 :
            F[k + 1] = Cat(Cat(F[k], vec[k + 1]), After(vec, delim, k + 1))
  BY JoinFnIs
<1> HIDE DEF F
<1>1. 0 \in T
  BY <1>0, EmptySeq
<1>2. ASSUME NEW k \in Nat, k \in T PROVE k + 1 \in T
  <2> SUFFICES ASSUME k + 1 <= Len(vec) PROVE F[k + 1] \in Seq(S)
    OBVIOUS
  <2>1. k \in 0 .. Len(vec) - 1 /\ k + 1 \in 1 .. Len(vec) /\ k <= Len(vec)
    OBVIOUS
  <2>2. F[k + 1] = Cat(Cat(F[k], vec[k + 1]), After(vec, delim, k + 1))
    BY <1>0, <2>1
  <2> DEFINE e == After(vec, delim, k + 1)
             v == vec[k + 1]
  <2>3. v \in Seq(S)
    BY <2>1
  <2>4. e \in Seq(S)
    BY EmptySeq DEF After
  <2>5. F[k] \in Seq(S)
    BY <1>2, <2>1
  <2> HIDE DEF e, v
  <2>6. Cat(Cat(F[k], v), e) \in Seq(S)
    BY <2>3, <2>4, <2>5, CatProperties
  <2> QED BY <2>2, <2>6 DEF e, v
<1>3. n \in T
  <2> HIDE DEF T
  <2>1. Nat \subseteq T
    BY <1>1, <1>2, AllNumbers
  <2> QED BY <2>1
<1>4. n <= Len(vec)
  OBVIOUS
<1> QED BY <1>3, <1>4 DEF F

(* A vector that has one string more at its start. *)
LEMMA JoinMore ==
    ASSUME NEW S, NEW p \in Seq(S), NEW vec \in Seq(Seq(S)), vec # <<>>, NEW delim \in Seq(S)
    PROVE  Join(<<p>> \o vec, delim) = Cat(Cat(p, delim), Join(vec, delim))
<1> DEFINE w == <<p>> \o vec
           l == Len(vec)
           F == JoinFn(vec, delim)
           G == JoinFn(w, delim)
           head == Cat(p, delim)
           T == {k \in Nat : k <= l => G[k + 1] = Cat(head, F[k])}
<1>1. l \in Nat \ {0}
  BY EmptySeq
<1>2. Len(w) = l + 1 /\ w[1] = p /\ \A k \in 1 .. l : w[k + 1] = vec[k]
  <2>1. <<p>> \in Seq(Seq(S)) /\ Len(<<p>>) = 1 /\ <<p>>[1] = p
    OBVIOUS
  <2>2. /\ Len(w) = 1 + l
        /\ \A i \in 1 .. 1 + l : w[i] = IF i <= 1 THEN <<p>>[i] ELSE vec[i - 1]
    BY <2>1, ConcatProperties
  <2> HIDE DEF w, l
  <2>3. 1 \in 1 .. 1 + l /\ \A k \in 1 .. l : k + 1 \in 1 .. 1 + l /\ ~(k + 1 <= 1) /\ k + 1 - 1 = k
    BY <1>1
  <2>4. w[1] = p
    BY <2>1, <2>2, <2>3
  <2>5. \A k \in 1 .. l : w[k + 1] = vec[k]
    BY <2>2, <2>3
  <2>6. 1 + l = l + 1
    BY <1>1
  <2> QED BY <2>2, <2>4, <2>5, <2>6
<1>3. head \in Seq(S) /\ <<>> \in Seq(S)
  BY CatProperties, EmptySeq
<1> HIDE DEF w
<1>4. /\ G[0] = <<>> /\ F[0] = <<>>
      /\ \A k \in 0 .. Len(w) - 1 : G[k + 1] = Cat(Cat(G[k], w[k + 1]), After(w, delim, k + 1))
      /\ \A k \in 0 .. Len(vec) - 1 : F[k + 1] = Cat(Cat(F[k], vec[k + 1]), After(vec, delim, k + 1))
  <2>1. Len(w) \in Nat /\ Len(vec) \in Nat
    BY <1>1, <1>2
  <2> QED BY <2>1, JoinFnIs
<1>5. \A k \in 0 .. l : F[k] \in Seq(S)
  BY JoinFnType
<1> HIDE DEF F, G, head, l
<1>6. 0 \in T
  <2>1. 0 \in 0 .. Len(w) - 1 /\ 0 + 1 = 1 /\ 1 # l + 1
    BY <1>1, <1>2
  <2>2. G[1] = Cat(Cat(G[0], w[1]), After(w, delim, 1))
    BY <1>4, <2>1
  <2>3. After(w, delim, 1) = delim
    BY <1>2, <2>1 DEF After
  <2>4. Cat(<<>>, p) = p /\ Cat(head, <<>>) = head
    BY <1>3, ConcatEmptySeq DEF Cat
  <2>5. G[1] = head
    BY <1>2, <1>4, <2>2, <2>3, <2>4 DEF head
  <2> QED BY <1>4, <2>1, <2>4, <2>5
<1>7. ASSUME NEW k \in Nat, k \in T PROVE k + 1 \in T
  <2> SUFFICES ASSUME k + 1 <= l PROVE G[k + 1 + 1] = Cat(head, F[k + 1])
    OBVIOUS
  <2>1. /\ k <= l /\ k \in 0 .. l /\ k \in 0 .. l - 1 /\ k + 1 \in 1 .. l
        /\ k + 1 \in 0 .. l + 1 - 1
        /\ (k + 1 + 1 = l + 1 <=> k + 1 = l)
    BY <1>1
  <2> DEFINE e == After(vec, delim, k + 1)
             v == vec[k + 1]
  <2>2. G[k + 1] = Cat(head, F[k])
    BY <1>7, <2>1
  <2>3. w[k + 1 + 1] = v
    BY <1>2, <2>1
  <2>4. v \in Seq(S)
    BY <2>1 DEF l
  <2>5. After(w, delim, k + 1 + 1) = e
    BY <1>2, <2>1 DEF After, l
  <2>6. e \in Seq(S) /\ F[k] \in Seq(S)
    BY <1>3, <1>5, <2>1 DEF After
  <2> HIDE DEF e, v
  <2>7. G[k + 1 + 1] = Cat(Cat(G[k + 1], w[k + 1 + 1]), After(w, delim, k + 1 + 1))
    <3> DEFINE j == k + 1
    <3>a. Len(w) = l + 1
      BY <1>2
    <3>b. Len(w) - 1 = l + 1 - 1
      BY <1>1, <3>a
    <3>1. j \in 0 .. Len(w) - 1
      BY <2>1, <3>b, Zenon
    <3> HIDE DEF j
    <3>2. G[j + 1] = Cat(Cat(G[j], w[j + 1]), After(w, delim, j + 1))
      BY <1>4, <3>1
    <3> QED BY <3>2 DEF j
  <2>8. F[k + 1] = Cat(Cat(F[k], v), e)
    BY <1>4, <2>1 DEF e, v, l
  <2>9. Cat(Cat(head, F[k]), v) = Cat(head, Cat(F[k], v)) /\ Cat(F[k], v) \in Seq(S)
    BY <1>3, <2>4, <2>6, CatProperties
  <2>10. Cat(Cat(head, Cat(F[k], v)), e) = Cat(head, Cat(Cat(F[k], v), e))
    BY <1>3, <2>6, <2>9, CatProperties
  <2> QED BY <2>2, <2>3, <2>5, <2>7, <2>8, <2>9, <2>10
<1>8. G[l + 1] = Cat(head, F[l])
  <2>1. l \in T
    <3> HIDE DEF T
    <3>1. Nat \subseteq T
      BY <1>6, <1>7, AllNumbers
    <3> QED BY <1>1, <3>1
  <2>2. l <= l
    BY <1>1
  <2> QED BY <2>1, <2>2
<1> QED BY <1>2, <1>8, JoinIsFn DEF F, G, w, head, l

(* n characters of s after the first a, and two strings one after another. *)
IsPart(t, S, s, a, n) == t \in Seq(S) /\ Len(t) = n /\ \A i \in 1 .. n : t[i] = s[a + i]
IsCat(u, S, s, t) ==
    /\ u \in Seq(S) /\ Len(u) = Len(s) + Len(t)
    /\ \A i \in 1 .. Len(s) : u[i] = s[i]
    /\ \A i \in 1 .. Len(t) : u[Len(s) + i] = t[i]

(* SubSeq gives a part, with no characters the string has not.             *)
LEMMA PartOf ==
    ASSUME NEW S, NEW s \in Seq(S), NEW a \in 0 .. Len(s), NEW b \in a .. Len(s)
    PROVE  /\ IsPart(SubSeq(s, a + 1, b), S, s, a, b - a)
           /\ ToSet(SubSeq(s, a + 1, b)) \subseteq ToSet(s)
<1> DEFINE t == SubSeq(s, a + 1, b)
           n == Len(s)
<1>1. n \in Nat /\ a \in 0 .. n /\ b \in a .. n
  OBVIOUS
<1>2. \A i \in a + 1 .. b : s[i] \in S
  <2>1. a + 1 .. b \subseteq 1 .. n
    <3> HIDE DEF n
    <3> QED BY <1>1
  <2> QED BY <2>1
<1>3. /\ a + 1 \in Int /\ b \in Int
      /\ (IF a + 1 <= b THEN b - (a + 1) + 1 ELSE 0) = b - a /\ b - (a + 1) + 1 = b - a
      /\ \A i \in 1 .. b - a : (a + 1) + i - 1 = a + i
  <2> HIDE DEF n
  <2> QED BY <1>1
<1>4. /\ t \in Seq(S)
      /\ Len(t) = IF a + 1 <= b THEN b - (a + 1) + 1 ELSE 0
      /\ \A i \in 1 .. b - (a + 1) + 1 : t[i] = s[(a + 1) + i - 1]
  BY <1>2, <1>3, SubSeqProperties
<1> HIDE DEF t
<1>5. Len(t) = b - a
  BY <1>3, <1>4, Zenon
<1>6. \A i \in 1 .. b - a : t[i] = s[a + i]
  <2> SUFFICES ASSUME NEW i \in 1 .. b - a PROVE t[i] = s[a + i]
    OBVIOUS
  <2>1. t[i] = s[(a + 1) + i - 1] /\ (a + 1) + i - 1 = a + i
    BY <1>3, <1>4
  <2> QED BY <2>1, Zenon
<1>7. ToSet(t) \subseteq ToSet(s)
  <2> SUFFICES ASSUME NEW i \in DOMAIN t PROVE t[i] \in ToSet(s)
    BY DEF ToSet
  <2>1. i \in 1 .. b - a
    BY <1>4, <1>5
  <2>2. a + i \in 1 .. n
    <3> HIDE DEF n
    <3> QED BY <1>1, <2>1
  <2>3. a + i \in DOMAIN s
    BY <2>2
  <2> QED BY <1>6, <2>1, <2>3 DEF ToSet
<1> QED BY <1>4, <1>5, <1>6, <1>7 DEF t, IsPart

(* Two strings one after the other. *)
LEMMA CatOf ==
    ASSUME NEW S, NEW s \in Seq(S), NEW t \in Seq(S)
    PROVE  /\ IsCat(Cat(s, t), S, s, t)
           /\ ToSet(Cat(s, t)) = ToSet(s) \cup ToSet(t)
<1> DEFINE u == Cat(s, t)
           m == Len(s)
           n == Len(t)
<1>1. /\ u \in Seq(S) /\ Len(u) = m + n
      /\ \A i \in 1 .. m + n : u[i] = IF i <= m THEN s[i] ELSE t[i - m]
  BY ConcatProperties DEF Cat
<1>2. m \in Nat /\ n \in Nat
  OBVIOUS
<1>3. /\ DOMAIN u = 1 .. m + n /\ DOMAIN s = 1 .. m /\ DOMAIN t = 1 .. n
  BY <1>1
<1> HIDE DEF u, m, n
<1>4. ASSUME NEW i \in 1 .. m PROVE i \in 1 .. m + n /\ u[i] = s[i]
  <2>1. i \in 1 .. m + n /\ i <= m
    BY <1>2
  <2> QED BY <1>1, <2>1
<1>5. ASSUME NEW i \in 1 .. n PROVE m + i \in 1 .. m + n /\ u[m + i] = t[i]
  <2> DEFINE j == m + i
  <2>1. j \in 1 .. m + n /\ ~(j <= m) /\ j - m = i
    BY <1>2
  <2> HIDE DEF j
  <2>2. u[j] = t[j - m]
    BY <1>1, <2>1
  <2> QED BY <2>1, <2>2, Zenon DEF j
<1>6. ToSet(u) = ToSet(s) \cup ToSet(t)
  <2>1. ASSUME NEW x \in ToSet(u) PROVE x \in ToSet(s) \cup ToSet(t)
    <3>1. PICK i \in 1 .. m + n : u[i] = x
      BY <1>3 DEF ToSet
    <3>2. CASE i <= m
      <4>1. i \in 1 .. m
        BY <1>2, <3>2
      <4> QED BY <1>3, <1>4, <3>1, <4>1 DEF ToSet
    <3>3. CASE ~(i <= m)
      <4>1. i - m \in 1 .. n
        BY <1>2, <3>3
      <4>2. u[i] = t[i - m]
        BY <1>1, <3>3
      <4> QED BY <1>3, <3>1, <4>1, <4>2 DEF ToSet
    <3> QED BY <3>2, <3>3
  <2>2. ASSUME NEW x \in ToSet(s) PROVE x \in ToSet(u)
    BY <1>3, <1>4 DEF ToSet
  <2>3. ASSUME NEW x \in ToSet(t) PROVE x \in ToSet(u)
    BY <1>3, <1>5 DEF ToSet
  <2> QED BY <2>1, <2>2, <2>3
<1> QED BY <1>1, <1>4, <1>5, <1>6 DEF u, m, n, IsCat

(* The first n characters, and what is left of a string from start on.     *)
FirstOf(s, n) == SubSeq(s, 0 + 1, n)
RestOf(s, start) == SubSeq(s, start + 1, Len(s))

(* Cutting what was put together: k characters into the second string.     *)
LEMMA CutCat ==
    ASSUME NEW S, NEW s \in Seq(S), NEW t \in Seq(S), NEW k \in 0 .. Len(t)
    PROVE  /\ Len(s) + k \in 0 .. Len(Cat(s, t))
           /\ SubSeq(Cat(s, t), 0 + 1, Len(s) + k) = Cat(s, SubSeq(t, 0 + 1, k))
           /\ SubSeq(Cat(s, t), Len(s) + k + 1, Len(Cat(s, t))) = SubSeq(t, k + 1, Len(t))
<1> DEFINE u == Cat(s, t)
           m == Len(s)
           n == Len(t)
           front == SubSeq(u, 0 + 1, m + k)
           tk == SubSeq(t, 0 + 1, k)
           back == SubSeq(u, m + k + 1, m + n)
           tn == SubSeq(t, k + 1, n)
<1>1. /\ u \in Seq(S) /\ Len(u) = m + n
      /\ \A i \in 1 .. m : u[i] = s[i]
      /\ \A i \in 1 .. n : u[m + i] = t[i]
  <2>1. IsCat(u, S, s, t)
    BY CatOf, Zenon
  <2> QED BY <2>1, Zenon DEF IsCat
<1>2. m \in Nat /\ n \in Nat /\ k \in 0 .. n
  OBVIOUS
<1>3. /\ tk \in Seq(S) /\ Len(tk) = k - 0 /\ \A i \in 1 .. k - 0 : tk[i] = t[0 + i]
      /\ tn \in Seq(S) /\ Len(tn) = n - k /\ \A i \in 1 .. n - k : tn[i] = t[k + i]
  <2>1. 0 \in 0 .. n /\ k \in 0 .. n /\ n \in k .. n
    <3> HIDE DEF n
    <3> QED BY <1>2
  <2>2. IsPart(tk, S, t, 0, k - 0) /\ IsPart(tn, S, t, k, n - k)
    BY <2>1, PartOf
  <2> HIDE DEF tk, tn, n
  <2> QED BY <2>2 DEF IsPart
<1>4. m + k \in 0 .. m + n /\ m + n \in m + k .. m + n /\ 0 \in 0 .. m + n
  <2> HIDE DEF m, n
  <2> QED BY <1>2
<1>5. /\ front \in Seq(S) /\ Len(front) = m + k - 0
      /\ \A i \in 1 .. m + k - 0 : front[i] = u[0 + i]
  <2> HIDE DEF m, n, u
  <2>1. IsPart(front, S, u, 0, m + k - 0)
    BY <1>1, <1>4, PartOf
  <2> HIDE DEF front
  <2> QED BY <2>1 DEF IsPart
<1>6. /\ back \in Seq(S) /\ Len(back) = (m + n) - (m + k)
      /\ \A i \in 1 .. (m + n) - (m + k) : back[i] = u[m + k + i]
  <2> HIDE DEF m, n, u
  <2>1. IsPart(back, S, u, m + k, (m + n) - (m + k))
    <3> DEFINE a == m + k
               b == m + n
    <3>1. a \in 0 .. Len(u) /\ b \in a .. Len(u)
      BY <1>1, <1>4
    <3> HIDE DEF a, b
    <3>2. IsPart(SubSeq(u, a + 1, b), S, u, a, b - a)
      BY <1>1, <3>1, PartOf
    <3> QED BY <3>2, Zenon DEF a, b, back
  <2> HIDE DEF back
  <2> QED BY <2>1, Zenon DEF IsPart
<1> DEFINE w == Cat(s, tk)
<1>7. /\ w \in Seq(S) /\ Len(w) = m + Len(tk)
      /\ \A i \in 1 .. m : w[i] = s[i]
      /\ \A i \in 1 .. Len(tk) : w[m + i] = tk[i]
  <2> HIDE DEF tk
  <2>1. IsCat(w, S, s, tk)
    BY <1>3, CatOf
  <2> QED BY <2>1, Zenon DEF IsCat
<1> HIDE DEF m, n, u, front, tk, back, tn, w
<1>8. front = w
  <2>1. Len(front) = m + k /\ Len(w) = m + k /\ k - 0 = k /\ m + k - 0 = m + k
    BY <1>2, <1>3, <1>5, <1>7
  <2>2. ASSUME NEW i \in 1 .. m + k PROVE front[i] = w[i]
    <3>1. front[i] = u[i]
      BY <1>2, <1>5, <2>1
    <3>2. CASE i <= m
      <4>1. i \in 1 .. m
        BY <1>2, <3>2
      <4> QED BY <1>1, <1>7, <3>1, <4>1
    <3>3. CASE ~(i <= m)
      <4> DEFINE j == i - m
      <4>1. j \in 1 .. k /\ j \in 1 .. n /\ m + j = i /\ 0 + j = j
        BY <1>2, <3>3
      <4> HIDE DEF j
      <4>2. u[m + j] = t[j] /\ tk[j] = t[0 + j] /\ w[m + j] = tk[j]
        BY <1>1, <1>3, <1>7, <2>1, <4>1
      <4> QED BY <3>1, <4>1, <4>2
    <3> QED BY <3>2, <3>3
  <2> QED BY <1>5, <1>7, <2>1, <2>2, SeqEqual
<1>9. back = tn
  <2>1. (m + n) - (m + k) = n - k
    BY <1>2
  <2>2. ASSUME NEW i \in 1 .. n - k PROVE back[i] = tn[i]
    <3> DEFINE j == k + i
    <3>1. j \in 1 .. n /\ m + k + i = m + j
      BY <1>2
    <3>2. back[i] = u[m + k + i] /\ tn[i] = t[j]
      BY <1>3, <1>6, <2>1
    <3> HIDE DEF j
    <3>3. u[m + j] = t[j]
      BY <1>1, <3>1
    <3> QED BY <3>1, <3>2, <3>3
  <2> QED BY <1>3, <1>6, <2>1, <2>2, SeqEqual
<1> QED BY <1>1, <1>4, <1>8, <1>9 DEF m, n, u, front, tk, back, tn, w

(* Cutting at a place that is in the second string.                        *)
LEMMA CutAt ==
    ASSUME NEW S, NEW s \in Seq(S), NEW t \in Seq(S), NEW k \in 0 .. Len(t), NEW j, j = Len(s) + k
    PROVE  /\ j \in 0 .. Len(Cat(s, t))
           /\ FirstOf(Cat(s, t), j) = Cat(s, FirstOf(t, k))
           /\ RestOf(Cat(s, t), j) = RestOf(t, k)
BY CutCat, Zenon DEF FirstOf, RestOf

(* A part of the end of a string is a part of the string. *)
LEMMA PartOfEnd ==
    ASSUME NEW S, NEW s \in Seq(S), NEW a \in 0 .. Len(s), NEW k \in 0 .. Len(s) - a
    PROVE  LET t == SubSeq(s, a + 1, Len(s))
           IN  /\ SubSeq(t, 0 + 1, k) = SubSeq(s, a + 1, a + k)
               /\ SubSeq(t, k + 1, Len(t)) = SubSeq(s, a + k + 1, Len(s))
<1> DEFINE n == Len(s)
           t == SubSeq(s, a + 1, n)
           l == Len(t)
<1>1. n \in Nat /\ a \in 0 .. n /\ k \in 0 .. n - a
  OBVIOUS
<1>2. n \in a .. n
  <2> HIDE DEF n
  <2> QED BY <1>1
<1>3. t \in Seq(S) /\ l = n - a /\ \A i \in 1 .. n - a : t[i] = s[a + i]
  <2>1. IsPart(t, S, s, a, n - a)
    BY <1>2, PartOf
  <2> HIDE DEF t, n
  <2> QED BY <2>1 DEF IsPart
<1> HIDE DEF l
<1>4. /\ 0 \in 0 .. l /\ k \in 0 .. l /\ l \in k .. l /\ a + k \in a .. n /\ a + k \in 0 .. n
      /\ n \in a + k .. n
  <2> HIDE DEF n, t
  <2> QED BY <1>1, <1>3
<1> DEFINE f1 == SubSeq(t, 0 + 1, k)
           f2 == SubSeq(s, a + 1, a + k)
           b1 == SubSeq(t, k + 1, l)
           b2 == SubSeq(s, a + k + 1, n)
<1>5. /\ f1 \in Seq(S) /\ Len(f1) = k - 0 /\ \A i \in 1 .. k - 0 : f1[i] = t[0 + i]
      /\ b1 \in Seq(S) /\ Len(b1) = l - k /\ \A i \in 1 .. l - k : b1[i] = t[k + i]
  <2> HIDE DEF t
  <2>1. IsPart(f1, S, t, 0, k - 0) /\ IsPart(b1, S, t, k, l - k)
    BY <1>3, <1>4, PartOf DEF l
  <2> HIDE DEF f1, b1
  <2> QED BY <2>1 DEF IsPart
<1>6. /\ f2 \in Seq(S) /\ Len(f2) = a + k - a /\ \A i \in 1 .. a + k - a : f2[i] = s[a + i]
      /\ b2 \in Seq(S) /\ Len(b2) = n - (a + k) /\ \A i \in 1 .. n - (a + k) : b2[i] = s[a + k + i]
  <2>1. IsPart(f2, S, s, a, a + k - a) /\ IsPart(b2, S, s, a + k, n - (a + k))
    BY <1>4, PartOf
  <2> HIDE DEF f2, b2, n
  <2> QED BY <2>1, Zenon DEF IsPart
<1> HIDE DEF n, t, f1, f2, b1, b2
<1>7. f1 = f2
  <2>1. k - 0 = k /\ a + k - a = k
    BY <1>1
  <2>2. ASSUME NEW i \in 1 .. k PROVE f1[i] = f2[i]
    <3>1. i \in 1 .. n - a /\ 0 + i = i
      BY <1>1
    <3>2. f1[i] = t[0 + i] /\ f2[i] = s[a + i]
      BY <1>5, <1>6, <2>1
    <3> QED BY <1>3, <3>1, <3>2
  <2> QED BY <1>5, <1>6, <2>1, <2>2, SeqEqual
<1>8. b1 = b2
  <2>1. l - k = n - (a + k)
    BY <1>1, <1>3
  <2>2. ASSUME NEW i \in 1 .. l - k PROVE b1[i] = b2[i]
    <3> DEFINE j == k + i
    <3>1. j \in 1 .. n - a /\ a + j = a + k + i
      BY <1>1, <1>3
    <3>2. b1[i] = t[j] /\ b2[i] = s[a + k + i]
      BY <1>5, <1>6, <2>1
    <3> HIDE DEF j
    <3>3. t[j] = s[a + j]
      BY <1>3, <3>1
    <3> QED BY <3>1, <3>2, <3>3
  <2> QED BY <1>5, <1>6, <2>1, <2>2, SeqEqual
<1> QED BY <1>7, <1>8 DEF t, l, f1, f2, b1, b2, n

(* Two strings that end with the same characters. *)
LEMMA SameEnds ==
    ASSUME NEW S, NEW s \in Seq(S), NEW done \in Seq(S), NEW start \in 0 .. Len(s)
    PROVE  SameFrom(s, start, Cat(done, RestOf(s, start)), Len(done))
<1> DEFINE n == Len(s)
           t == RestOf(s, start)
           u == Cat(done, t)
           m == Len(done)
<1>1. n \in Nat /\ m \in Nat /\ start \in 0 .. n /\ start \in Nat /\ start <= n /\ n \in start .. n
  OBVIOUS
<1>2. t \in Seq(S) /\ Len(t) = n - start /\ \A i \in 1 .. n - start : t[i] = s[start + i]
  <2>1. IsPart(t, S, s, start, n - start)
    BY <1>1, PartOf DEF RestOf
  <2> HIDE DEF t
  <2> QED BY <2>1 DEF IsPart
<1> HIDE DEF t
<1>3. u \in Seq(S) /\ Len(u) = m + Len(t) /\ \A i \in 1 .. Len(t) : u[m + i] = t[i]
  <2>1. IsCat(u, S, done, t)
    BY <1>2, CatOf
  <2> QED BY <2>1, Zenon DEF IsCat
<1> HIDE DEF u, m, n
<1>4. n - start = Len(u) - m /\ m <= Len(u)
  BY <1>1, <1>2, <1>3
<1>5. ASSUME NEW i \in 1 .. n - start PROVE s[start + i] = u[m + i]
  <2>1. t[i] = s[start + i]
    BY <1>2
  <2>2. u[m + i] = t[i]
    BY <1>2, <1>3
  <2> QED BY <2>1, <2>2, Zenon
<1> QED BY <1>1, <1>4, <1>5 DEF SameFrom, u, m, n, t

(* The part of the string after what is done, searched from there. *)
FoundAt(s, o, start, ci, done) ==
    IF FindAny(s, o, start, ci) = npos THEN npos
    ELSE FindAny(s, o, start, ci) - start + Len(done)

(* What find gives in the string that has been changed.                    *)
LEMMA FoundThere ==
    ASSUME NEW S, NEW s \in Seq(S), NEW o \in Seq(S), NEW done \in Seq(S),
           NEW start \in 0 .. Len(s), NEW ci, Splittable(s, o, ci),
           NUL \notin ToSet(s) \cup ToSet(done)
    PROVE  FindAny(Cat(done, RestOf(s, start)), o, Len(done), ci) = FoundAt(s, o, start, ci, done)
<1> DEFINE t == RestOf(s, start)
           u == Cat(done, t)
<1>1. Len(s) \in Nat /\ Len(s) \in start .. Len(s) /\ ci \in BOOLEAN
  BY DEF Splittable
<1>2. t \in Seq(S) /\ ToSet(t) \subseteq ToSet(s)
  <2>1. IsPart(t, S, s, start, Len(s) - start) /\ ToSet(t) \subseteq ToSet(s)
    BY <1>1, PartOf DEF RestOf
  <2> HIDE DEF t
  <2> QED BY <2>1 DEF IsPart
<1> HIDE DEF t
<1>3. u \in Seq(S) /\ ToSet(u) = ToSet(done) \cup ToSet(t)
  <2>1. IsCat(u, S, done, t) /\ ToSet(u) = ToSet(done) \cup ToSet(t)
    BY <1>2, CatOf
  <2> QED BY <2>1, Zenon DEF IsCat
<1>4. SameFrom(s, start, u, Len(done))
  BY SameEnds DEF t
<1> HIDE DEF u
<1>5. Search(u, o, Len(done), ci) = IF Search(s, o, start, ci) = npos THEN npos
                                    ELSE Search(s, o, start, ci) - start + Len(done)
  BY <1>3, <1>4, SearchMoves
<1>6. FindAny(u, o, Len(done), ci) = Search(u, o, Len(done), ci)
  BY <1>1, <1>2, <1>3, FindAnyIsSearch DEF Splittable
<1>7. FindAny(s, o, start, ci) = Search(s, o, start, ci)
  BY <1>1, FindAnyIsSearch DEF Splittable
<1> QED BY <1>5, <1>6, <1>7 DEF FoundAt, u, t

(* A part of a string without NULs is the part. *)
LEMMA SubstrIs ==
    ASSUME NEW S, NEW s \in Seq(S), NUL \notin ToSet(s), NEW p \in 0 .. Len(s)
    PROVE  Substr(s, 0, p) = SubSeq(s, 0 + 1, p) /\ From(s, p) = RestOf(s, p)
<1> DEFINE n == Len(s)
<1>1. n \in Nat /\ p \in 0 .. n
  OBVIOUS
<1>2. /\ 0 \in 0 .. n /\ p \in 0 .. n /\ n \in p .. n
      /\ Smaller(0 + p, n) = p /\ Smaller(p + n, n) = n
  <2> HIDE DEF n
  <2> QED BY <1>1 DEF Smaller
<1>3. ToSet(SubSeq(s, 0 + 1, p)) \subseteq ToSet(s) /\ ToSet(SubSeq(s, p + 1, n)) \subseteq ToSet(s)
  BY <1>2, PartOf
<1>4. /\ UpToNUL(SubSeq(s, 0 + 1, p)) = SubSeq(s, 0 + 1, p)
      /\ UpToNUL(SubSeq(s, p + 1, n)) = SubSeq(s, p + 1, n)
  BY <1>3, WithoutNUL
<1>5. Substr(s, 0, p) = UpToNUL(SubSeq(s, 0 + 1, p))
  BY <1>2, Zenon DEF Substr
<1>6. From(s, p) = UpToNUL(SubSeq(s, p + 1, n))
  BY <1>2, Zenon DEF From, Substr
<1> QED BY <1>4, <1>5, <1>6, Zenon DEF RestOf

(* One round of the loop: done grows by what is before the occurrence and  *)
(* by the replacement, and the rest is what is after the occurrence.       *)
Done(s, o, r, start, ci, done) ==
    Cat(Cat(done, SubSeq(s, start + 1, FindAny(s, o, start, ci))), r)

(* The string after a round is what is done then and what is left then.    *)
LEMMA RoundDone ==
    ASSUME NEW S, NEW s \in Seq(S), NEW o \in Seq(S), NEW r \in Seq(S), NEW done \in Seq(S),
           NEW start \in 0 .. Len(s), NEW ci, Splittable(s, o, ci),
           NUL \notin ToSet(s) \cup ToSet(r) \cup ToSet(done),
           FindAny(s, o, start, ci) # npos
    PROVE  LET new == Cat(done, RestOf(s, start))
               p == FoundAt(s, o, start, ci, done)
               done2 == Done(s, o, r, start, ci, done)
               start2 == FindAny(s, o, start, ci) + Len(o)
           IN  /\ start2 \in 0 .. Len(s)
               /\ done2 \in Seq(S) /\ NUL \notin ToSet(done2) /\ Len(done2) = p + Len(r)
               /\ Cat(Cat(Substr(new, 0, p), r), From(new, p + Len(o))) = Cat(done2, RestOf(s, start2))
<1> DEFINE end == FindAny(s, o, start, ci)
           m == Len(o)
           n == Len(s)
           d == Len(done)
           t == RestOf(s, start)
           new == Cat(done, t)
           p == FoundAt(s, o, start, ci, done)
           between == SubSeq(s, start + 1, end)
<1>1. end \in start .. n /\ end + m \in start + 1 .. n
  BY FindAnyRange
<1>2. n \in Nat /\ m \in Nat /\ d \in Nat /\ start \in 0 .. n /\ n \in start .. n
  OBVIOUS
<1> HIDE DEF end, p
<1>3. t \in Seq(S) /\ Len(t) = n - start /\ NUL \notin ToSet(t)
  <2>1. IsPart(t, S, s, start, n - start) /\ ToSet(t) \subseteq ToSet(s)
    BY <1>2, PartOf DEF RestOf
  <2> HIDE DEF t
  <2> QED BY <2>1 DEF IsPart
<1>4. between \in Seq(S) /\ Len(between) = end - start /\ NUL \notin ToSet(between)
  <2>1. IsPart(between, S, s, start, end - start) /\ ToSet(between) \subseteq ToSet(s)
    BY <1>1, PartOf
  <2> HIDE DEF between
  <2> QED BY <2>1 DEF IsPart
<1> HIDE DEF m, n, d
<1>5. /\ p = d + (end - start)
      /\ p + m = d + (end + m - start)
      /\ end - start \in 0 .. Len(t) /\ end + m - start \in 0 .. Len(t)
      /\ end - start \in 0 .. n - start /\ end + m - start \in 0 .. n - start
      /\ start + (end - start) = end /\ start + (end + m - start) = end + m
      /\ end + m \in 0 .. n
  <2>1. p = end - start + d
    BY DEF FoundAt, end, d, p
  <2> HIDE DEF t
  <2> QED BY <1>1, <1>2, <1>3, <2>1
<1>6. new \in Seq(S) /\ NUL \notin ToSet(new)
  <2> HIDE DEF t
  <2>1. IsCat(new, S, done, t) /\ ToSet(new) = ToSet(done) \cup ToSet(t)
    BY <1>3, CatOf
  <2> HIDE DEF new
  <2> QED BY <1>3, <2>1 DEF IsCat
<1> HIDE DEF new
<1>7. /\ p \in 0 .. Len(new) /\ SubSeq(new, 0 + 1, p) = Cat(done, SubSeq(t, 0 + 1, end - start))
      /\ p + m \in 0 .. Len(new)
      /\ RestOf(new, p + m) = RestOf(t, end + m - start)
  <2> DEFINE k == end - start
             l == end + m - start
  <2>1. k \in 0 .. Len(t) /\ l \in 0 .. Len(t) /\ p = d + k /\ p + m = d + l
    BY <1>5
  <2> HIDE DEF k, l, t
  <2>2. new = Cat(done, t)
    BY DEF new
  <2>3. p = Len(done) + k /\ p + m = Len(done) + l
    BY <2>1 DEF d
  <2>4. /\ p \in 0 .. Len(Cat(done, t)) /\ FirstOf(Cat(done, t), p) = Cat(done, FirstOf(t, k))
    BY <1>3, <2>1, <2>3, CutAt, SMTT(60)
  <2>5. /\ p + m \in 0 .. Len(Cat(done, t)) /\ RestOf(Cat(done, t), p + m) = RestOf(t, l)
    <3> DEFINE j == p + m
    <3>1. j = Len(done) + l
      BY <2>3
    <3> HIDE DEF j
    <3>2. /\ j \in 0 .. Len(Cat(done, t)) /\ RestOf(Cat(done, t), j) = RestOf(t, l)
      BY <1>3, <2>1, <3>1, CutAt, SMTT(60)
    <3> QED BY <3>2, Zenon DEF j
  <2>6. p \in 0 .. Len(new) /\ SubSeq(new, 0 + 1, p) = Cat(done, SubSeq(t, 0 + 1, k))
    BY <2>2, <2>4, Zenon DEF FirstOf
  <2>7. p + m \in 0 .. Len(new) /\ RestOf(new, p + m) = RestOf(t, l)
    BY <2>2, <2>5, Zenon
  <2> QED BY <2>6, <2>7, Zenon DEF k, l
<1>8. /\ SubSeq(t, 0 + 1, end - start) = between
      /\ RestOf(t, end + m - start) = RestOf(s, end + m)
  <2> DEFINE k == end - start
             l == end + m - start
  <2>1. k \in 0 .. n - start /\ l \in 0 .. n - start /\ start + k = end /\ start + l = end + m
    BY <1>5
  <2> HIDE DEF k, l
  <2>2. SubSeq(t, 0 + 1, k) = SubSeq(s, start + 1, start + k)
    BY <2>1, PartOfEnd DEF t, RestOf, n
  <2>3. SubSeq(t, l + 1, Len(t)) = SubSeq(s, start + l + 1, Len(s))
    BY <2>1, PartOfEnd DEF t, RestOf, n
  <2> HIDE DEF t
  <2> QED BY <2>1, <2>2, <2>3, Zenon DEF k, l, RestOf
<1>9. Substr(new, 0, p) = Cat(done, between) /\ From(new, p + m) = RestOf(s, end + m)
  <2>1. Substr(new, 0, p) = SubSeq(new, 0 + 1, p)
    BY <1>6, <1>7, SubstrIs
  <2>2. From(new, p + m) = RestOf(new, p + m)
    BY <1>6, <1>7, SubstrIs
  <2> HIDE DEF between, t
  <2> QED BY <1>7, <1>8, <2>1, <2>2, Zenon
<1> DEFINE front == Cat(done, between)
           done2 == Cat(front, r)
<1> HIDE DEF between
<1>10. front \in Seq(S) /\ Len(front) = p /\ NUL \notin ToSet(front)
  <2>1. IsCat(front, S, done, between) /\ ToSet(front) = ToSet(done) \cup ToSet(between)
    BY <1>4, CatOf
  <2>2. front \in Seq(S) /\ Len(front) = d + Len(between)
    BY <2>1, Zenon DEF IsCat, d
  <2> HIDE DEF front, t
  <2> QED BY <1>4, <1>5, <2>1, <2>2
<1> HIDE DEF front
<1>11. done2 \in Seq(S) /\ Len(done2) = p + Len(r) /\ NUL \notin ToSet(done2)
  <2>1. IsCat(done2, S, front, r) /\ ToSet(done2) = ToSet(front) \cup ToSet(r)
    BY <1>10, CatOf
  <2>2. done2 \in Seq(S) /\ Len(done2) = Len(front) + Len(r)
    BY <2>1, Zenon DEF IsCat
  <2> HIDE DEF done2
  <2> QED BY <1>10, <2>1, <2>2
<1>12. Cat(Cat(Substr(new, 0, p), r), From(new, p + m)) = Cat(done2, RestOf(s, end + m))
  BY <1>9, Zenon DEF front
<1>13. done2 = Done(s, o, r, start, ci, done)
  BY DEF Done, front, between, end
<1> QED BY <1>5, <1>11, <1>12, <1>13, Zenon DEF end, m, n, p, new

(* What has been done and what is left, while the loop runs: new_string is *)
(* the part done and the rest of the string from a place on, the next      *)
(* search finds what a search of the string from there finds, and what is  *)
(* done is what splitting and joining gives for the part before.           *)
Plain ==
    /\ _orig # <<>> /\ NUL \notin ToSet(string) \cup ToSet(_repl)
    /\ ignoreCase => NUL \notin ToSet(_orig)

DoneUpTo(start, done) ==
    /\ start \in 0 .. Len(string) /\ done \in Seq(Characters) /\ NUL \notin ToSet(done)
    /\ new_string = Cat(done, RestOf(string, start))
    /\ spos = FoundAt(string, _orig, start, ignoreCase, done)
    /\ Join(Split(string, _orig, ignoreCase), _repl)
         = Cat(done, Join(PieceFn(string, _orig, ignoreCase)[start], _repl))

ReplaceInv ==
    /\ string \in Seq(Characters) /\ _orig \in Seq(Characters) /\ _repl \in Seq(Characters)
    /\ ignoreCase \in BOOLEAN /\ replacing \in {"no", "loop", "returned", "exception"}
    /\ replacing # "no" /\ Plain => \E start, done : DoneUpTo(start, done)
    /\ replacing = "returned" => spos = npos

(* What the property asks of the arguments makes the string one to split.  *)
LEMMA PlainSplits ==
    Plain /\ ignoreCase \in BOOLEAN => Splittable(string, _orig, ignoreCase)
BY DEF Plain, Splittable

(* join gives a string.                                                    *)
LEMMA JoinType ==
    ASSUME NEW S, NEW vec \in Seq(Seq(S)), NEW r \in Seq(S)
    PROVE  Join(vec, r) \in Seq(S)
<1>1. Len(vec) \in 0 .. Len(vec)
  OBVIOUS
<1> QED BY <1>1, JoinFnType, JoinIsFn

(* Before the first round nothing is done. *)
LEMMA NothingDone ==
    ASSUME NEW S, NEW s \in Seq(S), NEW o \in Seq(S), NEW r \in Seq(S), NEW ci,
           Splittable(s, o, ci)
    PROVE  /\ 0 \in 0 .. Len(s) /\ <<>> \in Seq(S) /\ NUL \notin ToSet(<<>>)
           /\ s = Cat(<<>>, RestOf(s, 0))
           /\ FindAny(s, o, 0, ci) = FoundAt(s, o, 0, ci, <<>>)
           /\ Join(Split(s, o, ci), r) = Cat(<<>>, Join(PieceFn(s, o, ci)[0], r))
<1>1. 0 \in 0 .. Len(s) /\ <<>> \in Seq(S) /\ Len(<<>>) = 0 /\ 0 + 1 = 1
  OBVIOUS
<1>2. NUL \notin ToSet(<<>>)
  BY DEF ToSet
<1>3. RestOf(s, 0) = s
  BY <1>1, SubSeqFull DEF RestOf
<1>4. s = Cat(<<>>, RestOf(s, 0))
  BY <1>3, ConcatEmptySeq DEF Cat
<1>5. FindAny(s, o, 0, ci) = FoundAt(s, o, 0, ci, <<>>)
  <2> DEFINE e == FindAny(s, o, 0, ci)
  <2>1. CASE e = npos
    BY <2>1 DEF FoundAt
  <2>2. CASE e # npos
    <3>1. e \in Nat
      BY <1>1, <2>2, FindAnyRange
    <3>2. FoundAt(s, o, 0, ci, <<>>) = e - 0 + Len(<<>>)
      BY <2>2 DEF FoundAt
    <3> HIDE DEF e
    <3> QED BY <1>1, <3>1, <3>2 DEF e
  <2> QED BY <2>1, <2>2
<1>6. PieceFn(s, o, ci)[0] \in Seq(Seq(S))
  BY <1>1, PieceFnType
<1> DEFINE j == Join(PieceFn(s, o, ci)[0], r)
<1>7. j \in Seq(S)
  BY <1>6, JoinType
<1>8. Join(Split(s, o, ci), r) = j
  BY SplitPieces
<1> HIDE DEF j
<1>9. j = Cat(<<>>, j)
  BY <1>7, ConcatEmptySeq DEF Cat
<1> QED BY <1>1, <1>2, <1>4, <1>5, <1>8, <1>9 DEF j

(* One round splits one piece off and joins it. *)
LEMMA RoundJoined ==
    ASSUME NEW S, NEW s \in Seq(S), NEW o \in Seq(S), NEW r \in Seq(S), NEW done \in Seq(S),
           NEW start \in 0 .. Len(s), NEW ci, Splittable(s, o, ci),
           FindAny(s, o, start, ci) # npos
    PROVE  Cat(done, Join(PieceFn(s, o, ci)[start], r))
             = Cat(Done(s, o, r, start, ci, done),
                   Join(PieceFn(s, o, ci)[FindAny(s, o, start, ci) + Len(o)], r))
<1> DEFINE end == FindAny(s, o, start, ci)
           p == SubSeq(s, start + 1, end)
           F == PieceFn(s, o, ci)
           rest == F[end + Len(o)]
           j == Join(rest, r)
<1>1. end \in start .. Len(s) /\ end + Len(o) \in start + 1 .. Len(s)
  BY FindAnyRange
<1>2. end + Len(o) \in 0 .. Len(s)
  <2> DEFINE n == Len(s)
             x == end + Len(o)
  <2>1. n \in Nat /\ start \in 0 .. n /\ x \in start + 1 .. n
    BY <1>1
  <2> HIDE DEF n, x
  <2>2. x \in 0 .. n
    BY <2>1
  <2> QED BY <2>2 DEF n, x
<1>3. p \in Seq(S)
  <2>1. IsPart(p, S, s, start, end - start)
    BY <1>1, PartOf
  <2> HIDE DEF p
  <2> QED BY <2>1 DEF IsPart
<1>4. rest \in Seq(Seq(S)) /\ rest # <<>>
  BY <1>2, PieceFnType
<1>5. F[start] = <<p>> \o rest
  <2>1. F[start] = PieceStep(F, s, o, ci, start)
    BY PieceFnStep
  <2> HIDE DEF F
  <2> QED BY <2>1, Zenon DEF PieceStep
<1> HIDE DEF p, rest, F
<1>6. Join(F[start], r) = Cat(Cat(p, r), j)
  BY <1>3, <1>4, <1>5, JoinMore
<1>7. j \in Seq(S)
  BY <1>4, JoinType
<1> HIDE DEF j
<1>8. Cat(p, r) \in Seq(S) /\ Cat(done, p) \in Seq(S)
  BY <1>3, CatProperties
<1>9. Cat(Cat(done, Cat(p, r)), j) = Cat(done, Cat(Cat(p, r), j))
  BY <1>7, <1>8, CatProperties
<1>10. Cat(Cat(done, p), r) = Cat(done, Cat(p, r))
  BY <1>3, CatProperties
<1>11. Cat(done, Join(F[start], r)) = Cat(Cat(Cat(done, p), r), j)
  BY <1>6, <1>9, <1>10, Zenon
<1> QED BY <1>11, Zenon DEF Done, p, end, j, rest, F

(* A round goes on with the string from behind the occurrence.             *)
LEMMA ReplaceGoesOn ==
    ASSUME ReplaceInv, ReplaceOne, Plain
    PROVE  \E start, done, s2, d2 :
              /\ DoneUpTo(start, done) /\ DoneUpTo(s2, d2)'
              /\ s2 = FindAny(string, _orig, start, ignoreCase) + Len(_orig)
<1>1. /\ string \in Seq(Characters) /\ _orig \in Seq(Characters) /\ _repl \in Seq(Characters)
      /\ ignoreCase \in BOOLEAN
  BY DEF ReplaceInv
<1>2. new_string' = Cat(Cat(Substr(new_string, 0, spos), _repl),
                       From(new_string, spos + Len(_orig)))
  BY Zenon DEF ReplaceOne, Cat
<1>3. /\ replacing = "loop" /\ spos # npos
      /\ spos' = FindAny(new_string', _orig, spos + Len(_repl), ignoreCase)
      /\ string' = string /\ _orig' = _orig /\ _repl' = _repl /\ ignoreCase' = ignoreCase
  BY DEF ReplaceOne
<1>4. Splittable(string, _orig, ignoreCase)
  BY <1>1, PlainSplits
<1>5. PICK start, done : DoneUpTo(start, done)
  BY <1>3 DEF ReplaceInv
<1>6. /\ start \in 0 .. Len(string) /\ done \in Seq(Characters)
      /\ NUL \notin ToSet(string) \cup ToSet(_repl) \cup ToSet(done)
      /\ new_string = Cat(done, RestOf(string, start))
      /\ spos = FoundAt(string, _orig, start, ignoreCase, done)
  BY <1>5 DEF DoneUpTo, Plain
<1>7. FindAny(string, _orig, start, ignoreCase) # npos
  BY <1>3, <1>6 DEF FoundAt
<1> DEFINE done2 == Done(string, _orig, _repl, start, ignoreCase, done)
           start2 == FindAny(string, _orig, start, ignoreCase) + Len(_orig)
<1>8. /\ start2 \in 0 .. Len(string)
      /\ done2 \in Seq(Characters) /\ NUL \notin ToSet(done2)
      /\ Len(done2) = spos + Len(_repl)
      /\ new_string' = Cat(done2, RestOf(string, start2))
  <2>1. /\ start2 \in 0 .. Len(string)
        /\ done2 \in Seq(Characters) /\ NUL \notin ToSet(done2)
        /\ Len(done2) = FoundAt(string, _orig, start, ignoreCase, done) + Len(_repl)
        /\ Cat(Cat(Substr(Cat(done, RestOf(string, start)), 0,
                          FoundAt(string, _orig, start, ignoreCase, done)), _repl),
               From(Cat(done, RestOf(string, start)),
                    FoundAt(string, _orig, start, ignoreCase, done) + Len(_orig)))
           = Cat(done2, RestOf(string, start2))
    BY <1>1, <1>4, <1>6, <1>7, RoundDone
  <2> HIDE DEF done2, start2
  <2> QED BY <1>2, <1>6, <2>1, Zenon
<1>9. spos' = FoundAt(string, _orig, start2, ignoreCase, done2)
  <2> HIDE DEF done2, start2
  <2>1. NUL \notin ToSet(string) \cup ToSet(done2)
    BY <1>6, <1>8
  <2>2. FindAny(Cat(done2, RestOf(string, start2)), _orig, Len(done2), ignoreCase)
          = FoundAt(string, _orig, start2, ignoreCase, done2)
    BY <1>1, <1>4, <1>8, <2>1, FoundThere
  <2> QED BY <1>3, <1>8, <2>2, Zenon
<1>10. Join(Split(string, _orig, ignoreCase), _repl)
        = Cat(done2, Join(PieceFn(string, _orig, ignoreCase)[start2], _repl))
  <2>1. Cat(done, Join(PieceFn(string, _orig, ignoreCase)[start], _repl))
          = Cat(done2, Join(PieceFn(string, _orig, ignoreCase)[start2], _repl))
    BY <1>1, <1>4, <1>6, <1>7, RoundJoined
  <2> QED BY <1>5, <2>1, Zenon DEF DoneUpTo
<1>11. PICK s2, d2 : s2 = start2 /\ d2 = done2
  OBVIOUS
<1>12. DoneUpTo(s2, d2)'
  <2> HIDE DEF done2, start2
  <2>1. string' = string /\ _orig' = _orig /\ _repl' = _repl /\ ignoreCase' = ignoreCase
    BY <1>3
  <2> QED BY <1>8, <1>9, <1>10, <1>11, <2>1 DEF DoneUpTo
<1> QED BY <1>5, <1>11, <1>12

(* ReplaceInv holds at first.                                              *)
LEMMA ReplaceInit ==
    StringInit => ReplaceInv
BY EmptySeq DEF StringInit, ReplaceInv

(* Every step keeps ReplaceInv.                                            *)
LEMMA ReplaceStep ==
    ASSUME ReplaceInv, [StringNext]_StringVars
    PROVE  ReplaceInv'
<1>1. /\ string \in Seq(Characters) /\ _orig \in Seq(Characters) /\ _repl \in Seq(Characters)
      /\ ignoreCase \in BOOLEAN /\ replacing \in {"no", "loop", "returned", "exception"}
  BY DEF ReplaceInv
<1>2. ASSUME NEW s \in Strs, NEW o \in Patterns, NEW r \in Replacements, NEW ci \in BOOLEAN,
             replace_all(s, o, r, ci)
      PROVE  ReplaceInv'
  <2>1. s \in Seq(Characters) /\ o \in Seq(Characters) /\ r \in Seq(Characters)
    BY StringsAssumption
  <2>2. /\ string' = s /\ _orig' = o /\ _repl' = r /\ ignoreCase' = ci
        /\ new_string' = s /\ spos' = FindAny(s, o, 0, ci) /\ replacing' = "loop"
    BY <1>2 DEF replace_all
  <2>3. ASSUME Plain' PROVE \E start, done : DoneUpTo(start, done)'
    <3>1. Splittable(s, o, ci)
      BY <2>2, <2>3 DEF Plain, Splittable
    <3>2. /\ 0 \in 0 .. Len(s) /\ <<>> \in Seq(Characters) /\ NUL \notin ToSet(<<>>)
          /\ s = Cat(<<>>, RestOf(s, 0))
          /\ FindAny(s, o, 0, ci) = FoundAt(s, o, 0, ci, <<>>)
          /\ Join(Split(s, o, ci), r) = Cat(<<>>, Join(PieceFn(s, o, ci)[0], r))
      BY <2>1, <3>1, NothingDone
    <3>3. DoneUpTo(0, <<>>)'
      BY <2>2, <3>2 DEF DoneUpTo
    <3> QED BY <3>3
  <2> QED BY <2>1, <2>2, <2>3 DEF ReplaceInv
<1>3. ASSUME ReplaceOne PROVE ReplaceInv'
  <2>1. /\ replacing = "loop" /\ replacing' = replacing
        /\ string' = string /\ _orig' = _orig /\ _repl' = _repl /\ ignoreCase' = ignoreCase
    BY <1>3 DEF ReplaceOne
  <2>2. ASSUME Plain' PROVE \E start, done : DoneUpTo(start, done)'
    <3>1. Plain
      BY <2>1, <2>2 DEF Plain
    <3> QED BY <1>3, <3>1, ReplaceGoesOn
  <2>3. replacing' # "returned" /\ replacing' \in {"no", "loop", "returned", "exception"}
    BY <2>1
  <2> QED BY <1>1, <2>1, <2>2, <2>3 DEF ReplaceInv
<1>4. CASE ReplaceReturns \/ ReplaceThrows \/ UNCHANGED StringVars
  <2>1. /\ string' = string /\ _orig' = _orig /\ _repl' = _repl /\ ignoreCase' = ignoreCase
        /\ new_string' = new_string /\ spos' = spos
        /\ \/ replacing' = replacing
           \/ replacing = "loop" /\ spos = npos /\ replacing' = "returned"
           \/ replacing = "loop" /\ replacing' = "exception"
    BY <1>4 DEF ReplaceReturns, ReplaceThrows, StringVars
  <2>2. ASSUME replacing' # "no", Plain' PROVE \E start, done : DoneUpTo(start, done)'
    <3>1. replacing # "no" /\ Plain
      BY <2>1, <2>2 DEF Plain
    <3>2. PICK start, done : DoneUpTo(start, done)
      BY <3>1 DEF ReplaceInv
    <3>3. DoneUpTo(start, done)'
      BY <2>1, <3>2 DEF DoneUpTo
    <3> QED BY <3>3
  <2>3. replacing' \in {"no", "loop", "returned", "exception"} /\ (replacing' = "returned" => spos' = npos)
    BY <1>1, <2>1 DEF ReplaceInv
  <2> QED BY <1>1, <2>1, <2>2, <2>3 DEF ReplaceInv
<1> QED BY <1>2, <1>3, <1>4 DEF StringNext

(* When the loop ends nothing is left to split. *)
LEMMA ReplaceInvGives ==
    ReplaceInv => ReplaceIsSplitJoin
<1> SUFFICES ASSUME ReplaceInv, replacing = "returned", Plain
             PROVE  new_string = Join(Split(string, _orig, ignoreCase), _repl)
  BY DEF ReplaceIsSplitJoin, Plain
<1>1. /\ string \in Seq(Characters) /\ _orig \in Seq(Characters) /\ _repl \in Seq(Characters)
      /\ ignoreCase \in BOOLEAN /\ spos = npos
  BY DEF ReplaceInv
<1>2. PICK start, done : DoneUpTo(start, done)
  BY DEF ReplaceInv
<1>3. Splittable(string, _orig, ignoreCase)
  BY <1>1, PlainSplits
<1>4. start \in 0 .. Len(string) /\ done \in Seq(Characters)
  BY <1>2 DEF DoneUpTo
<1> DEFINE e == FindAny(string, _orig, start, ignoreCase)
           F == PieceFn(string, _orig, ignoreCase)
           p == RestOf(string, start)
<1>5. e = npos
  <2> SUFFICES ASSUME e # npos PROVE FALSE
    OBVIOUS
  <2>1. e \in start .. Len(string)
    BY <1>1, <1>3, <1>4, FindAnyRange
  <2>2. npos = e - start + Len(done)
    BY <1>1, <1>2 DEF DoneUpTo, FoundAt
  <2>3. Len(done) \in Nat /\ start \in Nat
    BY <1>4
  <2> HIDE DEF e
  <2>4. e - start + Len(done) >= 0
    BY <2>1, <2>3
  <2> QED BY <2>2, <2>4 DEF npos
<1>6. F[start] = <<p>>
  <2>1. F[start] = PieceStep(F, string, _orig, ignoreCase, start)
    BY <1>1, <1>3, <1>4, PieceFnStep
  <2> HIDE DEF F
  <2> QED BY <1>5, <2>1 DEF PieceStep, RestOf
<1>7. p \in Seq(Characters)
  BY <1>1, <1>4 DEF RestOf
<1> HIDE DEF p, F
<1>8. Join(F[start], _repl) = p
  <2> DEFINE v == F[start]
  <2>1. Len(v) = 1 /\ v[1] = p
    BY <1>6
  <2> HIDE DEF v
  <2>2. Join(v, _repl) = p
    BY <1>7, <2>1, JoinOne
  <2> QED BY <2>2 DEF v
<1> QED BY <1>2, <1>8, Zenon DEF DoneUpTo, F, p

(* replace_all gives what splitting at the pattern and joining with the    *)
(* replacement gives, for every string, pattern and replacement without    *)
(* NULs: an occurrence in a replacement is not replaced again, and of      *)
(* overlapping ones the first is.  (Flux.h:480-501, :352-382)              *)
THEOREM ReplacedAsSplit == StringSpec => []ReplaceIsSplitJoin
<1>1. StringInit => ReplaceInv
  BY ReplaceInit
<1>2. ReplaceInv /\ [StringNext]_StringVars => ReplaceInv'
  BY ReplaceStep
<1>3. ReplaceInv => ReplaceIsSplitJoin
  BY ReplaceInvGives
<1> QED BY <1>1, <1>2, <1>3, PTL DEF StringSpec

(* How much of the new string is behind the occurrence found: as much as   *)
(* of the string is.                                                       *)
LEMMA LeftBehind ==
    ASSUME NEW S, NEW s \in Seq(S), NEW o \in Seq(S), NEW done \in Seq(S),
           NEW start \in 0 .. Len(s), NEW ci, Splittable(s, o, ci),
           FoundAt(s, o, start, ci, done) # npos
    PROVE  LET e == FindAny(s, o, start, ci)
           IN  /\ Len(Cat(done, RestOf(s, start))) - FoundAt(s, o, start, ci, done) = Len(s) - e
               /\ e \in Nat /\ start <= e /\ Len(o) \in Nat /\ e < e + Len(o)
<1> DEFINE e == FindAny(s, o, start, ci)
           n == Len(s)
           m == Len(Cat(done, RestOf(s, start)))
<1>1. e # npos /\ FoundAt(s, o, start, ci, done) = e - start + Len(done)
  BY DEF FoundAt
<1>2. e \in start .. n /\ e + Len(o) \in start + 1 .. n
  BY <1>1, FindAnyRange
<1>3. Len(o) \in Nat /\ Len(o) # 0
  BY EmptySeq DEF Splittable
<1>4. n \in Nat /\ Len(done) \in Nat /\ start \in Nat
  OBVIOUS
<1>5. m - Len(done) = n - start /\ m \in Nat
  <2> DEFINE a == Len(done)
  <2>1. SameFrom(s, start, Cat(done, RestOf(s, start)), a)
    BY SameEnds
  <2> HIDE DEF a
  <2>2. n - start = m - a
    BY <2>1, Zenon DEF SameFrom
  <2>3. RestOf(s, start) \in Seq(S)
    BY DEF RestOf
  <2>4. m \in Nat
    BY <2>3, CatProperties
  <2> QED BY <2>2, <2>4 DEF a
<1> HIDE DEF e, m, n
<1>6. e \in Nat /\ start <= e
  BY <1>2, <1>4
<1>7. m - (e - start + Len(done)) = n - e
  BY <1>4, <1>5, <1>6
<1> QED BY <1>1, <1>3, <1>6, <1>7 DEF e, m, n

(* Each round leaves less of the string to search, so replace_all ends for *)
(* every pattern that is not empty, also where the replacement holds the   *)
(* pattern.  (Flux.h:484-490)                                              *)
THEOREM EachReplacementLeavesLess ==
    StringSpec =>
      [][Plain /\ ReplaceOne /\ spos' # npos
         => Len(new_string') - spos' < Len(new_string) - spos]_StringVars
<1>1. StringInit => ReplaceInv
  BY ReplaceInit
<1>2. ReplaceInv /\ [StringNext]_StringVars => ReplaceInv'
  BY ReplaceStep
<1>3. ASSUME ReplaceInv, Plain, ReplaceOne, spos' # npos
      PROVE  Len(new_string') - spos' < Len(new_string) - spos
  <2>1. PICK start, done, s2, d2 :
           /\ DoneUpTo(start, done) /\ DoneUpTo(s2, d2)'
           /\ s2 = FindAny(string, _orig, start, ignoreCase) + Len(_orig)
    BY <1>3, ReplaceGoesOn
  <2>2. /\ string \in Seq(Characters) /\ _orig \in Seq(Characters)
        /\ Splittable(string, _orig, ignoreCase)
    BY <1>3, PlainSplits DEF ReplaceInv
  <2>3. /\ string' = string /\ _orig' = _orig /\ ignoreCase' = ignoreCase /\ spos # npos
    BY <1>3 DEF ReplaceOne
  <2>4. /\ start \in 0 .. Len(string) /\ done \in Seq(Characters)
        /\ new_string = Cat(done, RestOf(string, start))
        /\ spos = FoundAt(string, _orig, start, ignoreCase, done)
    BY <2>1 DEF DoneUpTo
  <2>5. /\ s2 \in 0 .. Len(string) /\ d2 \in Seq(Characters)
        /\ new_string' = Cat(d2, RestOf(string, s2))
        /\ spos' = FoundAt(string, _orig, s2, ignoreCase, d2)
    BY <2>1, <2>3 DEF DoneUpTo
  <2> DEFINE e == FindAny(string, _orig, start, ignoreCase)
  <2>6. /\ Len(new_string) - spos = Len(string) - e
        /\ e \in Nat /\ Len(_orig) \in Nat /\ e < e + Len(_orig)
    BY <2>2, <2>3, <2>4, LeftBehind
  <2>7. PICK e2 : /\ Len(new_string') - spos' = Len(string) - e2
                  /\ e2 \in Nat /\ s2 <= e2
    BY <1>3, <2>2, <2>5, LeftBehind
  <2>8. s2 = e + Len(_orig) /\ Len(string) \in Nat
    BY <2>1, <2>2
  <2> HIDE DEF e
  <2> QED BY <2>6, <2>7, <2>8
<1>4. ReplaceInv
      => (Plain /\ ReplaceOne /\ spos' # npos
          => Len(new_string') - spos' < Len(new_string) - spos)
  BY <1>3
<1> QED BY <1>1, <1>2, <1>4, PTL DEF StringSpec

-----------------------------------------------------------------------------
(* Placeholders, for any texts and variables.                              *)
(* The characters a text without filters is made of. *)
Signs == Letters \cup {OpenBrace, CloseBrace, Bar}

(* What find gives for one character: nothing, or the first place.         *)
NextAt(p, s, c, from) ==
    \/ p = npos /\ \A i \in 1 .. Len(s) : i > from => s[i] # c
    \/ /\ p \in Nat /\ from <= p /\ p < Len(s) /\ s[p + 1] = c
       /\ \A i \in 1 .. Len(s) : i > from /\ i <= p => s[i] # c

(* find does so.                                                           *)
LEMMA FindChar ==
    ASSUME NEW S, NEW s \in Seq(S), NEW c \in S, NEW from \in Nat
    PROVE  NextAt(Find(s, <<c>>, from), s, c, from)
<1> DEFINE t == <<c>>
           n == Len(s)
           P == Places(s, t, from, FALSE)
           p == Search(s, t, from, FALSE)
<1>1. t \in Seq(S) /\ Len(t) = 1 /\ t[1] = c /\ n \in Nat
  OBVIOUS
<1>2. P = {q \in from .. n - 1 : s[q + 1] = c}
  <2>1. ASSUME NEW q PROVE At(s, t, q, FALSE) <=> s[q + 1] = c
    <3>1. 1 .. Len(t) = {1}
      BY <1>1
    <3> HIDE DEF t
    <3> QED BY <1>1, <3>1 DEF At, eq
  <2> HIDE DEF t
  <2> QED BY <1>1, <2>1 DEF Places
<1>3. \/ p = npos /\ P = {}
      \/ p \in P /\ \A q \in P : p <= q
  BY <1>1, SearchResult
<1>4. Find(s, t, from) = p
  BY DEF Find
<1> HIDE DEF n, t, P, p
<1>5. CASE p = npos /\ P = {}
  <2>1. ASSUME NEW i \in 1 .. n, i > from PROVE s[i] # c
    <3> DEFINE q == i - 1
    <3>1. q \in from .. n - 1 /\ q + 1 = i
      BY <1>1, <2>1
    <3> HIDE DEF q
    <3> QED BY <1>2, <1>5, <3>1
  <2> QED BY <1>4, <1>5, <2>1 DEF NextAt, n, t
<1>6. CASE p \in P /\ \A q \in P : p <= q
  <2>1. p \in Nat /\ from <= p /\ p < n /\ s[p + 1] = c
    BY <1>1, <1>2, <1>6
  <2>2. ASSUME NEW i \in 1 .. n, i > from, i <= p PROVE s[i] # c
    <3> DEFINE q == i - 1
    <3>1. q \in from .. n - 1 /\ q + 1 = i /\ ~(p <= q)
      BY <1>1, <2>1, <2>2
    <3> HIDE DEF q
    <3> QED BY <1>2, <1>6, <3>1
  <2> QED BY <1>4, <2>1, <2>2 DEF NextAt, n, t
<1> QED BY <1>3, <1>5, <1>6

(* Strings that are the same from a and b on are from k further on.        *)
LEMMA SameFurther ==
    ASSUME NEW S, NEW s1 \in Seq(S), NEW s2 \in Seq(S), NEW a, NEW b, SameFrom(s1, a, s2, b),
           NEW k \in Nat, a + k <= Len(s1)
    PROVE  SameFrom(s1, a + k, s2, b + k)
<1> DEFINE m == Len(s1)
           n == Len(s2)
<1>1. /\ a \in Nat /\ b \in Nat /\ m \in Nat /\ n \in Nat /\ m - a = n - b /\ a + k <= m
      /\ \A i \in 1 .. m - a : s1[a + i] = s2[b + i]
  <2>1. /\ a \in Nat /\ b \in Nat /\ m - a = n - b
        /\ \A i \in 1 .. m - a : s1[a + i] = s2[b + i]
    BY Zenon DEF SameFrom
  <2>2. m \in Nat /\ n \in Nat /\ a + k <= m
    OBVIOUS
  <2> QED BY <2>1, <2>2
<1> HIDE DEF m, n
<1>2. /\ a + k \in Nat /\ b + k \in Nat /\ b + k <= n /\ m - (a + k) = n - (b + k)
  BY <1>1
<1>3. ASSUME NEW i \in 1 .. m - (a + k) PROVE s1[a + k + i] = s2[b + k + i]
  <2> DEFINE j == k + i
  <2>1. j \in 1 .. m - a /\ a + j = a + k + i /\ b + j = b + k + i
    BY <1>1
  <2> HIDE DEF j
  <2>2. s1[a + j] = s2[b + j]
    BY <1>1, <2>1
  <2> QED BY <2>1, <2>2, Zenon
<1> QED BY <1>1, <1>2, <1>3 DEF SameFrom, m, n

(* A value put between what is before a and what is after b.               *)
IsPut(u, S, s, a, v, b) ==
    /\ u \in Seq(S) /\ Len(u) = a + Len(v) + (Len(s) - b) /\ NUL \notin ToSet(u)
    /\ \A i \in 1 .. Len(v) : u[a + i] = v[i]
    /\ \A i \in 1 .. Len(s) - b : u[a + Len(v) + i] = s[b + i]

(* A round of the loop does so.                                            *)
LEMMA PutBetween ==
    ASSUME NEW S, NEW s \in Seq(S), NEW v \in Seq(S), NUL \notin ToSet(s) \cup ToSet(v),
           NEW a \in 0 .. Len(s), NEW b \in 0 .. Len(s)
    PROVE  IsPut(Cat(Cat(Substr(s, 0, a), v), From(s, b)), S, s, a, v, b)
<1> DEFINE f == FirstOf(s, a)
           r == RestOf(s, b)
           w == Cat(f, v)
           u == Cat(w, r)
           n == Len(s)
           l == Len(v)
<1>1. Substr(s, 0, a) = f /\ From(s, b) = r
  BY SubstrIs DEF FirstOf
<1>2. n \in Nat /\ l \in Nat /\ a \in 0 .. n /\ b \in 0 .. n
  OBVIOUS
<1>3. 0 \in 0 .. n /\ n \in b .. n /\ a - 0 = a
  <2> HIDE DEF n
  <2> QED BY <1>2
<1>4. /\ IsPart(f, S, s, 0, a) /\ IsPart(r, S, s, b, n - b)
      /\ ToSet(f) \subseteq ToSet(s) /\ ToSet(r) \subseteq ToSet(s)
  BY <1>3, PartOf DEF FirstOf, RestOf
<1> HIDE DEF f, r
<1>5. /\ f \in Seq(S) /\ Len(f) = a
      /\ r \in Seq(S) /\ Len(r) = n - b /\ \A i \in 1 .. n - b : r[i] = s[b + i]
  BY <1>4, Zenon DEF IsPart
<1>6. IsCat(w, S, f, v) /\ ToSet(w) = ToSet(f) \cup ToSet(v)
  BY <1>5, CatOf
<1>7. /\ w \in Seq(S) /\ Len(w) = a + l
      /\ \A i \in 1 .. l : w[a + i] = v[i]
  BY <1>5, <1>6, Zenon DEF IsCat
<1> HIDE DEF w
<1>8. IsCat(u, S, w, r) /\ ToSet(u) = ToSet(w) \cup ToSet(r)
  BY <1>5, <1>7, CatOf
<1>9. /\ u \in Seq(S) /\ Len(u) = a + l + (n - b)
      /\ \A i \in 1 .. a + l : u[i] = w[i]
      /\ \A i \in 1 .. n - b : u[a + l + i] = r[i]
  BY <1>5, <1>7, <1>8, Zenon DEF IsCat
<1>10. NUL \notin ToSet(u)
  BY <1>4, <1>6, <1>8
<1> HIDE DEF u, n, l
<1>11. ASSUME NEW i \in 1 .. l PROVE u[a + i] = v[i]
  <2>1. a + i \in 1 .. a + l
    BY <1>2
  <2> QED BY <1>7, <1>9, <2>1
<1>12. ASSUME NEW i \in 1 .. n - b PROVE u[a + l + i] = s[b + i]
  BY <1>5, <1>9, Zenon
<1>13. IsPut(u, S, s, a, v, b)
  BY <1>9, <1>10, <1>11, <1>12 DEF IsPut, l, n
<1> QED BY <1>1, <1>13 DEF u, w

(* The two braces are different characters.                                *)
LEMMA BracesDiffer ==
    OpenBrace # CloseBrace
BY Zenon DEF OpenBrace, CloseBrace

(* The closing braces among the first k characters.                        *)
ClosedBy(s, k) == {i \in Closing(s) : i <= k}

(* There are so many of them, a number.                                    *)
LEMMA ClosedFinite ==
    ASSUME NEW S, NEW s \in Seq(S), NEW k
    PROVE  IsFiniteSet(ClosedBy(s, k)) /\ Cardinality(ClosedBy(s, k)) \in Nat
<1>1. IsFiniteSet(1 .. Len(s))
  BY FS_Interval
<1>2. ClosedBy(s, k) \subseteq 1 .. Len(s)
  BY DEF ClosedBy, Closing
<1>3. IsFiniteSet(ClosedBy(s, k))
  BY <1>1, <1>2, FS_Subset
<1> QED BY <1>3, FS_CardinalityType

(* They are at most all closing braces.                                    *)
LEMMA ClosedAll ==
    ASSUME NEW S, NEW s \in Seq(S), NEW k \in Int
    PROVE  /\ ClosedBy(s, Len(s)) = Closing(s)
           /\ Cardinality(ClosedBy(s, k)) <= Cardinality(Closing(s))
           /\ Cardinality(Closing(s)) \in Nat
<1>1. ClosedBy(s, Len(s)) = Closing(s)
  BY DEF ClosedBy, Closing
<1>2. ClosedBy(s, k) \subseteq Closing(s)
  BY DEF ClosedBy
<1>3. IsFiniteSet(Closing(s)) /\ Cardinality(Closing(s)) \in Nat
  BY <1>1, ClosedFinite
<1> QED BY <1>1, <1>2, <1>3, FS_Subset

(* Past a closing brace there is one more.                                 *)
LEMMA OneMoreClosed ==
    ASSUME NEW S, NEW s \in Seq(S), NEW k \in Nat, NEW l \in Nat, k < l, k < Len(s), s[k + 1] = CloseBrace
    PROVE  Cardinality(ClosedBy(s, k)) + 1 <= Cardinality(ClosedBy(s, l))
<1> DEFINE K == ClosedBy(s, k)
           L == ClosedBy(s, l)
           M == K \cup {k + 1}
<1>1. /\ IsFiniteSet(K) /\ Cardinality(K) \in Nat
      /\ IsFiniteSet(L) /\ Cardinality(L) \in Nat
  BY ClosedFinite
<1>2. k + 1 \notin K /\ M \subseteq L
  <2> DEFINE n == Len(s)
  <2>1. n \in Nat /\ k + 1 \in 1 .. n /\ k + 1 <= l /\ ~(k + 1 <= k)
    OBVIOUS
  <2>2. \A i \in 1 .. n : i <= k => i <= l
    BY <2>1
  <2>3. Closing(s) = {i \in 1 .. n : s[i] = CloseBrace}
    BY DEF Closing
  <2> HIDE DEF n
  <2> QED BY <2>1, <2>2, <2>3 DEF ClosedBy
<1> HIDE DEF K, L
<1>3. IsFiniteSet(M) /\ Cardinality(M) = Cardinality(K) + 1
  BY <1>1, <1>2, FS_AddElement
<1>4. Cardinality(M) <= Cardinality(L)
  BY <1>1, <1>2, FS_Subset
<1> QED BY <1>3, <1>4 DEF K, L

(* Products of numbers, for the SMT solver.                                *)
LEMMA Products ==
    ASSUME NEW a \in Nat, NEW b \in Nat, NEW c \in Nat
    PROVE  /\ b <= c => a * b <= a * c
           /\ b + 1 <= c => a * b + a <= a * c
           /\ a * b \in Nat /\ a * c \in Nat /\ 0 <= a * b
OBVIOUS

(* The growth of a string: what it has over the template, for each closing *)
(* brace of the template up to k no more than a value.                     *)
Grown(u, t, k, vals) ==
    \A longest \in Nat :
       (\A val \in vals : Len(val) <= longest) =>
          Len(u) - Len(t) <= longest * Cardinality(ClosedBy(t, k))

(* A round takes one closing brace more and adds a value at most.          *)
LEMMA GrownMore ==
    ASSUME NEW S, NEW t \in Seq(S), NEW u \in Seq(S), NEW new \in Seq(S), NEW vals,
           NEW k \in Nat, NEW l \in Nat, k < l, k < Len(t), t[k + 1] = CloseBrace,
           Grown(u, t, k, vals),
           \/ Len(new) <= Len(u)
           \/ \E val \in vals : val \in Seq(S) /\ Len(new) <= Len(u) + Len(val)
    PROVE  Grown(new, t, l, vals)
<1> SUFFICES ASSUME NEW longest \in Nat, \A val \in vals : Len(val) <= longest
             PROVE  Len(new) - Len(t) <= longest * Cardinality(ClosedBy(t, l))
  BY DEF Grown
<1> DEFINE a == Cardinality(ClosedBy(t, k))
           b == Cardinality(ClosedBy(t, l))
           m == Len(new)
           n == Len(u)
           o == Len(t)
<1>1. a \in Nat /\ b \in Nat /\ a + 1 <= b
  BY ClosedFinite, OneMoreClosed
<1>2. n - o <= longest * a
  BY DEF Grown
<1>3. m \in Nat /\ n \in Nat /\ o \in Nat
  OBVIOUS
<1>4. m <= n + longest
  <2>1. CASE \E val \in vals : val \in Seq(S) /\ m <= n + Len(val)
    <3>1. PICK val \in vals : val \in Seq(S) /\ m <= n + Len(val)
      BY <2>1
    <3>2. Len(val) <= longest /\ Len(val) \in Nat
      BY <3>1
    <3> HIDE DEF m, n
    <3> QED BY <1>3, <3>1, <3>2
  <2>2. CASE m <= n
    <3> HIDE DEF m, n
    <3> QED BY <1>3, <2>2
  <2> QED BY <2>1, <2>2
<1> HIDE DEF a, b, m, n, o
<1>5. longest * a + longest <= longest * b /\ longest * a \in Nat /\ longest * b \in Nat
  BY <1>1, Products
<1>6. m - o <= longest * b
  BY <1>2, <1>3, <1>4, <1>5
<1> QED BY <1>6 DEF b, m, o

(* When the closing brace the loop took is t[k + 1] and the string is as   *)
(* the template from there on, the next closing brace comes after the next *)
(* opening one.                                                            *)
LEMMA OrderKept ==
    ASSUME NEW S, NEW t \in Seq(S), NEW u \in Seq(S), ClosedOnce(t),
           NEW k \in Nat, k < Len(t), t[k + 1] = CloseBrace,
           NEW b \in Nat, SameFrom(u, b, t, k + 1),
           NEW from \in Nat, from <= b,
           NEW p1, NextAt(p1, u, OpenBrace, from),
           NEW p2 \in Nat, b <= p2, p2 < Len(u), u[p2 + 1] = CloseBrace
    PROVE  p1 # npos /\ p1 < p2
<1> DEFINE m == Len(u)
           n == Len(t)
           j == p2 + 1 - b + (k + 1)
<1>1. /\ m \in Nat /\ n \in Nat /\ b <= m /\ k + 1 <= n /\ m - b = n - (k + 1)
      /\ \A i \in 1 .. m - b : u[b + i] = t[k + 1 + i]
  BY DEF SameFrom
<1>2. p2 < m /\ k < n
  OBVIOUS
<1>3. Closing(t) = {i \in 1 .. n : t[i] = CloseBrace}
  BY DEF Closing
<1> HIDE DEF m, n
<1>4. /\ p2 + 1 - b \in 1 .. m - b /\ b + (p2 + 1 - b) = p2 + 1
      /\ k + 1 + (p2 + 1 - b) = j /\ j \in 1 .. n /\ k + 1 \in 1 .. n /\ k + 1 < j
  BY <1>1, <1>2
<1>5. t[j] = CloseBrace
  <2> DEFINE i == p2 + 1 - b
  <2>1. u[b + i] = t[k + 1 + i]
    BY <1>1, <1>4
  <2> HIDE DEF i, j
  <2> QED BY <1>4, <2>1, Zenon DEF i
<1>6. PICK h \in k + 1 .. j : t[h] = OpenBrace
  <2> HIDE DEF j
  <2>1. k + 1 \in Closing(t) /\ j \in Closing(t)
    BY <1>3, <1>4, <1>5
  <2> QED BY <1>4, <2>1 DEF ClosedOnce
<1> DEFINE i == h - (k + 1) + b
<1>7. u[i] = OpenBrace /\ i \in 1 .. m /\ i > from /\ i <= p2
  <2>1. h # k + 1 /\ h # j
    BY <1>5, <1>6, BracesDiffer
  <2> DEFINE g == h - (k + 1)
  <2>2. g \in 1 .. m - b /\ b + g = i /\ k + 1 + g = h
    BY <1>1, <1>4, <1>6, <2>1
  <2>3. u[b + g] = t[k + 1 + g]
    BY <1>1, <2>2
  <2>4. i \in 1 .. m /\ i > from /\ i <= p2
    BY <1>1, <1>4, <1>6, <2>1
  <2> HIDE DEF g, i
  <2> QED BY <1>6, <2>2, <2>3, <2>4
<1> HIDE DEF i
<1>8. p1 # npos
  BY <1>7 DEF NextAt, m, npos
<1>9. p1 \in Nat /\ ~(i <= p1)
  BY <1>7, <1>8 DEF NextAt, m
<1>10. i \in Nat
  BY <1>7
<1> QED BY <1>7, <1>8, <1>9, <1>10

(* A template that opens each placeholder before it closes the next and    *)
(* has no filter, and values that bring none.                              *)
QuietValue(val) ==
    ToSet(val) \cap {CloseBrace, NUL} = {} /\ ~({OpenBrace, Bar} \subseteq ToSet(val))
QuietTemplate(t) == ClosedOnce(t) /\ ToSet(t) \cap {Bar, NUL} = {}

(* What is true of the string u that the loop has made of the template t,  *)
(* with its positions p1 and p2: there is no bar after the opening brace,  *)
(* the string is as the template from the closing one on, and it grew by   *)
(* no more than a value for each closing brace before.                     *)
NoBarAfter(u, p) == \A i \in 1 .. Len(u) : i > p + 1 => u[i] # Bar
Taken(t, u, p1, p2) == IF p1 = npos \/ p2 = npos THEN Len(t) ELSE p2 - (Len(u) - Len(t))

LoopInv(t, u, p1, p2, vals) ==
    /\ u \in Seq(Signs) /\ NUL \notin ToSet(u)
    /\ p1 # npos => p1 \in Nat /\ p1 < Len(u) /\ NoBarAfter(u, p1)
    /\ p1 # npos /\ p2 # npos =>
          /\ p2 \in Nat /\ p1 < p2 /\ p2 < Len(u) /\ u[p2 + 1] = CloseBrace
          /\ SameFrom(u, p2, t, p2 - (Len(u) - Len(t)))
    /\ Grown(u, t, Taken(t, u, p1, p2), vals)

(* The name the loop looks up has no bar.                                  *)
LEMMA NoFilter ==
    ASSUME NEW u \in Seq(Signs), NUL \notin ToSet(u), NEW p1 \in Nat, NoBarAfter(u, p1),
           NEW p2 \in Nat, p1 < p2, p2 < Len(u)
    PROVE  Find(Substr(u, p1 + 1, p2), <<Bar>>, 0) = npos
<1> DEFINE n == Len(u)
           a == p1 + 1
           b == Smaller(p1 + 1 + p2, n)
           name == SubSeq(u, a + 1, b)
<1>1. n \in Nat /\ p2 < n
  OBVIOUS
<1>2. a \in 0 .. n /\ b \in a .. n
  <2> HIDE DEF n
  <2> QED BY <1>1 DEF Smaller
<1> HIDE DEF b
<1>3. IsPart(name, Signs, u, a, b - a) /\ ToSet(name) \subseteq ToSet(u)
  <2> HIDE DEF a
  <2> QED BY <1>2, PartOf DEF n
<1>4. Substr(u, p1 + 1, p2) = name
  <2>1. UpToNUL(name) = name
    BY <1>3, WithoutNUL
  <2> QED BY <2>1, Zenon DEF Substr, b, n
<1> HIDE DEF name
<1>5. name \in Seq(Signs) /\ Len(name) = b - a /\ \A i \in 1 .. b - a : name[i] = u[a + i]
  BY <1>3 DEF IsPart
<1>6. ASSUME NEW i \in 1 .. Len(name) PROVE name[i] # Bar
  <2>1. a + i \in 1 .. n /\ a + i > p1 + 1 /\ i \in 1 .. b - a
    BY <1>1, <1>2, <1>5
  <2>2. name[i] = u[a + i]
    BY <1>5, <2>1
  <2> HIDE DEF a
  <2> QED BY <2>1, <2>2 DEF NoBarAfter, n
<1>7. Bar \in Signs /\ 0 \in Nat
  BY DEF Signs
<1>8. NextAt(Find(name, <<Bar>>, 0), name, Bar, 0)
  BY <1>5, <1>7, FindChar
<1>9. \A p \in Nat : p < Len(name) => p + 1 \in 1 .. Len(name)
  BY <1>5
<1>10. Find(name, <<Bar>>, 0) = npos
  BY <1>6, <1>8, <1>9 DEF NextAt
<1> QED BY <1>4, <1>10

(* What one round makes of the string: after b it is as the template after *)
(* the closing brace the round took.  Before b there may be a value.       *)
Round(t, u, new, k, b, from, vals) ==
    /\ new \in Seq(Signs) /\ NUL \notin ToSet(new)
    /\ b \in Nat /\ from <= b /\ SameFrom(new, b, t, k + 1)
    /\ \/ Len(new) <= Len(u)
       \/ \E val \in vals : val \in Seq(Signs) /\ Len(new) <= Len(u) + Len(val)

(* So a round keeps what is true of the loop.                              *)
LEMMA RoundKeeps ==
    ASSUME NEW t \in Seq(Signs), ClosedOnce(t), NEW u \in Seq(Signs), NEW new, NEW vals,
           NEW k \in Nat, k < Len(t), t[k + 1] = CloseBrace,
           NEW b, NEW from \in Nat, Round(t, u, new, k, b, from, vals),
           Grown(u, t, k, vals),
           NEW p1, NextAt(p1, new, OpenBrace, from), p1 # npos => NoBarAfter(new, p1),
           NEW p2, p2 = npos \/ (p2 \in Nat /\ b <= p2 /\ p2 < Len(new) /\ new[p2 + 1] = CloseBrace)
    PROVE  LoopInv(t, new, p1, p2, vals)
<1> DEFINE m == Len(new)
           n == Len(t)
           o == Len(u)
<1>1. /\ new \in Seq(Signs) /\ NUL \notin ToSet(new) /\ b \in Nat /\ from <= b
      /\ SameFrom(new, b, t, k + 1)
  BY DEF Round
<1>2. /\ m \in Nat /\ n \in Nat /\ k + 1 <= n /\ m - b = n - (k + 1) /\ b <= m
  BY <1>1 DEF SameFrom
<1>3. p1 # npos => p1 \in Nat /\ p1 < m
  BY DEF NextAt
<1>4. ASSUME p1 # npos, p2 # npos
      PROVE  /\ p2 \in Nat /\ p1 < p2 /\ p2 < m /\ new[p2 + 1] = CloseBrace
             /\ SameFrom(new, p2, t, p2 - (m - n))
             /\ p2 - (m - n) \in Nat /\ k < p2 - (m - n)
  <2>1. p2 \in Nat /\ b <= p2 /\ p2 < m /\ new[p2 + 1] = CloseBrace
    BY <1>4
  <2>2. p1 < p2
    BY <1>1, <2>1, OrderKept
  <2> DEFINE j == p2 - b
  <2>3. j \in Nat /\ b + j = p2 /\ b + j <= m /\ k + 1 + j = p2 - (m - n)
    <3> HIDE DEF m, n
    <3>1. b \in Nat /\ p2 \in Nat /\ b <= p2 /\ p2 < m
      BY <1>1, <2>1
    <3>2. j \in Nat /\ b + j = p2 /\ b + j <= m
      BY <1>2, <3>1
    <3>3. m - n = b - (k + 1)
      BY <1>2, <3>1
    <3>4. k + 1 + j = p2 - (b - (k + 1))
      BY <3>1
    <3> HIDE DEF j
    <3> QED BY <3>2, <3>3, <3>4
  <2>4. k + 1 + j \in Nat /\ k < k + 1 + j
    BY <2>3
  <2> HIDE DEF j
  <2>5. SameFrom(new, b + j, t, k + 1 + j)
    BY <1>1, <2>3, SameFurther
  <2> HIDE DEF m, n
  <2> QED BY <2>1, <2>2, <2>3, <2>4, <2>5
<1> DEFINE l == Taken(t, new, p1, p2)
<1>5. l \in Nat /\ k < l
  <2>1. CASE p1 = npos \/ p2 = npos
    <3>1. l = n
      BY <2>1 DEF Taken
    <3> HIDE DEF n, l
    <3> QED BY <1>2, <3>1
  <2>2. CASE ~(p1 = npos \/ p2 = npos)
    <3>1. l = p2 - (m - n)
      BY <2>2 DEF Taken
    <3> HIDE DEF n, l, m
    <3> QED BY <1>4, <2>2, <3>1
  <2> QED BY <2>1, <2>2
<1> HIDE DEF l
<1>6. Grown(new, t, l, vals)
  BY <1>1, <1>5, GrownMore DEF Round
<1> QED BY <1>1, <1>3, <1>4, <1>6 DEF LoopInv, l, m, n

(* A string that is the template has not grown.                            *)
LEMMA NotGrown ==
    ASSUME NEW s \in Seq(Signs), NEW k, NEW vals
    PROVE  Grown(s, s, k, vals)
<1> SUFFICES ASSUME NEW longest \in Nat
             PROVE  Len(s) - Len(s) <= longest * Cardinality(ClosedBy(s, k))
  BY DEF Grown
<1> DEFINE c == Cardinality(ClosedBy(s, k))
<1>1. c \in Nat /\ Len(s) \in Nat
  BY ClosedFinite
<1> HIDE DEF c
<1>2. 0 <= longest * c /\ longest * c \in Nat
  BY <1>1, Products
<1>3. Len(s) - Len(s) = 0
  BY <1>1
<1> QED BY <1>2, <1>3 DEF c

(* The braces and the bar are characters of these texts.                   *)
LEMMA SignsAre ==
    /\ OpenBrace \in Signs /\ CloseBrace \in Signs /\ Bar \in Signs
    /\ Seq(Letters) \subseteq Seq(Signs)
BY DEF Signs

(* A string is the same as itself from any place on.                       *)
LEMMA SameAsItself ==
    ASSUME NEW S, NEW s \in Seq(S), NEW a \in Nat, a <= Len(s)
    PROVE  SameFrom(s, a, s, a)
BY DEF SameFrom

(* Before the first round the string is the template.                      *)
LEMMA LoopStarts ==
    ASSUME NEW s \in Seq(Signs), QuietTemplate(s), NEW vals, NEW p1, NEW p2,
           p1 = Find(s, <<OpenBrace>>, 0),
           p2 = IF p1 = npos THEN npos ELSE Find(s, <<CloseBrace>>, p1)
    PROVE  LoopInv(s, s, p1, p2, vals)
<1> DEFINE n == Len(s)
<1>1. n \in Nat /\ NUL \notin ToSet(s) /\ \A i \in 1 .. n : s[i] # Bar
  <2>1. NUL \notin ToSet(s) /\ Bar \notin ToSet(s)
    BY DEF QuietTemplate
  <2>2. \A i \in 1 .. n : s[i] \in ToSet(s)
    BY DEF ToSet
  <2> QED BY <2>1, <2>2
<1>2. NextAt(p1, s, OpenBrace, 0)
  BY SignsAre, FindChar
<1>3. p1 # npos => p1 \in Nat /\ p1 < n /\ s[p1 + 1] = OpenBrace
  BY <1>2 DEF NextAt
<1>4. p1 # npos => NoBarAfter(s, p1)
  BY <1>1 DEF NoBarAfter
<1>5. ASSUME p1 # npos, p2 # npos
      PROVE  /\ p2 \in Nat /\ p1 < p2 /\ p2 < n /\ s[p2 + 1] = CloseBrace
             /\ p2 - (n - n) = p2 /\ SameFrom(s, p2, s, p2)
  <2>1. NextAt(p2, s, CloseBrace, p1)
    BY <1>3, <1>5, SignsAre, FindChar
  <2>2. p2 \in Nat /\ p1 <= p2 /\ p2 < n /\ s[p2 + 1] = CloseBrace
    BY <1>5, <2>1 DEF NextAt
  <2>3. p1 # p2
    BY <1>3, <1>5, <2>2, BracesDiffer
  <2>4. SameFrom(s, p2, s, p2)
    BY <2>2, SameAsItself
  <2> HIDE DEF n
  <2> QED BY <1>1, <1>3, <1>5, <2>2, <2>3, <2>4
<1>6. Grown(s, s, Taken(s, s, p1, p2), vals)
  BY NotGrown
<1> QED BY <1>1, <1>3, <1>4, <1>5, <1>6 DEF LoopInv, n

(* A value is put in: the string goes on after it as it was after the      *)
(* closing brace.                                                          *)
LEMMA ValuePut ==
    ASSUME NEW t \in Seq(Signs), NEW u \in Seq(Signs), NEW p1, NEW p2, NEW vals,
           LoopInv(t, u, p1, p2, vals), p1 # npos, p2 # npos,
           NEW v \in vals, v \in Seq(Signs), NUL \notin ToSet(v), v # <<>>,
           NEW new, IsPut(new, Signs, u, p1, v, p2 + 1)
    PROVE  Round(t, u, new, p2 - (Len(u) - Len(t)), p1 + Len(v), p1 + 1, vals)
<1> DEFINE m == Len(u)
           n == Len(t)
           l == Len(v)
           o == Len(new)
           k == p2 - (m - n)
           b == p1 + l
<1>1. m \in Nat /\ n \in Nat /\ l \in Nat /\ l # 0
  BY EmptySeq
<1>2. /\ p1 \in Nat /\ p2 \in Nat /\ p1 < p2 /\ p2 < m
      /\ SameFrom(u, p2, t, k)
  BY DEF LoopInv
<1>3. /\ new \in Seq(Signs) /\ o = p1 + l + (m - (p2 + 1)) /\ NUL \notin ToSet(new)
      /\ \A i \in 1 .. m - (p2 + 1) : new[p1 + l + i] = u[p2 + 1 + i]
  BY DEF IsPut
<1>4. SameFrom(u, p2 + 1, t, k + 1)
  BY <1>2, SameFurther
<1>5. /\ k + 1 \in Nat /\ k + 1 <= n /\ m - (p2 + 1) = n - (k + 1)
      /\ \A i \in 1 .. m - (p2 + 1) : u[p2 + 1 + i] = t[k + 1 + i]
  BY <1>4 DEF SameFrom
<1> HIDE DEF m, n, l, o, k
<1>6. b \in Nat /\ p1 + 1 <= b /\ b <= o /\ o - b = m - (p2 + 1) /\ o <= m + l
  BY <1>1, <1>2, <1>3
<1>7. \A i \in 1 .. o - b : new[b + i] = t[k + 1 + i]
  BY <1>3, <1>5, <1>6, Zenon
<1>8. SameFrom(new, b, t, k + 1)
  BY <1>5, <1>6, <1>7 DEF SameFrom, o, n
<1> HIDE DEF b
<1>9. Round(t, u, new, k, b, p1 + 1, vals)
  BY <1>3, <1>6, <1>8 DEF Round, o, m, l
<1> QED BY <1>9 DEF k, b, m, n, l

(* After a value there is no bar, and in one with an opening brace there   *)
(* is none.                                                                *)
LEMMA NoBarThen ==
    ASSUME NEW t \in Seq(Signs), Bar \notin ToSet(t), NEW v \in Seq(Signs), QuietValue(v),
           NEW new \in Seq(Signs), NEW p \in Nat, NEW k \in Nat,
           \A i \in 1 .. Len(v) : new[p + i] = v[i],
           SameFrom(new, p + Len(v), t, k + 1),
           NEW q \in Nat, q >= p + 1, q < Len(new), new[q + 1] = OpenBrace
    PROVE  NoBarAfter(new, q)
<1> DEFINE l == Len(v)
           m == Len(new)
           n == Len(t)
<1>1. /\ l \in Nat /\ m \in Nat /\ n \in Nat /\ p + l <= m /\ m - (p + l) = n - (k + 1)
      /\ \A i \in 1 .. m - (p + l) : new[p + l + i] = t[k + 1 + i]
  <2> DEFINE a == p + l
             b == k + 1
  <2>1. SameFrom(new, a, t, b) /\ l \in Nat /\ m \in Nat /\ n \in Nat
    OBVIOUS
  <2> HIDE DEF a, b
  <2>2. a <= m /\ m - a = n - b /\ \A i \in 1 .. m - a : new[a + i] = t[b + i]
    BY <2>1, Zenon DEF SameFrom
  <2> QED BY <2>1, <2>2, Zenon DEF a, b
<1>2. \A i \in 1 .. n : t[i] # Bar
  BY DEF ToSet
<1>3. q < m
  OBVIOUS
<1> HIDE DEF l, m, n
<1>4. SUFFICES ASSUME NEW i \in 1 .. m, i > q + 1 PROVE new[i] # Bar
  BY DEF NoBarAfter, m
<1>5. CASE i > p + l
  <2> DEFINE j == i - (p + l)
  <2>1. j \in 1 .. m - (p + l) /\ p + l + j = i /\ k + 1 + j \in 1 .. n
    BY <1>1, <1>5
  <2> HIDE DEF j
  <2>2. new[p + l + j] = t[k + 1 + j]
    BY <1>1, <2>1
  <2> QED BY <1>2, <2>1, <2>2
<1>6. CASE ~(i > p + l)
  <2> DEFINE j == i - p
             h == q + 1 - p
  <2>1. j \in 1 .. l /\ p + j = i /\ h \in 1 .. l /\ p + h = q + 1
    BY <1>1, <1>3, <1>4, <1>6
  <2> HIDE DEF j, h
  <2>2. new[p + j] = v[j] /\ new[p + h] = v[h]
    BY <2>1 DEF l
  <2>3. v[h] = OpenBrace
    BY <2>1, <2>2
  <2>4. v[j] \in ToSet(v) /\ v[h] \in ToSet(v)
    BY <2>1 DEF ToSet, l
  <2>5. v[j] # Bar
    BY <2>3, <2>4 DEF QuietValue
  <2> QED BY <2>1, <2>2, <2>5
<1> QED BY <1>5, <1>6

(* A round that puts a value in.                                           *)
LEMMA RoundPuts ==
    ASSUME NEW t \in Seq(Signs), QuietTemplate(t), NEW u \in Seq(Signs), NEW p1, NEW p2,
           NEW vals, LoopInv(t, u, p1, p2, vals), p1 # npos, p2 # npos,
           NEW v \in vals, v \in Seq(Signs), QuietValue(v), v # <<>>,
           NEW new, IsPut(new, Signs, u, p1, v, p2 + 1),
           NEW q1, q1 = Find(new, <<OpenBrace>>, p1 + 1),
           NEW q2, q2 = Find(new, <<CloseBrace>>, p2 + 1)
    PROVE  /\ LoopInv(t, new, q1, q2, vals)
           /\ q2 # npos => Len(new) - q2 < Len(u) - p2
<1> DEFINE m == Len(u)
           n == Len(t)
           l == Len(v)
           k == p2 - (m - n)
           b == p1 + l
<1>1. /\ p1 \in Nat /\ p2 \in Nat /\ p1 < p2 /\ p2 < m /\ u[p2 + 1] = CloseBrace
      /\ SameFrom(u, p2, t, k) /\ Grown(u, t, k, vals)
  BY DEF LoopInv, Taken
<1>2. m \in Nat /\ n \in Nat /\ l \in Nat
  OBVIOUS
<1>3. k \in Nat /\ k < n /\ t[k + 1] = CloseBrace
  <2> HIDE DEF k
  <2>1. k \in Nat /\ m - p2 = n - k /\ \A i \in 1 .. m - p2 : u[p2 + i] = t[k + i]
    BY <1>1 DEF SameFrom
  <2> HIDE DEF m, n
  <2>2. 1 \in 1 .. m - p2 /\ k < n
    BY <1>1, <1>2, <2>1
  <2>3. u[p2 + 1] = t[k + 1]
    BY <2>1, <2>2
  <2> QED BY <1>1, <2>1, <2>2, <2>3
<1>4. NUL \notin ToSet(v) /\ Bar \notin ToSet(t) /\ \A i \in 1 .. l : v[i] # CloseBrace
  BY DEF QuietTemplate, QuietValue, ToSet
<1>5. Round(t, u, new, k, b, p1 + 1, vals)
  BY <1>4, ValuePut
<1>6. new \in Seq(Signs) /\ b \in Nat /\ SameFrom(new, b, t, k + 1)
  BY <1>5 DEF Round
<1>7. \A i \in 1 .. l : new[p1 + i] = v[i]
  BY DEF IsPut
<1>8. NextAt(q1, new, OpenBrace, p1 + 1) /\ NextAt(q2, new, CloseBrace, p2 + 1)
  BY <1>1, <1>6, SignsAre, FindChar
<1>9. q1 # npos => NoBarAfter(new, q1)
  <2> SUFFICES ASSUME q1 # npos PROVE NoBarAfter(new, q1)
    OBVIOUS
  <2>1. q1 \in Nat /\ q1 >= p1 + 1 /\ q1 < Len(new) /\ new[q1 + 1] = OpenBrace
    BY <1>1, <1>8 DEF NextAt
  <2> HIDE DEF k
  <2> QED BY <1>1, <1>3, <1>4, <1>6, <1>7, <2>1, NoBarThen
<1> HIDE DEF k, l, m, n
<1>10. q2 = npos \/ (q2 \in Nat /\ b <= q2 /\ q2 < Len(new) /\ new[q2 + 1] = CloseBrace)
  <2> SUFFICES ASSUME q2 # npos
               PROVE  q2 \in Nat /\ b <= q2 /\ q2 < Len(new) /\ new[q2 + 1] = CloseBrace
    BY Zenon
  <2>1. q2 \in Nat /\ q2 >= p2 + 1 /\ q2 < Len(new) /\ new[q2 + 1] = CloseBrace
    BY <1>1, <1>8 DEF NextAt
  <2>2. b <= q2
    <3> SUFFICES ASSUME ~(b <= q2) PROVE FALSE
      OBVIOUS
    <3> DEFINE i == q2 + 1 - p1
    <3>1. i \in 1 .. l /\ p1 + i = q2 + 1
      BY <1>1, <1>2, <2>1
    <3> HIDE DEF i
    <3>2. new[p1 + i] = v[i] /\ v[i] # CloseBrace
      BY <1>4, <1>7, <3>1
    <3> QED BY <2>1, <3>1, <3>2
  <2> QED BY <2>1, <2>2
<1> HIDE DEF b
<1>11. ClosedOnce(t) /\ p1 + 1 \in Nat
  BY <1>1 DEF QuietTemplate
<1>12. LoopInv(t, new, q1, q2, vals)
  BY <1>1, <1>3, <1>5, <1>8, <1>9, <1>10, <1>11, RoundKeeps DEF n
<1>13. q2 # npos => Len(new) - q2 < m - p2
  <2> SUFFICES ASSUME q2 # npos PROVE Len(new) - q2 < m - p2
    OBVIOUS
  <2> DEFINE j == k + 1
             o == Len(new)
  <2>1. o \in Nat /\ SameFrom(new, b, t, j)
    BY <1>6
  <2>2. o - b = n - j
    BY <2>1, Zenon DEF SameFrom, n, o
  <2>3. b \in Nat /\ k \in Nat /\ q2 \in Nat /\ b <= q2 /\ p2 \in Nat
    BY <1>1, <1>3, <1>6, <1>10
  <2>4. m - p2 = n - k
    BY <1>2, <2>3 DEF k
  <2> HIDE DEF o
  <2> QED BY <1>2, <2>1, <2>2, <2>3, <2>4 DEF o
<1> QED BY <1>12, <1>13 DEF m

(* A round that puts nothing in: the positions move on.                    *)
LEMMA RoundMoves ==
    ASSUME NEW t \in Seq(Signs), QuietTemplate(t), NEW u \in Seq(Signs), NEW p1, NEW p2,
           NEW vals, LoopInv(t, u, p1, p2, vals), p1 # npos, p2 # npos,
           NEW q1, q1 = Find(u, <<OpenBrace>>, p1 + 1),
           NEW q2, q2 = Find(u, <<CloseBrace>>, p2 + 1)
    PROVE  /\ LoopInv(t, u, q1, q2, vals)
           /\ q2 # npos => Len(u) - q2 < Len(u) - p2
<1> DEFINE m == Len(u)
           n == Len(t)
           k == p2 - (m - n)
           b == p2 + 1
<1>1. /\ p1 \in Nat /\ p2 \in Nat /\ p1 < p2 /\ p2 < m /\ u[p2 + 1] = CloseBrace
      /\ NUL \notin ToSet(u) /\ NoBarAfter(u, p1)
      /\ SameFrom(u, p2, t, k) /\ Grown(u, t, k, vals)
  BY DEF LoopInv, Taken
<1>2. m \in Nat /\ n \in Nat
  OBVIOUS
<1>3. k \in Nat /\ k < n /\ t[k + 1] = CloseBrace
  <2> HIDE DEF k
  <2>1. k \in Nat /\ m - p2 = n - k /\ \A i \in 1 .. m - p2 : u[p2 + i] = t[k + i]
    BY <1>1 DEF SameFrom
  <2> HIDE DEF m, n
  <2>2. 1 \in 1 .. m - p2 /\ k < n
    BY <1>1, <1>2, <2>1
  <2>3. u[p2 + 1] = t[k + 1]
    BY <2>1, <2>2
  <2> QED BY <1>1, <2>1, <2>2, <2>3
<1> HIDE DEF k
<1>4. SameFrom(u, b, t, k + 1)
  <2>1. p2 + 1 <= m
    BY <1>1, <1>2
  <2> QED BY <1>1, <2>1, SameFurther
<1>5. Round(t, u, u, k, b, p1 + 1, vals)
  <2>1. b \in Nat /\ p1 + 1 <= b /\ m <= m
    BY <1>1, <1>2
  <2> QED BY <1>1, <1>4, <2>1 DEF Round
<1>6. NextAt(q1, u, OpenBrace, p1 + 1) /\ NextAt(q2, u, CloseBrace, p2 + 1)
  BY <1>1, SignsAre, FindChar
<1>7. q1 # npos => NoBarAfter(u, q1)
  <2>1. q1 # npos => q1 \in Nat /\ q1 >= p1 + 1
    BY <1>1, <1>6 DEF NextAt
  <2> QED BY <1>1, <2>1 DEF NoBarAfter
<1>8. q2 = npos \/ (q2 \in Nat /\ b <= q2 /\ q2 < Len(u) /\ u[q2 + 1] = CloseBrace)
  BY <1>6, Zenon DEF NextAt
<1>9. ClosedOnce(t) /\ p1 + 1 \in Nat
  BY <1>1 DEF QuietTemplate
<1>10. q2 # npos => m - q2 < m - p2
  BY <1>1, <1>2, <1>8
<1> HIDE DEF b
<1> QED BY <1>1, <1>3, <1>5, <1>6, <1>7, <1>8, <1>9, <1>10, RoundKeeps DEF n, m

(* What the property asks of the template and the values.                  *)
Quiet ==
    QuietTemplate(template) /\ \A val \in Values(variables) : QuietValue(val)

(* What is true of the loop, for such a template and such values.          *)
PlaceholderInv ==
    /\ template \in Seq(Letters) /\ Values(variables) \subseteq Seq(Letters)
    /\ Quiet => LoopInv(template, retstr, pos, pos2, Values(variables))

(* PlaceholderInv holds at first.                                          *)
LEMMA PlaceholderStarts ==
    PlaceholderInit => PlaceholderInv
<1> SUFFICES ASSUME PlaceholderInit PROVE PlaceholderInv
  OBVIOUS
<1>1. /\ template = <<>> /\ variables = <<>> /\ retstr = <<>> /\ pos = npos /\ pos2 = npos
      /\ <<>> \in Seq(Signs) /\ <<>> \in Seq(Letters) /\ Len(<<>>) = 0
  BY DEF PlaceholderInit
<1>2. Values(<<>>) = {} /\ ToSet(<<>>) = {}
  BY DEF Values, ToSet
<1>3. Grown(<<>>, <<>>, Taken(<<>>, <<>>, npos, npos), {})
  BY <1>1, NotGrown
<1>4. LoopInv(<<>>, <<>>, npos, npos, {})
  BY <1>1, <1>2, <1>3 DEF LoopInv
<1> QED BY <1>1, <1>2, <1>4 DEF PlaceholderInv

(* A round of the loop keeps PlaceholderInv.                               *)
LEMMA ReplaceKeeps ==
    ASSUME PlaceholderInv, ReplacePlaceholder
    PROVE  /\ PlaceholderInv'
           /\ Quiet /\ pos2' # npos => Len(retstr') - pos2' < Len(retstr) - pos2
<1>1. /\ pos # npos /\ pos2 # npos
      /\ retstr' = IF replaceWith = <<>> THEN retstr
                   ELSE Cat(Cat(Substr(retstr, 0, pos), replaceWith), From(retstr, pos2 + 1))
      /\ pos' = Find(retstr', <<OpenBrace>>, pos + 1)
      /\ pos2' = Find(retstr', <<CloseBrace>>, pos2 + 1)
      /\ template' = template /\ variables' = variables
  BY Zenon DEF ReplacePlaceholder, InLoop, Cat
<1>2. /\ template \in Seq(Letters) /\ template \in Seq(Signs)
      /\ Values(variables) \subseteq Seq(Letters) /\ Values(variables) \subseteq Seq(Signs)
  BY SignsAre DEF PlaceholderInv
<1>3. Values(variables)' = Values(variables)
  BY <1>1 DEF Values
<1> DEFINE vals == Values(variables)
<1>4. ASSUME Quiet
      PROVE  /\ LoopInv(template, retstr', pos', pos2', vals)
             /\ pos2' # npos => Len(retstr') - pos2' < Len(retstr) - pos2
  <2>1. LoopInv(template, retstr, pos, pos2, vals)
    BY <1>4 DEF PlaceholderInv
  <2>2. QuietTemplate(template) /\ \A val \in vals : QuietValue(val)
    BY <1>4 DEF Quiet
  <2>3. /\ retstr \in Seq(Signs) /\ NUL \notin ToSet(retstr) /\ pos \in Nat /\ NoBarAfter(retstr, pos)
        /\ pos2 \in Nat /\ pos < pos2 /\ pos2 < Len(retstr)
    BY <1>1, <2>1 DEF LoopInv
  <2>4. CASE replaceWith = <<>>
    <3>1. retstr' = retstr
      BY <1>1, <2>4
    <3>2. pos' = Find(retstr, <<OpenBrace>>, pos + 1) /\ pos2' = Find(retstr, <<CloseBrace>>, pos2 + 1)
      BY <1>1, <3>1
    <3> HIDE DEF vals
    <3>3. /\ LoopInv(template, retstr, pos', pos2', vals)
          /\ pos2' # npos => Len(retstr) - pos2' < Len(retstr) - pos2
      BY <1>1, <1>2, <2>1, <2>2, <2>3, <3>2, RoundMoves
    <3> QED BY <3>1, <3>3, Zenon
  <2>5. CASE replaceWith # <<>>
    <3>1. Find(variable, <<Bar>>, 0) = npos
      BY <2>3, NoFilter DEF variable
    <3>2. replaceWith \in vals
      BY <2>5, <3>1, Zenon DEF replaceWith, Filtered, Values
    <3>3. replaceWith \in Seq(Signs) /\ QuietValue(replaceWith) /\ NUL \notin ToSet(replaceWith)
      BY <1>2, <2>2, <3>2 DEF QuietValue
    <3>4. retstr' = Cat(Cat(Substr(retstr, 0, pos), replaceWith), From(retstr, pos2 + 1))
      BY <1>1, <2>5
    <3>5. pos \in 0 .. Len(retstr) /\ pos2 + 1 \in 0 .. Len(retstr)
      BY <2>3
    <3>6. NUL \notin ToSet(retstr) \cup ToSet(replaceWith)
      BY <2>3, <3>3
    <3>7. IsPut(retstr', Signs, retstr, pos, replaceWith, pos2 + 1)
      BY <2>3, <3>3, <3>4, <3>5, <3>6, PutBetween
    <3> HIDE DEF vals
    <3> QED BY <1>1, <1>2, <2>1, <2>2, <2>3, <2>5, <3>2, <3>3, <3>7, RoundPuts
  <2> QED BY <2>4, <2>5
<1>5. Quiet' => Quiet
  BY <1>1, <1>3, Zenon DEF Quiet
<1> QED BY <1>1, <1>2, <1>3, <1>4, <1>5 DEF PlaceholderInv

(* Every step keeps PlaceholderInv.                                        *)
LEMMA PlaceholderKept ==
    ASSUME PlaceholderInv, [PlaceholderNext]_PlaceholderVars
    PROVE  PlaceholderInv'
<1>1. ASSUME NEW s \in Templates, NEW map \in VariableMaps, ProcessString(s, map)
      PROVE  PlaceholderInv'
  <2>1. /\ template' = s /\ variables' = map /\ retstr' = s
        /\ pos' = Find(s, <<OpenBrace>>, 0)
        /\ pos2' = IF pos' = npos THEN npos ELSE Find(s, <<CloseBrace>>, pos')
    BY <1>1 DEF ProcessString
  <2>2. /\ s \in Seq(Letters) /\ s \in Seq(Signs)
        /\ Values(map) \subseteq Seq(Letters)
    BY PlaceholderAssumption, SignsAre DEF PlaceholderTexts
  <2>3. QuietTemplate(s) => LoopInv(s, s, pos', pos2', Values(map))
    BY <2>1, <2>2, LoopStarts
  <2>4. Values(variables)' = Values(map)
    BY <2>1 DEF Values
  <2> QED BY <2>1, <2>2, <2>3, <2>4 DEF PlaceholderInv, Quiet
<1>2. ASSUME ReplacePlaceholder PROVE PlaceholderInv'
  BY <1>2, ReplaceKeeps
<1>3. CASE LookupFails \/ ProcessReturns \/ UNCHANGED PlaceholderVars
  <2>1. /\ template' = template /\ variables' = variables /\ retstr' = retstr
        /\ pos' = pos /\ pos2' = pos2
    BY <1>3 DEF LookupFails, ProcessReturns, PlaceholderVars
  <2>2. Values(variables)' = Values(variables)
    BY <2>1 DEF Values
  <2> QED BY <2>1, <2>2 DEF PlaceholderInv, Quiet
<1> QED BY <1>1, <1>2, <1>3 DEF PlaceholderNext

(* PlaceholderInv is enough for the property.                              *)
LEMMA PlaceholderInvGives ==
    PlaceholderInv => GrowthBounded
<1> SUFFICES ASSUME PlaceholderInv, Quiet
             PROVE  /\ InLoop => pos < pos2
                    /\ \A longest \in 0 .. MaxExpansion :
                         (\A val \in Values(variables) : Len(val) <= longest) =>
                            Len(retstr) <= Len(template) + Cardinality(Closing(template)) * longest
  BY Zenon DEF GrowthBounded, Quiet, QuietTemplate, QuietValue
<1>1. LoopInv(template, retstr, pos, pos2, Values(variables)) /\ template \in Seq(Letters)
  BY DEF PlaceholderInv
<1>2. InLoop => pos < pos2
  BY <1>1 DEF InLoop, LoopInv
<1>3. ASSUME NEW longest \in 0 .. MaxExpansion, \A val \in Values(variables) : Len(val) <= longest
      PROVE  Len(retstr) <= Len(template) + Cardinality(Closing(template)) * longest
  <2> DEFINE k == Taken(template, retstr, pos, pos2)
             b == Cardinality(ClosedBy(template, k))
             c == Cardinality(Closing(template))
             m == Len(retstr)
             n == Len(template)
  <2>1. longest \in Nat /\ m \in Nat /\ n \in Nat
    BY <1>1 DEF LoopInv
  <2>2. m - n <= longest * b
    BY <1>1, <1>3, <2>1 DEF LoopInv, Grown
  <2>3. k \in Int
    <3>1. ~(pos = npos \/ pos2 = npos) => pos2 \in Int
      BY <1>1 DEF LoopInv
    <3>2. k = IF pos = npos \/ pos2 = npos THEN n ELSE pos2 - (m - n)
      BY DEF Taken
    <3> HIDE DEF k, m, n
    <3> QED BY <2>1, <3>1, <3>2
  <2>4. b \in Nat /\ c \in Nat /\ b <= c
    <3> HIDE DEF k
    <3> QED BY <1>1, <2>3, ClosedFinite, ClosedAll
  <2> HIDE DEF b, c, m, n
  <2>5. longest * b <= longest * c /\ longest * b \in Nat /\ longest * c \in Nat
    BY <2>1, <2>4, Products
  <2>6. longest * c = c * longest
    BY <2>1, <2>4
  <2>7. m <= n + c * longest
    BY <2>1, <2>2, <2>5, <2>6
  <2> QED BY <2>7 DEF c, m, n
<1> QED BY <1>2, <1>3

(* In a template that opens a placeholder before it closes the next, with  *)
(* no filters, and for values that close none and bring no filter: however *)
(* many variables there are and however long their values, the closing     *)
(* brace the loop takes is after the opening one, and each closing brace   *)
(* of the template adds at most one value.  (PlaceholderUtil.cpp:85-120)   *)
THEOREM GrowthAlwaysBounded == PlaceholderSpec => []GrowthBounded
<1>1. PlaceholderInit => PlaceholderInv
  BY PlaceholderStarts
<1>2. PlaceholderInv /\ [PlaceholderNext]_PlaceholderVars => PlaceholderInv'
  BY PlaceholderKept
<1>3. PlaceholderInv => GrowthBounded
  BY PlaceholderInvGives
<1> QED BY <1>1, <1>2, <1>3, PTL DEF PlaceholderSpec

(* In such a template each round leaves less of the string to look at, so  *)
(* the loop ends: there are no more rounds than characters in the          *)
(* template.  (PlaceholderUtil.cpp:86-88)                                  *)
THEOREM EachRoundLeavesLess ==
    PlaceholderSpec =>
      [][Quiet /\ ReplacePlaceholder /\ pos2' # npos
         => Len(retstr') - pos2' < Len(retstr) - pos2]_PlaceholderVars
<1>1. PlaceholderInit => PlaceholderInv
  BY PlaceholderStarts
<1>2. PlaceholderInv /\ [PlaceholderNext]_PlaceholderVars => PlaceholderInv'
  BY PlaceholderKept
<1>3. PlaceholderInv
      => (Quiet /\ ReplacePlaceholder /\ pos2' # npos
          => Len(retstr') - pos2' < Len(retstr) - pos2)
  BY ReplaceKeeps
<1> QED BY <1>1, <1>2, <1>3, PTL DEF PlaceholderSpec

=============================================================================
