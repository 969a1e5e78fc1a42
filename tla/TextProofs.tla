----------------------------- MODULE TextProofs -----------------------------
(***************************************************************************)
(* Texts of any length: what splitting and joining them give, by an        *)
(* induction over the folds that do it; which of some names comes first;   *)
(* how the text of an address is read; and the fields of a line of a list. *)
(***************************************************************************)
EXTENDS Payloads, SequenceTheorems, WellFoundedInduction, TLAPS

-----------------------------------------------------------------------------
(* Induction over numbers and sequences, on sets, since the provers do not *)
(* instantiate an operator.                                                *)

\* A set with 0 that is closed under successors has all naturals.
LEMMA NatSetInduction ==
    ASSUME NEW S, 0 \in S, \A n \in Nat : n \in S => n + 1 \in S
    PROVE  Nat \subseteq S
<1> DEFINE T == Nat \ S
           R == OpToRel(<, Nat)
<1>1. IsWellFoundedOn(R, Nat)
  BY NatLessThanWellFounded
<1> SUFFICES ASSUME T # {} PROVE FALSE
  OBVIOUS
<1>2. \A y, x \in Nat : <<y, x>> \in R <=> y < x
  BY DEF OpToRel
<1> HIDE DEF R
<1>3. PICK x \in T : \A y \in T : ~ (<<y, x>> \in R)
  <2> HIDE DEF T
  <2>1. T \subseteq Nat
    BY DEF T
  <2> QED
    BY <1>1, <2>1, WFMin, Zenon
<1>4. x \in Nat /\ x \notin S /\ x # 0 /\ x - 1 \in Nat
  OBVIOUS
<1>5. x - 1 < x /\ (x - 1) + 1 = x
  BY <1>4
<1>6. x - 1 \in S
  BY <1>2, <1>3, <1>4, <1>5
<1> QED
  BY <1>4, <1>5, <1>6

\* The same up to a bound.
LEMMA UpToInduction ==
    ASSUME NEW n \in Nat, NEW S, 0 \in S, \A k \in 1 .. n : k - 1 \in S => k \in S
    PROVE  0 .. n \subseteq S
<1> DEFINE T == {k \in Nat : k <= n => k \in S}
<1>1. 0 \in T
  OBVIOUS
<1>2. ASSUME NEW k \in Nat, k \in T
      PROVE  k + 1 \in T
  <2> SUFFICES ASSUME k + 1 <= n
               PROVE  k + 1 \in S
    OBVIOUS
  <2>1. k \in S /\ k + 1 \in 1 .. n /\ (k + 1) - 1 = k
    BY <1>2
  <2> QED
    BY <2>1
<1> HIDE DEF T
<1>3. Nat \subseteq T
  BY <1>1, <1>2, NatSetInduction
<1> QED
  BY <1>3 DEF T

\* A set with the empty sequence that is closed under Append has all sequences.
LEMMA SeqSetInduction ==
    ASSUME NEW T, NEW S, <<>> \in S,
           \A s \in Seq(T) : \A e \in T : s \in S => Append(s, e) \in S
    PROVE  Seq(T) \subseteq S
<1> DEFINE Lengths == {n \in Nat : \A s \in Seq(T) : Len(s) = n => s \in S}
<1>1. 0 \in Lengths
  <2>1. \A s \in Seq(T) : Len(s) = 0 => s = <<>>
    OBVIOUS
  <2> QED
    BY <2>1
<1>2. ASSUME NEW n \in Nat, n \in Lengths
      PROVE  n + 1 \in Lengths
  <2> SUFFICES ASSUME NEW s \in Seq(T), Len(s) = n + 1
               PROVE  s \in S
    OBVIOUS
  <2>1. s # <<>>
    OBVIOUS
  <2>2. PICK r \in Seq(T), e \in T : s = Append(r, e)
    BY <2>1, SequenceEmptyOrAppend
  <2>3. Len(r) = n
    <3>1. Len(Append(r, e)) = Len(r) + 1 /\ Len(r) \in Nat
      BY AppendProperties
    <3> QED
      BY <2>2, <3>1
  <2> QED
    BY <1>2, <2>2, <2>3
<1> HIDE DEF Lengths
<1>3. Nat \subseteq Lengths
  BY <1>1, <1>2, NatSetInduction
<1>4. \A s \in Seq(T) : Len(s) \in Nat
  OBVIOUS
<1> QED
  BY <1>3, <1>4 DEF Lengths

-----------------------------------------------------------------------------
(* Folds.  FoldLeft folds over the subsets of a domain, each at its last.  *)

\* The last of the first few, and of any of them.
LEMMA LastOf ==
    ASSUME NEW n \in Nat
    PROVE  /\ \A s \in SUBSET (1 .. n) : s # {} => Max(s) \in s
           /\ \A s \in SUBSET (1 .. n), k \in 1 .. n :
                 k \in s /\ s \subseteq 1 .. k => Max(s) = k
<1>1. ASSUME NEW s \in SUBSET (1 .. n), NEW k \in 1 .. n, k \in s, s \subseteq 1 .. k
      PROVE  Max(s) = k
  <2>1. \A y \in s : k >= y
    BY <1>1
  <2>2. \E x \in s : \A y \in s : x >= y
    BY <1>1, <2>1
  <2>3. Max(s) \in s /\ \A y \in s : Max(s) >= y
    BY <2>2 DEF Max
  <2>4. Max(s) \in 1 .. n /\ k >= Max(s) /\ Max(s) >= k
    BY <1>1, <2>1, <2>3
  <2> QED
    BY <2>4
<1>2. ASSUME NEW s \in SUBSET (1 .. n), s # {}
      PROVE  Max(s) \in s
  <2> DEFINE Has == {k \in 0 .. n : s \cap (1 .. k) # {} => Max(s) \in s}
             Some == {k \in 0 .. n : s \cap (1 .. k) # {} =>
                                       \E x \in s \cap (1 .. k) :
                                          \A y \in s \cap (1 .. k) : x >= y}
  <2>1. 0 \in Some
    OBVIOUS
  <2>2. \A k \in 1 .. n : k - 1 \in Some => k \in Some
    <3> SUFFICES ASSUME NEW k \in 1 .. n, k - 1 \in Some, s \cap (1 .. k) # {}
                 PROVE  \E x \in s \cap (1 .. k) : \A y \in s \cap (1 .. k) : x >= y
      OBVIOUS
    <3>1. CASE k \in s
      <4>1. k \in s \cap (1 .. k) /\ \A y \in s \cap (1 .. k) : k >= y
        BY <3>1
      <4> QED
        BY <4>1
    <3>2. CASE k \notin s
      <4>1. s \cap (1 .. k) = s \cap (1 .. k - 1)
        BY <3>2
      <4> QED
        BY <4>1
    <3> QED
      BY <3>1, <3>2
  <2> HIDE DEF Some
  <2>3. n \in Some
    BY <2>1, <2>2, UpToInduction
  <2>4. s \cap (1 .. n) = s
    OBVIOUS
  <2>5. \E x \in s : \A y \in s : x >= y
    BY <1>2, <2>3, <2>4 DEF Some
  <2> QED
    BY <2>5 DEF Max
<1> QED
  BY <1>1, <1>2

LEMMA FirstFew ==
    ASSUME NEW n \in Nat, NEW k \in 1 .. n
    PROVE  /\ 1 .. k \in SUBSET (1 .. n) /\ 1 .. k # {}
           /\ Max(1 .. k) = k /\ (1 .. k) \ {k} = 1 .. k - 1
<1>1. 1 .. k \in SUBSET (1 .. n) /\ k \in 1 .. k /\ 1 .. k \subseteq 1 .. k
  OBVIOUS
<1>2. Max(1 .. k) = k
  BY <1>1, LastOf
<1>3. (1 .. k) \ {k} = 1 .. k - 1
  OBVIOUS
<1> QED
  BY <1>1, <1>2, <1>3

\* A function that folds over all subsets of the first n.
Folding(f, A, base, n, step) ==
    /\ f \in [SUBSET (1 .. n) -> A]
    /\ f[{}] = base
    /\ \A s \in SUBSET (1 .. n) : s # {} => f[s] = step[<<f[s \ {Max(s)}], Max(s)>>]

\* There is one.
LEMMA FoldExists ==
    ASSUME NEW A, NEW base \in A, NEW n \in Nat, NEW step \in [A \X (1 .. n) -> A]
    PROVE  \E f : Folding(f, A, base, n, step)
<1> USE DEF Folding
<1> DEFINE Good(f, k) ==
      /\ f \in [SUBSET (1 .. k) -> A]
      /\ f[{}] = base
      /\ \A s \in SUBSET (1 .. k) : s # {} => f[s] = step[<<f[s \ {Max(s)}], Max(s)>>]
           Ks == {k \in 0 .. n : \E f : Good(f, k)}
<1>1. 0 \in Ks
  <2> DEFINE f == [s \in SUBSET (1 .. 0) |-> base]
  <2>1. SUBSET (1 .. 0) = {{}}
    OBVIOUS
  <2>2. Good(f, 0)
    BY <2>1
  <2> HIDE DEF Good, f
  <2> QED
    BY <2>2
<1>2. ASSUME NEW k \in 1 .. n, k - 1 \in Ks
      PROVE  k \in Ks
  <2>1. PICK g : Good(g, k - 1)
    BY <1>2
  <2> DEFINE f == [s \in SUBSET (1 .. k) |->
                      IF k \in s THEN step[<<g[s \ {k}], k>>] ELSE g[s]]
  <2>2. \A s \in SUBSET (1 .. k) : s \ {k} \in SUBSET (1 .. k - 1)
    OBVIOUS
  <2>3. \A s \in SUBSET (1 .. k) : k \notin s => s \in SUBSET (1 .. k - 1)
    OBVIOUS
  <2>4. f \in [SUBSET (1 .. k) -> A]
    BY <2>1, <2>2, <2>3
  <2>5. f[{}] = base
    BY <2>1
  <2>6. ASSUME NEW s \in SUBSET (1 .. k), s # {}
        PROVE  f[s] = step[<<f[s \ {Max(s)}], Max(s)>>]
    <3>1. CASE k \in s
      <4>1. Max(s) = k
        BY <3>1, LastOf
      <4>2. s \ {k} \in SUBSET (1 .. k) /\ k \notin s \ {k}
        BY <2>2
      <4>3. f[s \ {k}] = g[s \ {k}]
        BY <4>2
      <4>4. f[s] = step[<<g[s \ {k}], k>>]
        BY <3>1
      <4> QED
        BY <4>1, <4>3, <4>4
    <3>2. CASE k \notin s
      <4>1. s \in SUBSET (1 .. k - 1)
        BY <2>3, <3>2
      <4>2. s \ {Max(s)} \in SUBSET (1 .. k) /\ k \notin s \ {Max(s)}
        BY <3>2
      <4>3. f[s \ {Max(s)}] = g[s \ {Max(s)}] /\ f[s] = g[s]
        BY <3>2, <4>2
      <4>4. g[s] = step[<<g[s \ {Max(s)}], Max(s)>>]
        BY <2>1, <2>6, <4>1
      <4> QED
        BY <4>3, <4>4
    <3> QED
      BY <3>1, <3>2
  <2> HIDE DEF f
  <2>7. Good(f, k)
    BY <2>4, <2>5, <2>6
  <2> HIDE DEF Good
  <2> QED
    BY <2>7
<1> HIDE DEF Ks
<1>3. n \in Ks
  BY <1>1, <1>2, UpToInduction
<1>4. PICK f : Good(f, n)
  BY <1>3 DEF Ks
<1> QED
  BY <1>4
-----------------------------------------------------------------------------
(* Split.                                                                  *)

\* What Split does with the next token.
Cut(pieces, token, separator) ==
    IF token = separator THEN Append(pieces, <<>>)
    ELSE [pieces EXCEPT ![Len(pieces)] = Append(@, token)]

\* The pieces of texts of tokens of T: one at least.
Pieces(T) == Seq(Seq(T)) \ {<<>>}

LEMMA CutType ==
    ASSUME NEW T, NEW pieces \in Pieces(T), NEW token \in T, NEW separator
    PROVE  Cut(pieces, token, separator) \in Pieces(T)
<1>1. CASE token = separator
  <2>1. Append(pieces, <<>>) \in Seq(Seq(T)) /\ Append(pieces, <<>>) # <<>>
    BY DEF Pieces
  <2> QED
    BY <1>1, <2>1 DEF Cut, Pieces
<1>2. CASE token # separator
  <2>1. pieces \in Seq(Seq(T)) /\ Len(pieces) \in 1 .. Len(pieces)
    BY DEF Pieces
  <2>2. Append(pieces[Len(pieces)], token) \in Seq(T)
    BY <2>1
  <2>3. Cut(pieces, token, separator) =
            [pieces EXCEPT ![Len(pieces)] = Append(pieces[Len(pieces)], token)]
    BY <1>2 DEF Cut
  <2>4. [pieces EXCEPT ![Len(pieces)] = Append(pieces[Len(pieces)], token)] \in Seq(Seq(T))
    BY <2>1, <2>2, ExceptSeq, Zenon
  <2>5. Len([pieces EXCEPT ![Len(pieces)] = Append(pieces[Len(pieces)], token)]) # 0
    BY <2>1, <2>2, ExceptSeq
  <2> QED
    BY <2>3, <2>4, <2>5 DEF Pieces
<1> QED
  BY <1>1, <1>2

\* The pieces after each token, from the first to what Split makes of the text.
Cutting(g, T, text, separator) ==
    /\ g \in [0 .. Len(text) -> Pieces(T)]
    /\ g[0] = << <<>> >>
    /\ \A k \in 1 .. Len(text) : g[k] = Cut(g[k - 1], text[k], separator)
    /\ Split(text, separator) = g[Len(text)]

\* Split takes the text token by token.
LEMMA SplitRun ==
    ASSUME NEW T, NEW text \in Seq(T), NEW separator
    PROVE  \E g : Cutting(g, T, text, separator)
<1> DEFINE n == Len(text)
           base == << <<>> >>
           step == [p \in Pieces(T) \X (1 .. n) |-> Cut(p[1], text[p[2]], separator)]
           Iterates(f) == f = [s \in SUBSET (1 .. n) |->
                                  IF s = {} THEN base
                                  ELSE Cut(f[s \ {Max(s)}], text[Max(s)], separator)]
<1>1. n \in Nat /\ DOMAIN text = 1 .. n /\ base \in Pieces(T)
  BY DEF Pieces
<1>2. \A k \in 1 .. n : text[k] \in T
  OBVIOUS
<1>3. step \in [Pieces(T) \X (1 .. n) -> Pieces(T)]
  BY <1>2, CutType
<1>4. \A pieces \in Pieces(T), k \in 1 .. n : step[<<pieces, k>>] = Cut(pieces, text[k], separator)
  OBVIOUS
<1> HIDE DEF step, base, n
<1>5. PICK f : Folding(f, Pieces(T), base, n, step)
  BY <1>1, <1>3, FoldExists
<1>6. \E h : Iterates(h)
  <2> USE DEF Folding
  <2>1. ASSUME NEW s \in SUBSET (1 .. n), s # {}
        PROVE  f[s] = Cut(f[s \ {Max(s)}], text[Max(s)], separator)
    <3>1. Max(s) \in 1 .. n
      BY <1>1, <2>1, LastOf
    <3>2. f[s \ {Max(s)}] \in Pieces(T)
      BY <1>5
    <3> QED
      BY <1>4, <1>5, <2>1, <3>1, <3>2
  <2>2. f = [s \in SUBSET (1 .. n) |->
                IF s = {} THEN base
                ELSE Cut(f[s \ {Max(s)}], text[Max(s)], separator)]
    BY <1>5, <2>1
  <2> QED
    BY <2>2
<1>7. PICK h : Iterates(h) /\ Split(text, separator) = h[1 .. n]
  <2>1. Split(text, separator) = (CHOOSE h : Iterates(h))[1 .. n]
    BY <1>1 DEF Split, FoldLeft, MapThenFoldSet, Cut, base
  <2> QED
    BY <1>6, <2>1
<1> DEFINE g == [k \in 0 .. n |-> h[1 .. k]]
<1>8. g[0] = base
  <2>1. 1 .. 0 = {}
    OBVIOUS
  <2> QED
    BY <1>1, <1>7, <2>1
<1>9. ASSUME NEW k \in 1 .. n
      PROVE  g[k] = Cut(g[k - 1], text[k], separator)
  <2>1. /\ 1 .. k \in SUBSET (1 .. n) /\ 1 .. k # {}
        /\ Max(1 .. k) = k /\ (1 .. k) \ {k} = 1 .. k - 1
    BY <1>1, FirstFew
  <2>2. h[1 .. k] = Cut(h[1 .. k - 1], text[k], separator)
    BY <1>7, <2>1, Zenon
  <2>3. g[k] = h[1 .. k] /\ g[k - 1] = h[1 .. k - 1]
    BY <1>1
  <2> QED
    BY <2>2, <2>3
<1> HIDE DEF g
<1> DEFINE Typed == {k \in 0 .. n : g[k] \in Pieces(T)}
<1>10. 0 .. n \subseteq Typed
  <2>1. 0 \in Typed
    BY <1>1, <1>8
  <2>2. \A k \in 1 .. n : k - 1 \in Typed => k \in Typed
    BY <1>1, <1>2, <1>9, CutType
  <2> HIDE DEF Typed
  <2> QED
    BY <1>1, <2>1, <2>2, UpToInduction
<1>11. g \in [0 .. n -> Pieces(T)] /\ Split(text, separator) = g[n]
  <2>1. \A k \in 0 .. n : g[k] \in Pieces(T)
    BY <1>10
  <2>2. n \in 0 .. n
    BY <1>1
  <2> HIDE DEF Typed
  <2> QED
    BY <1>7, <2>1, <2>2 DEF g
<1> QED
  BY <1>8, <1>9, <1>11 DEF n, base, Cutting
LEMMA SplitType ==
    ASSUME NEW T, NEW text \in Seq(T), NEW separator
    PROVE  Split(text, separator) \in Pieces(T)
<1>1. Len(text) \in 0 .. Len(text)
  OBVIOUS
<1> QED
  BY <1>1, SplitRun DEF Cutting

LEMMA SplitNothing ==
    ASSUME NEW separator
    PROVE  Split(<<>>, separator) = << <<>> >>
<1>1. <<>> \in Seq({}) /\ Len(<<>>) = 0
  OBVIOUS
<1>2. PICK g : Cutting(g, {}, <<>>, separator)
  BY <1>1, SplitRun
<1> QED
  BY <1>1, <1>2 DEF Cutting

\* One token more is one Cut more.
LEMMA SplitAppend ==
    ASSUME NEW T, NEW text \in Seq(T), NEW token \in T, NEW separator
    PROVE  Split(Append(text, token), separator) =
              Cut(Split(text, separator), token, separator)
<1> DEFINE n == Len(text)
           longer == Append(text, token)
<1>1. /\ longer \in Seq(T) /\ Len(longer) = n + 1 /\ n \in Nat
      /\ \A k \in 1 .. n : longer[k] = text[k]
      /\ longer[n + 1] = token
  OBVIOUS
<1>2. PICK g : Cutting(g, T, text, separator)
  BY SplitRun
<1>3. PICK h : Cutting(h, T, longer, separator)
  BY <1>1, SplitRun
<1> USE DEF Cutting
<1> HIDE DEF longer
<1> DEFINE Same == {k \in 0 .. n : g[k] = h[k]}
<1>4. 0 .. n \subseteq Same
  <2>1. 0 \in Same
    <3>1. 0 \in 0 .. n
      BY <1>1
    <3> QED
      BY <1>2, <1>3, <3>1
  <2>2. ASSUME NEW k \in 1 .. n, k - 1 \in Same
        PROVE  k \in Same
    <3>1. k \in 1 .. n + 1 /\ longer[k] = text[k] /\ g[k - 1] = h[k - 1]
      BY <1>1, <2>2
    <3>2. g[k] = Cut(g[k - 1], text[k], separator)
      BY <1>2
    <3>3. h[k] = Cut(h[k - 1], longer[k], separator)
      BY <1>1, <1>3, <3>1
    <3> QED
      BY <3>1, <3>2, <3>3
  <2> HIDE DEF Same
  <2> QED
    BY <1>1, <2>1, <2>2, UpToInduction
<1>5. g[n] = h[n]
  <2>1. n \in 0 .. n
    BY <1>1
  <2> QED
    BY <1>4, <2>1
<1>6. h[n + 1] = Cut(h[n], token, separator)
  <2>1. n + 1 \in 1 .. n + 1 /\ (n + 1) - 1 = n
    BY <1>1
  <2> QED
    BY <1>1, <1>3, <2>1
<1> QED
  BY <1>2, <1>3, <1>5, <1>6 DEF longer

\* A text that holds no separator is one piece.
LEMMA SplitWhole ==
    ASSUME NEW T, NEW text \in Seq(T), NEW separator, ~Holds(text, separator)
    PROVE  Split(text, separator) = <<text>>
<1> DEFINE Good == {t \in Seq(T) : ~Holds(t, separator) => Split(t, separator) = <<t>>}
<1>1. <<>> \in Good
  BY SplitNothing
<1>2. ASSUME NEW t \in Seq(T), NEW e \in T, t \in Good, ~Holds(Append(t, e), separator)
      PROVE  Split(Append(t, e), separator) = <<Append(t, e)>>
  <2>1. /\ Len(Append(t, e)) = Len(t) + 1 /\ Len(t) \in Nat
        /\ \A k \in 1 .. Len(t) : Append(t, e)[k] = t[k]
        /\ Append(t, e)[Len(t) + 1] = e
    OBVIOUS
  <2>2. e # separator
    BY <1>2, <2>1 DEF Holds, Contains
  <2>3. ~Holds(t, separator)
    BY <1>2, <2>1 DEF Holds, Contains
  <2>4. Split(t, separator) = <<t>>
    BY <1>2, <2>3
  <2>5. Cut(<<t>>, e, separator) = <<Append(t, e)>>
    BY <2>2 DEF Cut
  <2> QED
    BY <2>4, <2>5, SplitAppend
<1>3. \A t \in Seq(T) : \A e \in T : t \in Good => Append(t, e) \in Good
  BY <1>2
<1> HIDE DEF Good
<1>4. Seq(T) \subseteq Good
  BY <1>1, <1>3, SeqSetInduction
<1> QED
  BY <1>4 DEF Good

AppendsBehind(p, q, e) == Append(p \o q, e) = p \o Append(q, e)
LEMMA ConcatAppend ==
    ASSUME NEW S, NEW p \in Seq(S), NEW q \in Seq(S), NEW e \in S
    PROVE  AppendsBehind(p, q, e)
  BY DEF AppendsBehind

LEMMA ConcatParts ==
    ASSUME NEW S, NEW p \in Seq(S), NEW q \in Seq(S)
    PROVE  /\ p \o q \in Seq(S) /\ Len(p \o q) = Len(p) + Len(q)
           /\ \A i \in 1 .. Len(p) : (p \o q)[i] = p[i]
           /\ \A i \in Len(p) + 1 .. Len(p) + Len(q) : (p \o q)[i] = q[i - Len(p)]
           /\ \A i \in 1 .. Len(p) + Len(q) :
                 i \in 1 .. Len(p) \/ i \in Len(p) + 1 .. Len(p) + Len(q)
  OBVIOUS

LEMMA CutConcat ==
    ASSUME NEW T, NEW p \in Seq(Seq(T)), NEW q \in Pieces(T), NEW token \in T, NEW separator
    PROVE  Cut(p \o q, token, separator) = p \o Cut(q, token, separator)
<1>1. /\ q \in Seq(Seq(T)) /\ Len(q) \in Nat /\ Len(q) > 0 /\ Len(p) \in Nat
      /\ p \o q \in Seq(Seq(T)) /\ Len(p \o q) = Len(p) + Len(q)
      /\ \A i \in 1 .. Len(p) : (p \o q)[i] = p[i]
      /\ \A i \in Len(p) + 1 .. Len(p) + Len(q) : (p \o q)[i] = q[i - Len(p)]
  BY DEF Pieces
<1>2. CASE token = separator
  <2> DEFINE none == <<>>
             U == Seq(T)
  <2>1. none \in U /\ p \in Seq(U) /\ q \in Seq(U)
    BY <1>1
  <2> HIDE DEF none, U
  <2>2. AppendsBehind(p, q, none)
    BY <2>1, ConcatAppend
  <2> QED
    BY <1>2, <2>2 DEF Cut, none, AppendsBehind
<1>3. CASE token # separator
  <2> DEFINE last == Append(q[Len(q)], token)
             r == [q EXCEPT ![Len(q)] = last]
             s == [p \o q EXCEPT ![Len(p) + Len(q)] = last]
  <2>1. q[Len(q)] \in Seq(T) /\ last \in Seq(T) /\ Len(q) \in 1 .. Len(q)
    BY <1>1
  <2>2. /\ r \in Seq(Seq(T)) /\ Len(r) = Len(q)
        /\ \A j \in 1 .. Len(q) : r[j] = IF j = Len(q) THEN last ELSE q[j]
    <3> HIDE DEF last
    <3> QED
      BY <1>1, <2>1, ExceptSeq
  <2>3. Len(p) + Len(q) \in 1 .. Len(p \o q)
    BY <1>1
  <2>4. /\ s \in Seq(Seq(T)) /\ Len(s) = Len(p) + Len(q)
        /\ \A j \in 1 .. Len(p) + Len(q) :
              s[j] = IF j = Len(p) + Len(q) THEN last ELSE (p \o q)[j]
    <3> DEFINE pq == p \o q
    <3>1. pq \in Seq(Seq(T)) /\ Len(pq) = Len(p) + Len(q) /\ Len(p) + Len(q) \in 1 .. Len(pq)
      BY <1>1, <2>3
    <3> HIDE DEF last, pq
    <3>2. /\ [pq EXCEPT ![Len(p) + Len(q)] = last] \in Seq(Seq(T))
          /\ Len([pq EXCEPT ![Len(p) + Len(q)] = last]) = Len(p) + Len(q)
          /\ \A j \in 1 .. Len(p) + Len(q) :
                [pq EXCEPT ![Len(p) + Len(q)] = last][j] =
                    IF j = Len(p) + Len(q) THEN last ELSE pq[j]
      BY <2>1, <3>1, ExceptSeq
    <3> QED
      BY <3>2 DEF pq
  <2> HIDE DEF last, r, s
  <2>5. /\ p \o r \in Seq(Seq(T)) /\ Len(p \o r) = Len(p) + Len(q)
        /\ \A i \in 1 .. Len(p) : (p \o r)[i] = p[i]
        /\ \A i \in Len(p) + 1 .. Len(p) + Len(q) : (p \o r)[i] = r[i - Len(p)]
        /\ \A i \in 1 .. Len(p) + Len(q) :
              i \in 1 .. Len(p) \/ i \in Len(p) + 1 .. Len(p) + Len(q)
    <3>1. /\ p \o r \in Seq(Seq(T)) /\ Len(p \o r) = Len(p) + Len(r)
          /\ \A i \in 1 .. Len(p) : (p \o r)[i] = p[i]
          /\ \A i \in Len(p) + 1 .. Len(p) + Len(r) : (p \o r)[i] = r[i - Len(p)]
          /\ \A i \in 1 .. Len(p) + Len(r) :
                i \in 1 .. Len(p) \/ i \in Len(p) + 1 .. Len(p) + Len(r)
      BY <2>2, ConcatParts, Zenon
    <3> QED
      BY <2>2, <3>1, Zenon
  <2>6. ASSUME NEW i \in 1 .. Len(p) + Len(q)
        PROVE  s[i] = (p \o r)[i]
    <3>1. CASE i \in 1 .. Len(p)
      BY <1>1, <2>4, <2>5, <3>1
    <3>2. CASE i \in Len(p) + 1 .. Len(p) + Len(q)
      <4>1. i - Len(p) \in 1 .. Len(q) /\ (i = Len(p) + Len(q) <=> i - Len(p) = Len(q))
        BY <1>1, <3>2
      <4> QED
        BY <1>1, <2>2, <2>4, <2>5, <3>2, <4>1
    <3> QED
      BY <2>5, <3>1, <3>2
  <2>7. s = p \o r
    BY <2>4, <2>5, <2>6, SeqEqual
  <2>8. Cut(q, token, separator) = r
    BY <1>3 DEF Cut, r, last
  <2>9. (p \o q)[Len(p) + Len(q)] = q[Len(q)]
    BY <1>1
  <2>10. Cut(p \o q, token, separator) = s
    BY <1>1, <1>3, <2>9 DEF Cut, s, last
  <2> QED
    BY <2>7, <2>8, <2>10
<1> QED
  BY <1>2, <1>3

\* Two texts around a separator are split each on its own.
LEMMA SplitBetween ==
    ASSUME NEW T, NEW before \in Seq(T), NEW separator \in T, NEW after \in Seq(T)
    PROVE  Split(Append(before, separator) \o after, separator) =
              Split(before, separator) \o Split(after, separator)
<1> DEFINE start == Append(before, separator)
           first == Split(before, separator)
           Good == {u \in Seq(T) : Split(start \o u, separator) = first \o Split(u, separator)}
<1>1. start \in Seq(T) /\ first \in Seq(Seq(T))
  BY SplitType DEF Pieces
<1>2. <<>> \in Good
  <2>1. start \o <<>> = start
    BY <1>1
  <2>2. Split(start, separator) = Append(first, <<>>)
    BY SplitAppend DEF Cut
  <2>3. Append(first, <<>>) = first \o << <<>> >>
    BY <1>1
  <2>4. Split(<<>>, separator) = << <<>> >> /\ <<>> \in Seq(T)
    BY SplitNothing
  <2> HIDE DEF start, first
  <2> QED
    BY <2>1, <2>2, <2>3, <2>4
<1>3. ASSUME NEW v \in Seq(T), NEW e \in T, v \in Good
      PROVE  Append(v, e) \in Good
  <2> HIDE DEF start, first
  <2>1. start \o Append(v, e) = Append(start \o v, e) /\ start \o v \in Seq(T)
    BY <1>1
  <2>2. Split(start \o Append(v, e), separator) = Cut(Split(start \o v, separator), e, separator)
    BY <2>1, SplitAppend
  <2>3. Split(start \o v, separator) = first \o Split(v, separator)
    BY <1>3
  <2>4. Cut(first \o Split(v, separator), e, separator) = first \o Cut(Split(v, separator), e, separator)
    BY <1>1, SplitType, CutConcat
  <2>5. Cut(Split(v, separator), e, separator) = Split(Append(v, e), separator)
    BY SplitAppend
  <2> QED
    BY <2>2, <2>3, <2>4, <2>5
<1> HIDE DEF Good
<1>4. Seq(T) \subseteq Good
  BY <1>2, <1>3, SeqSetInduction
<1> QED
  BY <1>4 DEF Good

\* No piece holds the separator.
LEMMA SplitSeparates ==
    ASSUME NEW T, NEW text \in Seq(T), NEW separator
    PROVE  \A i \in DOMAIN Split(text, separator) : ~Holds(Split(text, separator)[i], separator)
<1> DEFINE Clean(pieces) == \A i \in DOMAIN pieces : ~Holds(pieces[i], separator)
           Good == {t \in Seq(T) : Clean(Split(t, separator))}
<1>1. <<>> \in Good
  BY SplitNothing DEF Holds, Contains
<1>2. ASSUME NEW pieces \in Pieces(T), NEW e \in T, Clean(pieces)
      PROVE  Clean(Cut(pieces, e, separator))
  <2>0. pieces \in Seq(Seq(T)) /\ Len(pieces) \in 1 .. Len(pieces)
        /\ pieces[Len(pieces)] \in Seq(T)
    BY DEF Pieces
  <2>1. CASE e = separator
    <3>1. /\ Len(Append(pieces, <<>>)) = Len(pieces) + 1
          /\ \A i \in 1 .. Len(pieces) : Append(pieces, <<>>)[i] = pieces[i]
          /\ Append(pieces, <<>>)[Len(pieces) + 1] = <<>>
          /\ DOMAIN Append(pieces, <<>>) = 1 .. Len(pieces) + 1
      BY <2>0
    <3>2. ~Holds(<<>>, separator)
      BY DEF Holds, Contains
    <3> QED
      BY <1>2, <2>0, <2>1, <3>1, <3>2 DEF Cut
  <2>2. CASE e # separator
    <3> DEFINE last == pieces[Len(pieces)]
    <3>1. /\ Len(Append(last, e)) = Len(last) + 1
          /\ \A k \in 1 .. Len(last) : Append(last, e)[k] = last[k]
          /\ Append(last, e)[Len(last) + 1] = e
      BY <2>0
    <3>2. ~Holds(last, separator)
      BY <1>2, <2>0
    <3>3. ~Holds(Append(last, e), separator)
      <4>1. last \in Seq(T) /\ Len(last) \in Nat
        BY <2>0
      <4> HIDE DEF last
      <4> QED
        BY <2>2, <3>1, <3>2, <4>1 DEF Holds, Contains
    <3>4. Cut(pieces, e, separator) = [pieces EXCEPT ![Len(pieces)] = Append(last, e)]
      BY <2>2 DEF Cut
    <3> HIDE DEF last
    <3> QED
      BY <1>2, <3>3, <3>4
  <2> QED
    BY <2>1, <2>2
<1>3. ASSUME NEW t \in Seq(T), NEW e \in T, t \in Good
      PROVE  Append(t, e) \in Good
  <2>1. Split(t, separator) \in Pieces(T) /\ Clean(Split(t, separator))
    BY <1>3, SplitType
  <2>2. Split(Append(t, e), separator) = Cut(Split(t, separator), e, separator)
    BY SplitAppend
  <2> HIDE DEF Clean
  <2>3. Clean(Split(Append(t, e), separator))
    BY <1>2, <2>1, <2>2
  <2> QED
    BY <2>3
<1> HIDE DEF Good
<1>4. Seq(T) \subseteq Good
  BY <1>1, <1>3, SeqSetInduction
<1> QED
  BY <1>4 DEF Good
-----------------------------------------------------------------------------
(* Join, and Split of what was joined.                                     *)

\* What JoinWith does with the next text.
Glued(joined, k, texts, separator) ==
    IF k = 1 THEN texts[1] ELSE joined \o <<separator>> \o texts[k]

LEMMA GluedType ==
    ASSUME NEW T, NEW texts \in Seq(Seq(T)), NEW separator \in T,
           NEW joined \in Seq(T), NEW k \in 1 .. Len(texts)
    PROVE  Glued(joined, k, texts, separator) \in Seq(T)
<1>1. texts[1] \in Seq(T) /\ texts[k] \in Seq(T) /\ <<separator>> \in Seq(T)
  OBVIOUS
<1>2. joined \o <<separator>> \in Seq(T)
  BY <1>1
<1>3. (joined \o <<separator>>) \o texts[k] \in Seq(T)
  BY <1>1, <1>2
<1> QED
  BY <1>1, <1>3 DEF Glued

\* The text after each of the texts.
Gluing(g, T, texts, separator) ==
    /\ g \in [0 .. Len(texts) -> Seq(T)]
    /\ g[0] = <<>>
    /\ \A k \in 1 .. Len(texts) : g[k] = Glued(g[k - 1], k, texts, separator)
    /\ JoinWith(texts, separator) = g[Len(texts)]

LEMMA JoinRun ==
    ASSUME NEW T, NEW texts \in Seq(Seq(T)), NEW separator \in T
    PROVE  \E g : Gluing(g, T, texts, separator)
<1> DEFINE n == Len(texts)
           base == <<>>
           step == [p \in Seq(T) \X (1 .. n) |-> Glued(p[1], p[2], texts, separator)]
           index == [i \in DOMAIN texts |-> i]
           Iterates(f) == f = [s \in SUBSET (DOMAIN index) |->
                                  IF s = {} THEN base
                                  ELSE Glued(f[s \ {Max(s)}], index[Max(s)], texts, separator)]
<1>1. n \in Nat /\ base \in Seq(T) /\ DOMAIN index = 1 .. n /\ \A i \in 1 .. n : index[i] = i
  OBVIOUS
<1>2. step \in [Seq(T) \X (1 .. n) -> Seq(T)]
  BY GluedType
<1>3. \A joined \in Seq(T), k \in 1 .. n : step[<<joined, k>>] = Glued(joined, k, texts, separator)
  OBVIOUS
<1> HIDE DEF step, base, n, index
<1>4. PICK f : Folding(f, Seq(T), base, n, step)
  BY <1>1, <1>2, FoldExists
<1>5. \E h : Iterates(h)
  <2> USE DEF Folding
  <2>1. ASSUME NEW s \in SUBSET (1 .. n), s # {}
        PROVE  f[s] = Glued(f[s \ {Max(s)}], index[Max(s)], texts, separator)
    <3>1. Max(s) \in 1 .. n
      BY <1>1, <2>1, LastOf
    <3>2. f[s \ {Max(s)}] \in Seq(T)
      BY <1>4
    <3>3. f[s] = Glued(f[s \ {Max(s)}], Max(s), texts, separator)
      BY <1>3, <1>4, <2>1, <3>1, <3>2
    <3>4. index[Max(s)] = Max(s)
      BY <1>1, <3>1
    <3> QED
      BY <3>3, <3>4
  <2>2. f = [s \in SUBSET (DOMAIN index) |->
                IF s = {} THEN base
                ELSE Glued(f[s \ {Max(s)}], index[Max(s)], texts, separator)]
    BY <1>1, <1>4, <2>1
  <2> QED
    BY <2>2
<1>6. PICK h : Iterates(h) /\ JoinWith(texts, separator) = h[1 .. n]
  <2>1. JoinWith(texts, separator) = (CHOOSE h : Iterates(h))[1 .. n]
    <3>1. JoinWith(texts, separator) = (CHOOSE h : Iterates(h))[DOMAIN index]
      BY DEF JoinWith, FoldLeftDomain, FoldLeft, MapThenFoldSet, Glued, base, index
    <3> QED
      BY <1>1, <3>1
  <2> QED
    BY <1>5, <2>1
<1> DEFINE g == [k \in 0 .. n |-> h[1 .. k]]
<1>7. g[0] = base
  <2>1. 1 .. 0 = {}
    OBVIOUS
  <2> QED
    BY <1>1, <1>6, <2>1
<1>8. ASSUME NEW k \in 1 .. n
      PROVE  g[k] = Glued(g[k - 1], k, texts, separator)
  <2>1. /\ 1 .. k \in SUBSET (1 .. n) /\ 1 .. k # {}
        /\ Max(1 .. k) = k /\ (1 .. k) \ {k} = 1 .. k - 1
    BY <1>1, FirstFew
  <2>2. h[1 .. k] = Glued(h[1 .. k - 1], index[k], texts, separator)
    <3>1. 1 .. k \in SUBSET (DOMAIN index)
      BY <1>1, <2>1
    <3> QED
      BY <1>6, <2>1, <3>1, Zenon
  <2>3. g[k] = h[1 .. k] /\ g[k - 1] = h[1 .. k - 1] /\ index[k] = k
    BY <1>1
  <2> QED
    BY <2>2, <2>3
<1> HIDE DEF g
<1> DEFINE Typed == {k \in 0 .. n : g[k] \in Seq(T)}
<1>9. 0 .. n \subseteq Typed
  <2>1. 0 \in Typed
    BY <1>1, <1>7
  <2>2. \A k \in 1 .. n : k - 1 \in Typed => k \in Typed
    <3> SUFFICES ASSUME NEW k \in 1 .. n, g[k - 1] \in Seq(T)
                 PROVE  k \in Typed
      OBVIOUS
    <3>1. k \in 1 .. Len(texts) /\ k \in 0 .. n
      BY <1>1 DEF n
    <3>2. Glued(g[k - 1], k, texts, separator) \in Seq(T)
      BY <3>1, GluedType
    <3> QED
      BY <1>8, <3>1, <3>2
  <2> HIDE DEF Typed
  <2> QED
    BY <1>1, <2>1, <2>2, UpToInduction
<1>10. g \in [0 .. n -> Seq(T)] /\ JoinWith(texts, separator) = g[n]
  <2>1. \A k \in 0 .. n : g[k] \in Seq(T)
    BY <1>9
  <2>2. n \in 0 .. n
    BY <1>1
  <2> HIDE DEF Typed
  <2> QED
    BY <1>6, <2>1, <2>2 DEF g
<1> QED
  BY <1>7, <1>8, <1>10 DEF n, base, Gluing

LEMMA JoinType ==
    ASSUME NEW T, NEW texts \in Seq(Seq(T)), NEW separator \in T
    PROVE  JoinWith(texts, separator) \in Seq(T)
<1>1. Len(texts) \in 0 .. Len(texts)
  OBVIOUS
<1> QED
  BY <1>1, JoinRun DEF Gluing

LEMMA JoinNothing ==
    ASSUME NEW separator
    PROVE  JoinWith(<<>>, separator) = <<>>
<1>1. <<>> \in Seq(Seq({separator})) /\ Len(<<>>) = 0 /\ separator \in {separator}
  OBVIOUS
<1>2. PICK g : Gluing(g, {separator}, <<>>, separator)
  BY <1>1, JoinRun
<1> QED
  BY <1>1, <1>2 DEF Gluing

\* One text more comes behind a separator, but for the first.
LEMMA JoinAppend ==
    ASSUME NEW T, NEW texts \in Seq(Seq(T)), NEW text \in Seq(T), NEW separator \in T
    PROVE  JoinWith(Append(texts, text), separator) =
              IF texts = <<>> THEN text
              ELSE JoinWith(texts, separator) \o <<separator>> \o text
<1> DEFINE n == Len(texts)
           longer == Append(texts, text)
<1>1. /\ longer \in Seq(Seq(T)) /\ Len(longer) = n + 1 /\ n \in Nat
      /\ \A k \in 1 .. n : longer[k] = texts[k]
      /\ longer[n + 1] = text
      /\ (texts = <<>> <=> n = 0)
  <2> DEFINE U == Seq(T)
  <2>1. texts \in Seq(U) /\ text \in U
    OBVIOUS
  <2> HIDE DEF U
  <2>2. /\ longer \in Seq(U) /\ Len(longer) = n + 1 /\ n \in Nat
        /\ \A k \in 1 .. n : longer[k] = texts[k]
        /\ longer[n + 1] = text
        /\ (texts = <<>> <=> n = 0)
    BY <2>1
  <2> QED
    BY <2>2 DEF U
<1>2. PICK g : Gluing(g, T, texts, separator)
  BY JoinRun
<1> HIDE DEF longer
<1>3. PICK h : Gluing(h, T, longer, separator)
  BY <1>1, JoinRun
<1> USE DEF Gluing
<1> DEFINE Same == {k \in 0 .. n : g[k] = h[k]}
<1>4. 0 .. n \subseteq Same
  <2>1. 0 \in Same
    <3>1. 0 \in 0 .. n
      BY <1>1
    <3> QED
      BY <1>2, <1>3, <3>1
  <2>2. ASSUME NEW k \in 1 .. n, k - 1 \in Same
        PROVE  k \in Same
    <3>1. k \in 1 .. n + 1 /\ longer[k] = texts[k] /\ g[k - 1] = h[k - 1]
      BY <1>1, <2>2
    <3>2. g[k] = Glued(g[k - 1], k, texts, separator)
      BY <1>2
    <3>3. h[k] = Glued(h[k - 1], k, longer, separator)
      BY <1>1, <1>3, <3>1
    <3>4. longer[1] = texts[1]
      BY <1>1
    <3> QED
      BY <3>1, <3>2, <3>3, <3>4 DEF Glued
  <2> HIDE DEF Same
  <2> QED
    BY <1>1, <2>1, <2>2, UpToInduction
<1>5. g[n] = h[n]
  <2>1. n \in 0 .. n
    BY <1>1
  <2> QED
    BY <1>4, <2>1
<1>6. h[n + 1] = Glued(h[n], n + 1, longer, separator)
  <2>1. n + 1 \in 1 .. n + 1 /\ (n + 1) - 1 = n
    BY <1>1
  <2> QED
    BY <1>1, <1>3, <2>1
<1>7. JoinWith(longer, separator) = h[n + 1] /\ JoinWith(texts, separator) = g[n]
  BY <1>1, <1>2, <1>3
<1>8. CASE texts = <<>>
  <2>1. n + 1 = 1 /\ longer[1] = text
    BY <1>1, <1>8
  <2> QED
    BY <1>6, <1>7, <1>8, <2>1 DEF Glued, longer
<1>9. CASE texts # <<>>
  <2>1. n + 1 # 1
    BY <1>1, <1>9
  <2> QED
    BY <1>1, <1>5, <1>6, <1>7, <1>9, <2>1 DEF Glued, longer
<1> QED
  BY <1>8, <1>9

\* What was joined is split again, each text on its own.
LEMMA SplitJoinAppend ==
    ASSUME NEW T, NEW texts \in Seq(Seq(T)), NEW text \in Seq(T), NEW separator \in T
    PROVE  Split(JoinWith(Append(texts, text), separator), separator) =
              IF texts = <<>> THEN Split(text, separator)
              ELSE Split(JoinWith(texts, separator), separator) \o Split(text, separator)
<1>1. CASE texts = <<>>
  BY <1>1, JoinAppend
<1>2. CASE texts # <<>>
  <2> DEFINE before == JoinWith(texts, separator)
  <2>1. before \in Seq(T)
    BY JoinType
  <2>2. JoinWith(Append(texts, text), separator) = before \o <<separator>> \o text
    BY <1>2, JoinAppend
  <2> HIDE DEF before
  <2>3. before \o <<separator>> \o text = Append(before, separator) \o text
    <3>1. before \o <<separator>> = Append(before, separator)
      BY <2>1
    <3> QED
      BY <3>1
  <2>4. Split(Append(before, separator) \o text, separator) =
            Split(before, separator) \o Split(text, separator)
    BY <2>1, SplitBetween
  <2> QED
    BY <1>2, <2>2, <2>3, <2>4 DEF before
<1> QED
  BY <1>1, <1>2

\* Texts that do not hold the separator come back as they were.
THEOREM SplitJoin ==
    ASSUME NEW T, NEW texts \in Seq(Seq(T)), NEW separator \in T, texts # <<>>,
           \A i \in DOMAIN texts : ~Holds(texts[i], separator)
    PROVE  Split(JoinWith(texts, separator), separator) = texts
<1> DEFINE U == Seq(T)
           Clean(ts) == \A i \in DOMAIN ts : ~Holds(ts[i], separator)
           Good == {ts \in Seq(U) : ts # <<>> /\ Clean(ts) =>
                                      Split(JoinWith(ts, separator), separator) = ts}
<1>1. <<>> \in Good
  OBVIOUS
<1>2. ASSUME NEW ts \in Seq(U), NEW t \in U, ts \in Good, Clean(Append(ts, t))
      PROVE  Split(JoinWith(Append(ts, t), separator), separator) = Append(ts, t)
  <2> DEFINE longer == Append(ts, t)
  <2>1. /\ DOMAIN longer = 1 .. Len(ts) + 1 /\ Len(ts) \in Nat /\ DOMAIN ts = 1 .. Len(ts)
        /\ \A i \in 1 .. Len(ts) : longer[i] = ts[i]
        /\ longer[Len(ts) + 1] = t
    <3> HIDE DEF U
    <3> QED
      OBVIOUS
  <2>2. ~Holds(t, separator) /\ Clean(ts)
    <3>1. Len(ts) + 1 \in DOMAIN longer /\ \A i \in DOMAIN ts : i \in DOMAIN longer
      BY <2>1
    <3> HIDE DEF longer
    <3>2. Clean(longer)
      BY <1>2 DEF longer
    <3> QED
      BY <2>1, <3>1, <3>2
  <2>3. Split(t, separator) = <<t>>
    BY <2>2, SplitWhole
  <2>4. CASE ts = <<>>
    <3>1. Append(ts, t) = <<t>>
      BY <2>4
    <3> QED
      BY <2>3, <2>4, <3>1, SplitJoinAppend
  <2>5. CASE ts # <<>>
    <3>1. Split(JoinWith(ts, separator), separator) = ts
      BY <1>2, <2>2, <2>5
    <3>2. ts \o <<t>> = Append(ts, t)
      <4> HIDE DEF U
      <4> QED
        OBVIOUS
    <3>3. Split(JoinWith(Append(ts, t), separator), separator) =
              Split(JoinWith(ts, separator), separator) \o Split(t, separator)
      BY <2>5, SplitJoinAppend
    <3> QED
      BY <2>3, <3>1, <3>2, <3>3
  <2> QED
    BY <2>4, <2>5
<1>3. \A ts \in Seq(U) : \A t \in U : ts \in Good => Append(ts, t) \in Good
  <2>1. \A ts \in Seq(U) : \A t \in U : Append(ts, t) \in Seq(U)
    <3> HIDE DEF U
    <3> QED
      OBVIOUS
  <2> HIDE DEF U, Clean
  <2> QED
    BY <1>2, <2>1
<1> HIDE DEF Good, U
<1>4. Seq(U) \subseteq Good
  BY <1>1, <1>3, SeqSetInduction
<1> QED
  BY <1>4 DEF Good, U

\* Texts of which one holds it do not: no piece does.
LEMMA SplitJoinSpoiled ==
    ASSUME NEW T, NEW texts \in Seq(Seq(T)), NEW separator \in T,
           NEW i \in DOMAIN texts, Holds(texts[i], separator)
    PROVE  Split(JoinWith(texts, separator), separator) # texts
  BY JoinType, SplitSeparates

-----------------------------------------------------------------------------
(* What texts hold.                                                        *)

\* A text holds what its parts hold.
LEMMA HoldsAppend ==
    ASSUME NEW T, NEW p \in Seq(T), NEW e \in T, NEW c
    PROVE  Holds(Append(p, e), c) <=> Holds(p, c) \/ e = c
<1> DEFINE longer == Append(p, e)
<1>1. /\ Len(longer) = Len(p) + 1 /\ Len(p) \in Nat
      /\ \A i \in 1 .. Len(p) : longer[i] = p[i]
      /\ longer[Len(p) + 1] = e
  OBVIOUS
<1> HIDE DEF longer
<1>2. ASSUME Holds(longer, c)
      PROVE  Holds(p, c) \/ e = c
  <2>1. PICK i \in 1 .. Len(longer) : longer[i] = c
    BY <1>2 DEF Holds, Contains
  <2>2. i \in 1 .. Len(p) \/ i = Len(p) + 1
    BY <1>1
  <2> QED
    BY <1>1, <2>1, <2>2 DEF Holds, Contains
<1>3. ASSUME Holds(p, c)
      PROVE  Holds(longer, c)
  <2>1. PICK i \in 1 .. Len(p) : p[i] = c
    BY <1>3 DEF Holds, Contains
  <2>2. i \in 1 .. Len(longer) /\ longer[i] = c
    BY <1>1, <2>1
  <2> QED
    BY <2>2 DEF Holds, Contains
<1>4. ASSUME e = c
      PROVE  Holds(longer, c)
  <2>1. Len(p) + 1 \in 1 .. Len(longer)
    BY <1>1
  <2> QED
    BY <1>1, <1>4, <2>1 DEF Holds, Contains
<1> QED
  BY <1>2, <1>3, <1>4 DEF longer

LEMMA HoldsConcat ==
    ASSUME NEW T, NEW p \in Seq(T), NEW q \in Seq(T), NEW c
    PROVE  Holds(p \o q, c) <=> Holds(p, c) \/ Holds(q, c)
<1> DEFINE Good == {r \in Seq(T) : Holds(p \o r, c) <=> Holds(p, c) \/ Holds(r, c)}
<1>1. <<>> \in Good
  <2>1. p \o <<>> = p /\ <<>> \in Seq(T)
    OBVIOUS
  <2>2. ~Holds(<<>>, c)
    BY DEF Holds, Contains
  <2> QED
    BY <2>1, <2>2
<1>2. ASSUME NEW r \in Seq(T), NEW e \in T, r \in Good
      PROVE  Append(r, e) \in Good
  <2>1. p \o Append(r, e) = Append(p \o r, e) /\ p \o r \in Seq(T) /\ Append(r, e) \in Seq(T)
    OBVIOUS
  <2>2. Holds(Append(p \o r, e), c) <=> Holds(p \o r, c) \/ e = c
    BY <2>1, HoldsAppend
  <2>3. Holds(Append(r, e), c) <=> Holds(r, c) \/ e = c
    BY HoldsAppend
  <2> QED
    BY <1>2, <2>1, <2>2, <2>3
<1> HIDE DEF Good
<1>3. Seq(T) \subseteq Good
  BY <1>1, <1>2, SeqSetInduction
<1> QED
  BY <1>3 DEF Good

LEMMA ConcatOne ==
    ASSUME NEW S, NEW a \in S, NEW b \in S
    PROVE  <<a>> \o <<b>> = <<a, b>>
<1> DEFINE s == <<a>>
           both == <<a, b>>
<1>1. /\ s \in Seq(S) /\ Len(s) = 1 /\ s[1] = a
      /\ both \in Seq(S) /\ Len(both) = 2 /\ both[1] = a /\ both[2] = b
  OBVIOUS
<1>2. ASSUME NEW t \in Seq(S), NEW r \in Seq(S),
             Len(t) = 1, t[1] = a, Len(r) = 2, r[1] = a, r[2] = b
      PROVE  t \o <<b>> = r
  <2>1. t \o <<b>> = Append(t, b)
    OBVIOUS
  <2>2. /\ Append(t, b) \in Seq(S) /\ Len(Append(t, b)) = 2
        /\ Append(t, b)[1] = a /\ Append(t, b)[2] = b
    <3>1. /\ Append(t, b) \in Seq(S)
          /\ Len(Append(t, b)) = Len(t) + 1
          /\ Append(t, b)[Len(t) + 1] = b
      OBVIOUS
    <3>2. 1 \in 1 .. Len(t)
      BY <1>2
    <3>3. Append(t, b)[1] = t[1]
      BY <3>2
    <3> QED
      BY <1>2, <3>1, <3>3
  <2>3. \A i \in 1 .. 2 : Append(t, b)[i] = r[i]
    BY <1>2, <2>2
  <2> QED
    BY <1>2, <2>1, <2>2, <2>3, SeqEqual
<1> HIDE DEF s, both
<1>3. s \o <<b>> = both
  BY <1>1, <1>2
<1> QED
  BY <1>3 DEF s, both

LEMMA HoldsNeither ==
    ASSUME NEW T, NEW before \in Seq(T), NEW separator \in T, NEW after \in Seq(T), NEW c,
           ~Holds(before, c), separator # c, ~Holds(after, c)
    PROVE  ~Holds(Append(before, separator) \o after, c)
<1> DEFINE start == Append(before, separator)
<1>1. start \in Seq(T) /\ ~Holds(start, c)
  BY HoldsAppend
<1> HIDE DEF start
<1>2. ~Holds(start \o after, c)
  BY <1>1, HoldsConcat
<1> QED
  BY <1>2 DEF start

\* Two texts without the separator are the two pieces.
LEMMA TwoPieces ==
    ASSUME NEW T, NEW before \in Seq(T), NEW separator \in T, NEW after \in Seq(T),
           ~Holds(before, separator), ~Holds(after, separator)
    PROVE  Split(Append(before, separator) \o after, separator) = <<before, after>>
<1>1. Split(before, separator) = <<before>> /\ Split(after, separator) = <<after>>
  BY SplitWhole
<1>2. <<before>> \o <<after>> = <<before, after>>
  BY ConcatOne
<1>3. Split(Append(before, separator) \o after, separator) =
          Split(before, separator) \o Split(after, separator)
  BY SplitBetween
<1> QED
  BY <1>1, <1>2, <1>3

-----------------------------------------------------------------------------
(* The first of some names.                                                *)

\* A set of naturals has a least one.
LEMMA LeastOf ==
    ASSUME NEW S, S \subseteq Nat, S # {}
    PROVE  Min(S) \in S /\ \A n \in S : Min(S) <= n
<1> DEFINE Beyond == {k \in Nat : \A n \in S : k <= n}
<1>1. PICK least \in S : \A n \in S : least <= n
  <2> SUFFICES ASSUME \A least \in S : ~ (\A n \in S : least <= n)
               PROVE  FALSE
    OBVIOUS
  <2>1. 0 \in Beyond
    OBVIOUS
  <2>2. ASSUME NEW k \in Nat, k \in Beyond
        PROVE  k + 1 \in Beyond
    <3>1. k \notin S
      BY <2>2
    <3>2. \A n \in S : k <= n /\ n # k /\ n \in Nat
      BY <2>2, <3>1
    <3> QED
      BY <3>2
  <2> HIDE DEF Beyond
  <2>3. Nat \subseteq Beyond
    BY <2>1, <2>2, NatSetInduction
  <2>4. PICK n \in S : n \in Nat
    OBVIOUS
  <2>5. n + 1 \in Beyond
    BY <2>3, <2>4
  <2> QED
    BY <2>4, <2>5 DEF Beyond
<1> QED
  BY <1>1 DEF Min

\* The first name that a set holds, when all that it holds are one.
LEMMA FirstOnly ==
    ASSUME NEW names, NEW n \in Nat, DOMAIN names = 1 .. n, NEW set, NEW none, NEW x,
           \A i \in DOMAIN names : names[i] \in set => names[i] = x
    PROVE  FirstIn(names, set, none) =
              IF \E i \in DOMAIN names : names[i] \in set THEN x ELSE none
<1> DEFINE held == {i \in DOMAIN names : names[i] \in set}
<1>1. FirstIn(names, set, none) = IF held = {} THEN none ELSE names[Min(held)]
  BY DEF FirstIn
<1>2. CASE held = {}
  BY <1>1, <1>2
<1>3. CASE held # {}
  <2>1. Min(held) \in held
    <3>1. held \subseteq Nat
      OBVIOUS
    <3> HIDE DEF held
    <3> QED
      BY <1>3, <3>1, LeastOf
  <2> QED
    BY <1>1, <1>3, <2>1
<1> QED
  BY <1>2, <1>3

\* A name that none before it is held with.
LEMMA FirstAt ==
    ASSUME NEW names, NEW n \in Nat, DOMAIN names = 1 .. n, NEW set, NEW none,
           NEW k \in DOMAIN names, names[k] \in set,
           \A i \in DOMAIN names : names[i] \in set => k <= i
    PROVE  FirstIn(names, set, none) = names[k]
<1> DEFINE held == {i \in DOMAIN names : names[i] \in set}
<1>1. FirstIn(names, set, none) = IF held = {} THEN none ELSE names[Min(held)]
  BY DEF FirstIn
<1>2. held \subseteq Nat /\ k \in held /\ \A i \in held : k <= i
  OBVIOUS
<1> HIDE DEF held
<1>3. Min(held) = k
  <2> DEFINE least == Min(held)
  <2>1. least \in held /\ \A i \in held : least <= i
    BY <1>2, LeastOf
  <2> HIDE DEF least
  <2>2. least \in Nat /\ k \in Nat /\ least <= k /\ k <= least
    BY <1>2, <2>1
  <2>3. least = k
    BY <2>2
  <2> QED
    BY <2>3 DEF least
<1> QED
  BY <1>1, <1>2, <1>3

-----------------------------------------------------------------------------
(* Addresses: the texts of them, and what is read from a text.             *)

\* A user, and behind it the parts of an address.
PutTogether(user, dot, agent, colon, device, at) ==
    /\ user \o <<at>> = Append(user, at)
    /\ user \o <<colon, device>> = Append(user, colon) \o <<device>>
    /\ (user \o <<colon, device>>) \o <<at>> = user \o <<colon, device, at>>
    /\ (user \o <<dot, agent>>) \o <<colon, device>>
           = user \o <<dot, agent, colon, device>>
    /\ (user \o <<dot, agent, colon, device>>) \o <<at>>
           = user \o <<dot, agent, colon, device, at>>
    /\ user \o <<dot, agent, colon, device>> = Append(user, dot) \o <<agent, colon, device>>
    /\ <<agent, colon, device>> = Append(<<agent>>, colon) \o <<device>>
    /\ user \o <<colon, device>> # <<>>
    /\ user \o <<dot, agent, colon, device>> # <<>>
    /\ user \o <<>> = user

LEMMA PartsOfText ==
    ASSUME NEW T, NEW user \in Seq(T), NEW dot \in T, NEW agent \in T, NEW colon \in T,
           NEW device \in T, NEW at \in T
    PROVE  PutTogether(user, dot, agent, colon, device, at)
<1>1. user \o <<at>> = Append(user, at)
  OBVIOUS
<1>2. user \o <<colon, device>> = Append(user, colon) \o <<device>>
  OBVIOUS
<1>3. (user \o <<colon, device>>) \o <<at>> = user \o <<colon, device, at>>
  OBVIOUS
<1>4. (user \o <<dot, agent>>) \o <<colon, device>> = user \o <<dot, agent, colon, device>>
  OBVIOUS
<1>5. (user \o <<dot, agent, colon, device>>) \o <<at>>
          = user \o <<dot, agent, colon, device, at>>
  OBVIOUS
<1>6. user \o <<dot, agent, colon, device>> = Append(user, dot) \o <<agent, colon, device>>
  OBVIOUS
<1>7. <<agent, colon, device>> = Append(<<agent>>, colon) \o <<device>>
  OBVIOUS
<1>8. /\ user \o <<colon, device>> # <<>> /\ user \o <<dot, agent, colon, device>> # <<>>
      /\ user \o <<>> = user
  OBVIOUS
<1> QED
  BY <1>1, <1>2, <1>3, <1>4, <1>5, <1>6, <1>7, <1>8, Zenon DEF PutTogether

\* The signs are tokens, and no name is one of them.
LEMMA SignsAreTokens ==
    /\ Sign(".") \in Token /\ Sign(":") \in Token /\ Sign("@") \in Token
    /\ \A n \in Nat : Num(n) \in Token
    /\ Names \subseteq Token
<1> DEFINE kinds == {"name", "number", ".", ":", "@"}
<1>0. \A kind, n : kind \in kinds /\ n \in Nat => <<kind, n>> \in kinds \X Nat
  OBVIOUS
<1>1. {".", ":", "@", "number"} \subseteq kinds /\ 0 \in Nat
  OBVIOUS
<1>2. Names \subseteq Token
  BY DEF Names, Token
<1> QED
  BY <1>0, <1>1, <1>2 DEF Sign, Num, Token

LEMMA NamesAreTokens ==
    ASSUME NEW text \in Seq(Names)
    PROVE  text \in Seq(Token)
  BY SignsAreTokens

LEMMA NamesHoldNoSign ==
    ASSUME NEW text \in Seq(Names)
    PROVE  ~Holds(text, Sign(".")) /\ ~Holds(text, Sign(":")) /\ ~Holds(text, Sign("@"))
<1>1. \A i \in 1 .. Len(text) : text[i] \in Names
  OBVIOUS
<1>2. Sign(".") \notin Names /\ Sign(":") \notin Names /\ Sign("@") \notin Names
  BY DEF Sign, Names
<1> QED
  BY <1>1, <1>2 DEF Holds, Contains

\* A device's part of a text: its user, and numbers behind signs.
LEMMA NumbersHoldNoSign ==
    ASSUME NEW n \in Nat
    PROVE  /\ ~Holds(<<Num(n)>>, Sign(".")) /\ ~Holds(<<Num(n)>>, Sign(":"))
           /\ ~Holds(<<Num(n)>>, Sign("@"))
           /\ Sign(".") # Sign("@") /\ Sign(":") # Sign("@") /\ Sign(".") # Sign(":")
<1>1. Num(n) \notin {Sign("."), Sign(":"), Sign("@")}
  BY DEF Num, Sign
<1>2. \A i \in 1 .. Len(<<Num(n)>>) : <<Num(n)>>[i] = Num(n)
  OBVIOUS
<1>3. Sign(".") # Sign("@") /\ Sign(":") # Sign("@") /\ Sign(".") # Sign(":")
  BY DEF Sign
<1> QED
  BY <1>1, <1>2, <1>3 DEF Holds, Contains

\* The text Python makes of an address is the one whatsmeow makes.
LEMMA SameText ==
    ASSUME NEW jid, jid.User \in Seq(Token), jid.Server \in Seq(Token),
           jid.RawAgent \in Nat, jid.Device \in Nat
    PROVE  Jid2String(jid) = String(jid)
<1>1. /\ Sign(".") \in Token /\ Sign(":") \in Token /\ Sign("@") \in Token
      /\ Num(jid.RawAgent) \in Token /\ Num(jid.Device) \in Token
  BY SignsAreTokens
<1>2. ASSUME NEW dot \in Token, NEW colon \in Token, NEW at \in Token,
             NEW agent \in Token, NEW device \in Token,
             dot = Sign("."), colon = Sign(":"), at = Sign("@"),
             agent = Num(jid.RawAgent), device = Num(jid.Device)
      PROVE  Jid2String(jid) = String(jid)
  <2> DEFINE user == jid.User
             server == jid.Server
  <2>1. /\ (user \o <<colon, device>>) \o <<at>> = user \o <<colon, device, at>>
        /\ (user \o <<dot, agent>>) \o <<colon, device>>
               = user \o <<dot, agent, colon, device>>
        /\ (user \o <<dot, agent, colon, device>>) \o <<at>>
               = user \o <<dot, agent, colon, device, at>>
        /\ user \o <<colon, device>> # <<>>
        /\ user \o <<dot, agent, colon, device>> # <<>>
        /\ user \o <<>> = user
    <3>1. user \in Seq(Token)
      OBVIOUS
    <3> HIDE DEF user
    <3>2. PutTogether(user, dot, agent, colon, device, at)
      BY <3>1, PartsOfText
    <3> QED
      BY <3>2, Zenon DEF PutTogether
  <2>2. CASE jid.RawAgent > 0
    <3>1. Jid2String(jid) = user \o <<dot, agent, colon, device, at>> \o server
      <4>1. jid.RawAgent # 0
        BY <2>2
      <4> QED
        BY <1>2, <2>2, <4>1, Zenon DEF Jid2String
    <3>2. String(jid) = (user \o <<dot, agent, colon, device>>) \o <<at>> \o server
      BY <1>2, <2>1, <2>2, Zenon DEF String
    <3> QED
      BY <2>1, <3>1, <3>2, Zenon
  <2>3. CASE jid.RawAgent = 0 /\ jid.Device > 0
    <3>0. ~ (jid.RawAgent > 0)
      BY <2>3
    <3>1. Jid2String(jid) = user \o <<colon, device, at>> \o server
      BY <1>2, <2>3, <3>0, Zenon DEF Jid2String
    <3>2. String(jid) = (user \o <<colon, device>>) \o <<at>> \o server
      BY <1>2, <2>1, <2>3, <3>0, Zenon DEF String
    <3> QED
      BY <2>1, <3>1, <3>2, Zenon
  <2>4. CASE jid.RawAgent = 0 /\ jid.Device = 0
    <3>0. ~ (jid.RawAgent > 0) /\ ~ (jid.Device > 0)
      BY <2>4
    <3>1. Jid2String(jid) = IF user # <<>> THEN user \o <<at>> \o server ELSE server
      BY <1>2, <3>0, Zenon DEF Jid2String
    <3>2. String(jid) = IF user = <<>> THEN server ELSE user \o <<at>> \o server
      BY <1>2, <2>1, <3>0, Zenon DEF String
    <3> HIDE DEF user, server
    <3> QED
      BY <3>1, <3>2
  <2> QED
    BY <2>2, <2>3, <2>4
<1> QED
  BY <1>1, <1>2, <1>2

Parsed(user, agent, device, server) ==
    [User |-> user, RawAgent |-> agent, Device |-> device, Integrator |-> 0,
     Server |-> server]

\* What is read of a text is read of its pieces.
LEMMA ParsePieces ==
    ASSUME NEW text, NEW part, NEW server, NEW dotted, NEW numbers,
           Split(text, Sign("@")) = <<part, server>>,
           Split(part, Sign(".")) = dotted,
           Split(dotted[Len(dotted)], Sign(":")) = numbers
    PROVE  ParseJID(text) =
              Parsed(IF Len(dotted) = 2 THEN dotted[1] ELSE numbers[1],
                     IF Len(dotted) = 2 THEN numbers[1][1][2] % 256 ELSE 0,
                     IF Len(numbers) = 2 THEN numbers[2][1][2] % 65536 ELSE 0,
                     server)
<1> DEFINE parts == <<part, server>>
<1>1. parts[1] = part /\ parts[2] = server /\ ~ (Len(parts) = 1)
  OBVIOUS
<1>2. Split(text, Sign("@")) = parts
  OBVIOUS
<1> HIDE DEF parts
<1> QED
  BY <1>1, <1>2 DEF ParseJID, Parsed

\* With an agent and a device, each is read of its own piece.
LEMMA ParseBoth ==
    ASSUME NEW text, NEW part, NEW server, NEW user, NEW rest, NEW first, NEW second,
           Split(text, Sign("@")) = <<part, server>>,
           Split(part, Sign(".")) = <<user, rest>>,
           Split(rest, Sign(":")) = <<first, second>>
    PROVE  ParseJID(text) = Parsed(user, first[1][2] % 256, second[1][2] % 65536, server)
<1> DEFINE dotted == <<user, rest>>
           numbers == <<first, second>>
<1>1. /\ dotted[1] = user /\ dotted[Len(dotted)] = rest /\ Len(dotted) = 2
      /\ numbers[1] = first /\ numbers[2] = second /\ Len(numbers) = 2
  OBVIOUS
<1>2. Split(part, Sign(".")) = dotted /\ Split(rest, Sign(":")) = numbers
  OBVIOUS
<1> HIDE DEF dotted, numbers
<1>3. Split(dotted[Len(dotted)], Sign(":")) = numbers
  BY <1>1, <1>2
<1>4. ParseJID(text) =
          Parsed(IF Len(dotted) = 2 THEN dotted[1] ELSE numbers[1],
                 IF Len(dotted) = 2 THEN numbers[1][1][2] % 256 ELSE 0,
                 IF Len(numbers) = 2 THEN numbers[2][1][2] % 65536 ELSE 0,
                 server)
  BY <1>2, <1>3, ParsePieces
<1> QED
  BY <1>1, <1>4

\* The server is behind the one @.
LEMMA ServerBehind ==
    ASSUME NEW text \in Seq(Token), ~Holds(text, Sign("@")), NEW server \in Seq(Names)
    PROVE  Split(text \o <<Sign("@")>> \o server, Sign("@")) = <<text, server>>
<1> DEFINE at == Sign("@")
<1>1. at \in Token /\ server \in Seq(Token) /\ ~Holds(server, at) /\ ~Holds(text, at)
  BY SignsAreTokens, NamesAreTokens, NamesHoldNoSign
<1> HIDE DEF at
<1>2. text \o <<at>> = Append(text, at)
  BY <1>1
<1>3. Split(Append(text, at) \o server, at) = <<text, server>>
  BY <1>1, TwoPieces
<1> QED
  BY <1>2, <1>3 DEF at

LEMMA ParseServer ==
    ASSUME NEW server \in Seq(Names)
    PROVE  ParseJID(server) = Parsed(<<>>, 0, 0, server)
<1>1. Split(server, Sign("@")) = <<server>>
  BY NamesHoldNoSign, SplitWhole
<1> DEFINE parts == <<server>>
<1>2. Len(parts) = 1 /\ Split(server, Sign("@")) = parts
  BY <1>1
<1> HIDE DEF parts
<1> QED
  BY <1>2 DEF ParseJID, Parsed

LEMMA ParseUser ==
    ASSUME NEW user \in Seq(Names), NEW server \in Seq(Names)
    PROVE  ParseJID(user \o <<Sign("@")>> \o server) = Parsed(user, 0, 0, server)
<1> DEFINE text == user \o <<Sign("@")>> \o server
           one == <<user>>
<1>1. /\ ~Holds(user, Sign(".")) /\ ~Holds(user, Sign(":")) /\ ~Holds(user, Sign("@"))
      /\ user \in Seq(Token)
  BY NamesHoldNoSign, NamesAreTokens
<1>2. Split(text, Sign("@")) = <<user, server>>
  BY <1>1, ServerBehind
<1>3. Split(user, Sign(".")) = one /\ Split(user, Sign(":")) = one
  BY <1>1, SplitWhole
<1>4. one[Len(one)] = user /\ Len(one) # 2 /\ one[1] = user
  OBVIOUS
<1> HIDE DEF text, one
<1>5. ParseJID(text) = Parsed(one[1], 0, 0, server)
  BY <1>2, <1>3, <1>4, ParsePieces
<1> QED
  BY <1>4, <1>5 DEF text

LEMMA ParseDevice ==
    ASSUME NEW user \in Seq(Names), NEW device \in Nat, NEW server \in Seq(Names)
    PROVE  ParseJID(user \o <<Sign(":"), Num(device), Sign("@")>> \o server)
              = Parsed(user, 0, device % 65536, server)
<1> DEFINE colon == Sign(":")
           number == Num(device)
           at == Sign("@")
           text == user \o <<colon, number, at>> \o server
           part == user \o <<colon, number>>
           tail == <<number>>
           whole == <<part>>
           pieces == <<user, tail>>
<1>1. /\ user \in Seq(Token) /\ colon \in Token /\ number \in Token /\ at \in Token
  BY SignsAreTokens, NamesAreTokens
<1>2. /\ ~Holds(user, Sign(".")) /\ ~Holds(user, colon) /\ ~Holds(user, at)
      /\ ~Holds(tail, Sign(".")) /\ ~Holds(tail, colon) /\ ~Holds(tail, at)
      /\ Sign(".") # at /\ colon # at /\ Sign(".") # colon
  BY NamesHoldNoSign, NumbersHoldNoSign
<1>3. /\ pieces[1] = user /\ pieces[2][1][2] = device /\ Len(pieces) = 2
      /\ whole[Len(whole)] = part /\ Len(whole) # 2
  BY DEF Num
<1> HIDE DEF colon, number, at
<1>4. PutTogether(user, colon, number, colon, number, at)
  BY <1>1, PartsOfText
<1>5. part \o <<at>> = user \o <<colon, number, at>> /\ part = Append(user, colon) \o tail
  BY <1>4, Zenon DEF PutTogether
<1>6. part \in Seq(Token) /\ tail \in Seq(Token)
  BY <1>1
<1> HIDE DEF part, tail
<1>7. ~Holds(part, Sign(".")) /\ ~Holds(part, at)
  <2>1. /\ ~Holds(Append(user, colon) \o tail, Sign("."))
        /\ ~Holds(Append(user, colon) \o tail, at)
    BY <1>1, <1>2, <1>6, HoldsNeither
  <2> QED
    BY <1>5, <2>1
<1>8. Split(text, at) = <<part, server>>
  <2>1. Split(part \o <<at>> \o server, at) = <<part, server>>
    BY <1>6, <1>7, ServerBehind DEF at
  <2> QED
    BY <1>5, <2>1
<1>9. Split(part, Sign(".")) = whole
  BY <1>6, <1>7, SplitWhole
<1>10. Split(part, colon) = pieces
  <2>1. Split(Append(user, colon) \o tail, colon) = pieces
    BY <1>1, <1>2, <1>6, TwoPieces
  <2> QED
    BY <1>5, <2>1
<1> HIDE DEF text, whole, pieces
<1>11. ParseJID(text) = Parsed(pieces[1], 0, pieces[2][1][2] % 65536, server)
  BY <1>3, <1>8, <1>9, <1>10, ParsePieces DEF at, colon
<1> QED
  BY <1>3, <1>11 DEF text, colon, number, at

LEMMA ParseAgent ==
    ASSUME NEW user \in Seq(Names), NEW agent \in Nat, NEW device \in Nat,
           NEW server \in Seq(Names)
    PROVE  ParseJID(user \o <<Sign("."), Num(agent), Sign(":"), Num(device), Sign("@")>>
                         \o server)
              = Parsed(user, agent % 256, device % 65536, server)
<1> DEFINE dot == Sign(".")
           first == Num(agent)
           colon == Sign(":")
           number == Num(device)
           at == Sign("@")
           text == user \o <<dot, first, colon, number, at>> \o server
           part == user \o <<dot, first, colon, number>>
           rest == <<first, colon, number>>
           head == <<first>>
           tail == <<number>>
<1>1. /\ user \in Seq(Token) /\ dot \in Token /\ first \in Token
      /\ colon \in Token /\ number \in Token /\ at \in Token
  BY SignsAreTokens, NamesAreTokens
<1>2. /\ ~Holds(user, dot) /\ ~Holds(user, at)
      /\ ~Holds(head, dot) /\ ~Holds(head, colon) /\ ~Holds(head, at)
      /\ ~Holds(tail, dot) /\ ~Holds(tail, colon) /\ ~Holds(tail, at)
      /\ dot # at /\ colon # at /\ dot # colon
  BY NamesHoldNoSign, NumbersHoldNoSign
<1>3. head[1][2] = agent /\ tail[1][2] = device
  BY DEF Num
<1> HIDE DEF dot, first, colon, number, at
<1>4. PutTogether(user, dot, first, colon, number, at)
  BY <1>1, PartsOfText
<1>5. /\ part \o <<at>> = user \o <<dot, first, colon, number, at>>
      /\ part = Append(user, dot) \o rest
      /\ rest = Append(head, colon) \o tail
  BY <1>4, Zenon DEF PutTogether
<1>6. /\ part \in Seq(Token) /\ rest \in Seq(Token)
      /\ head \in Seq(Token) /\ tail \in Seq(Token)
  BY <1>1
<1> HIDE DEF part, rest, head, tail
<1>7. ~Holds(rest, dot) /\ ~Holds(rest, at)
  <2>1. ~Holds(Append(head, colon) \o tail, dot) /\ ~Holds(Append(head, colon) \o tail, at)
    BY <1>1, <1>2, <1>6, HoldsNeither
  <2> QED
    BY <1>5, <2>1
<1>8. ~Holds(part, at)
  <2>1. ~Holds(Append(user, dot) \o rest, at)
    BY <1>1, <1>2, <1>6, <1>7, HoldsNeither
  <2> QED
    BY <1>5, <2>1
<1>9. Split(text, at) = <<part, server>>
  <2>1. Split(part \o <<at>> \o server, at) = <<part, server>>
    BY <1>6, <1>8, ServerBehind DEF at
  <2> QED
    BY <1>5, <2>1
<1>10. Split(part, dot) = <<user, rest>>
  <2>1. Split(Append(user, dot) \o rest, dot) = <<user, rest>>
    BY <1>1, <1>2, <1>6, <1>7, TwoPieces
  <2> QED
    BY <1>5, <2>1
<1>11. Split(rest, colon) = <<head, tail>>
  <2>1. Split(Append(head, colon) \o tail, colon) = <<head, tail>>
    BY <1>1, <1>2, <1>6, TwoPieces
  <2> QED
    BY <1>5, <2>1
<1> HIDE DEF text
<1>12. ParseJID(text) = Parsed(user, head[1][2] % 256, tail[1][2] % 65536, server)
  BY <1>9, <1>10, <1>11, ParseBoth DEF at, colon, dot
<1> QED
  BY <1>3, <1>12 DEF text, dot, first, colon, number, at

\* Every text of an address, read again, has the parts of it, in the widths that
\* whatsmeow keeps.
TextWith(text, user, agent, device, server) ==
    text = IF agent > 0
           THEN user \o <<Sign("."), Num(agent), Sign(":"), Num(device), Sign("@")>> \o server
           ELSE IF device > 0
           THEN user \o <<Sign(":"), Num(device), Sign("@")>> \o server
           ELSE IF user # <<>> THEN user \o <<Sign("@")>> \o server ELSE server

ReadAs(text, user, agent, device, server) ==
    ParseJID(text) = Parsed(user, agent % 256, device % 65536, server)

LEMMA ReadAgent ==
    ASSUME NEW user \in Seq(Names), NEW server \in Seq(Names),
           NEW agent \in Nat, NEW device \in Nat
    PROVE  ReadAs(user \o <<Sign("."), Num(agent), Sign(":"), Num(device), Sign("@")>>
                       \o server, user, agent, device, server)
<1>1. ParseJID(user \o <<Sign("."), Num(agent), Sign(":"), Num(device), Sign("@")>> \o server)
          = Parsed(user, agent % 256, device % 65536, server)
  BY ParseAgent
<1> QED
  BY <1>1 DEF ReadAs

LEMMA ReadDevice ==
    ASSUME NEW user \in Seq(Names), NEW server \in Seq(Names), NEW device \in Nat
    PROVE  ReadAs(user \o <<Sign(":"), Num(device), Sign("@")>> \o server,
                  user, 0, device, server)
<1>1. ParseJID(user \o <<Sign(":"), Num(device), Sign("@")>> \o server)
          = Parsed(user, 0, device % 65536, server)
  BY ParseDevice
<1>2. 0 % 256 = 0
  OBVIOUS
<1> QED
  BY <1>1, <1>2 DEF ReadAs

LEMMA ReadUser ==
    ASSUME NEW user \in Seq(Names), NEW server \in Seq(Names)
    PROVE  ReadAs(IF user # <<>> THEN user \o <<Sign("@")>> \o server ELSE server,
                  user, 0, 0, server)
<1>1. 0 % 256 = 0 /\ 0 % 65536 = 0
  BY SMT
<1>2. CASE user # <<>>
  <2>1. ParseJID(user \o <<Sign("@")>> \o server) = Parsed(user, 0, 0, server)
    BY ParseUser
  <2> QED
    BY <1>1, <1>2, <2>1 DEF ReadAs
<1>3. CASE user = <<>>
  <2>1. ParseJID(server) = Parsed(<<>>, 0, 0, server)
    BY ParseServer
  <2> QED
    BY <1>1, <1>3, <2>1 DEF ReadAs
<1> QED
  BY <1>2, <1>3

LEMMA ReadParts ==
    ASSUME NEW user \in Seq(Names), NEW server \in Seq(Names),
           NEW agent \in Nat, NEW device \in Nat, NEW text,
           TextWith(text, user, agent, device, server)
    PROVE  ReadAs(text, user, agent, device, server)
<1>1. CASE agent > 0
  BY <1>1, ReadAgent DEF TextWith
<1>2. CASE agent = 0 /\ device > 0
  <2>1. text = user \o <<Sign(":"), Num(device), Sign("@")>> \o server
    BY <1>2 DEF TextWith
  <2> QED
    BY <1>2, <2>1, ReadDevice
<1>3. CASE agent = 0 /\ device = 0
  <2>1. text = IF user # <<>> THEN user \o <<Sign("@")>> \o server ELSE server
    BY <1>3 DEF TextWith
  <2> QED
    BY <1>3, <2>1, ReadUser
<1> QED
  BY <1>1, <1>2, <1>3

LEMMA ReadBack ==
    ASSUME NEW jid, jid.User \in Seq(Names), jid.Server \in Seq(Names),
           jid.RawAgent \in Nat, jid.Device \in Nat
    PROVE  ReadAs(Jid2String(jid), jid.User, jid.RawAgent, jid.Device, jid.Server)
<1>1. TextWith(Jid2String(jid), jid.User, jid.RawAgent, jid.Device, jid.Server)
  BY DEF Jid2String, TextWith
<1> QED
  BY <1>1, ReadParts, Zenon

\* A number within a width is unchanged by it.
LEMMA WithinWidths ==
    ASSUME NEW n \in Nat
    PROVE  (n < 256 => n % 256 = n) /\ (n < 65536 => n % 65536 = n)
  BY SMT

LEMMA ReadWhole ==
    ASSUME NEW jid,
           jid.User \in Seq(Names), jid.Server \in Seq(Names),
           jid.RawAgent \in Nat, jid.RawAgent < 256,
           jid.Device \in Nat, jid.Device < 65536
    PROVE  ParseJID(Jid2String(jid)) =
              Parsed(jid.User, jid.RawAgent, jid.Device, jid.Server)
<1>1. jid.RawAgent % 256 = jid.RawAgent /\ jid.Device % 65536 = jid.Device
  BY WithinWidths
<1>2. ReadAs(Jid2String(jid), jid.User, jid.RawAgent, jid.Device, jid.Server)
  BY ReadBack
<1> QED
  BY <1>1, <1>2 DEF ReadAs

\* Addresses in those widths that have one text are one.
LEMMA OneText ==
    ASSUME NEW a, NEW b, \A jid \in {a, b} :
              /\ jid.User \in Seq(Names) /\ jid.Server \in Seq(Names)
              /\ jid.RawAgent \in Nat /\ jid.RawAgent < 256
              /\ jid.Device \in Nat /\ jid.Device < 65536,
           Jid2String(a) = Jid2String(b)
    PROVE  a.User = b.User /\ a.RawAgent = b.RawAgent /\ a.Device = b.Device
           /\ a.Server = b.Server
<1>1. /\ ParseJID(Jid2String(a)) = Parsed(a.User, a.RawAgent, a.Device, a.Server)
      /\ ParseJID(Jid2String(b)) = Parsed(b.User, b.RawAgent, b.Device, b.Server)
  BY ReadWhole
<1>2. Parsed(a.User, a.RawAgent, a.Device, a.Server) =
          Parsed(b.User, b.RawAgent, b.Device, b.Server)
  BY <1>1
<1> QED
  BY <1>2 DEF Parsed

-----------------------------------------------------------------------------
(* Requests.                                                               *)

\* What becomes of any ids and numbers.
LEMMA AnyTextsArrive ==
    ASSUME NEW T, Space \in T, NEW texts \in Seq(Seq(T))
    PROVE  TextsArrive(texts)
<1> DEFINE spaced == \E i \in DOMAIN texts : Holds(texts[i], Space)
           sent == Split(JoinWith(texts, Space), Space)
<1>1. CASE texts = <<>>
  <2>1. JoinWith(texts, Space) = <<>>
    BY <1>1, JoinNothing
  <2>2. sent = << <<>> >>
    BY <2>1, SplitNothing
  <2>3. << <<>> >> # <<>>
    OBVIOUS
  <2>4. sent # texts /\ ~spaced
    BY <1>1, <2>2, <2>3
  <2> HIDE DEF sent, spaced
  <2>5. mark_read(texts) = sent /\ is_on_whatsapp(texts) = texts
    BY <1>1, Zenon DEF mark_read, is_on_whatsapp, Join, sent
  <2> QED
    BY <1>1, <2>4, <2>5, Zenon DEF TextsArrive, spaced
<1>2. CASE texts # <<>>
  <2>1. sent = texts <=> ~spaced
    BY <1>2, SplitJoin, SplitJoinSpoiled
  <2> HIDE DEF sent, spaced
  <2>2. mark_read(texts) = sent /\ is_on_whatsapp(texts) = sent
    BY <1>2, Zenon DEF mark_read, is_on_whatsapp, Join, sent
  <2> QED
    BY <1>2, <2>1, <2>2, Zenon DEF TextsArrive, spaced
<1> QED
  BY <1>1, <1>2

\* And of any ids of messages of a newsletter.
LEMMA AnyViewedArrive ==
    ASSUME NEW ids \in Seq(Nat)
    PROVE  ViewedArrive(ids)
<1> DEFINE reply == newsletter_mark_viewed(ids)
           zeros == [i \in DOMAIN ids |-> 0]
           bytes == [i \in DOMAIN ids |-> ids[i] % 256]
           beyond == \E i \in DOMAIN ids : ids[i] > 127
<1>1. (\E i \in DOMAIN ids : ids[i] \notin -128 .. 127) <=> beyond
  <2>1. \A n \in Nat : n \notin -128 .. 127 <=> n > 127
    OBVIOUS
  <2>2. \A i \in DOMAIN ids : ids[i] \in Nat
    OBVIOUS
  <2> QED
    BY <2>1, <2>2
<1>2. reply = IF beyond THEN [raised |-> TRUE, marked |-> <<>>]
              ELSE [raised |-> FALSE, marked |-> zeros \o bytes]
  BY <1>1, Zenon DEF newsletter_mark_viewed
<1>3. CASE beyond
  <2>1. reply.raised = TRUE
    BY <1>2, <1>3
  <2> HIDE DEF reply, beyond
  <2> QED
    BY <1>3, <2>1, Zenon DEF ViewedArrive, reply, beyond
<1>4. CASE ~beyond
  <2>1. reply.raised = FALSE /\ reply.marked = zeros \o bytes
    BY <1>2, <1>4
  <2>2. zeros \in Seq(Nat) /\ Len(zeros) = Len(ids) /\ \A i \in DOMAIN ids : zeros[i] = 0
    OBVIOUS
  <2>3. bytes = ids
    <3>1. \A i \in DOMAIN ids : ids[i] % 256 = ids[i]
      <4>1. \A n \in Nat : n <= 127 => n % 256 = n
        OBVIOUS
      <4>2. \A i \in DOMAIN ids : ids[i] \in Nat /\ ids[i] <= 127
        BY <1>4
      <4> QED
        BY <4>1, <4>2
    <3> QED
      BY <3>1
  <2> HIDE DEF reply, beyond, zeros, bytes
  <2>4. ASSUME NEW p \in Seq(Nat), NEW q \in Seq(Nat), Len(p) = Len(q)
        PROVE  /\ SubSeq(p \o q, Len(q) + 1, Len(p \o q)) = q
               /\ \A i \in DOMAIN q : (p \o q)[i] = p[i]
    BY <2>4
  <2>5. /\ SubSeq(reply.marked, Len(ids) + 1, Len(reply.marked)) = ids
        /\ \A i \in DOMAIN ids : reply.marked[i] = 0
    BY <2>1, <2>2, <2>3, <2>4
  <2> QED
    BY <1>4, <2>1, <2>5, Zenon DEF ViewedArrive, reply, beyond
<1> QED
  BY <1>3, <1>4

-----------------------------------------------------------------------------
(* Pieces of texts.                                                        *)

\* A text that holds a separator falls apart there.
Around(text, before, separator, after) == text = Append(before, separator) \o after

LEMMA PartsAround ==
    ASSUME NEW T, NEW text \in Seq(T), NEW separator, Holds(text, separator)
    PROVE  /\ separator \in T
           /\ \E before, after \in Seq(T) : Around(text, before, separator, after)
<1>1. PICK i \in 1 .. Len(text) : text[i] = separator
  BY DEF Holds, Contains
<1> DEFINE before == SubSeq(text, 1, i - 1)
           after == SubSeq(text, i + 1, Len(text))
<1>2. separator \in T
  BY <1>1
<1>3. /\ before \in Seq(T) /\ Len(before) = i - 1
      /\ \A j \in 1 .. i - 1 : before[j] = text[j]
      /\ after \in Seq(T) /\ Len(after) = Len(text) - i
      /\ \A j \in 1 .. Len(text) - i : after[j] = text[i + j]
  OBVIOUS
<1> HIDE DEF before, after
<1>4. ASSUME NEW p \in Seq(T), NEW q \in Seq(T), Len(p) = i - 1, Len(q) = Len(text) - i,
             \A j \in 1 .. i - 1 : p[j] = text[j],
             \A j \in 1 .. Len(text) - i : q[j] = text[i + j]
      PROVE  Around(text, p, separator, q)
  <2> DEFINE start == Append(p, separator)
  <2>1. start \in Seq(T) /\ Len(start) = i /\ \A j \in 1 .. i : start[j] = text[j]
    <3>1. /\ start \in Seq(T) /\ Len(start) = Len(p) + 1
          /\ \A j \in 1 .. Len(p) : start[j] = p[j]
          /\ start[Len(p) + 1] = separator
      BY <1>2
    <3> HIDE DEF start
    <3>2. Len(p) + 1 = i /\ Len(p) = i - 1
      BY <1>4
    <3>3. ASSUME NEW j \in 1 .. i
          PROVE  start[j] = text[j]
      <4>1. CASE j = i
        BY <1>1, <3>1, <3>2, <4>1
      <4>2. CASE j # i
        <5>1. j \in 1 .. i - 1
          BY <4>2
        <5> QED
          BY <1>4, <3>1, <3>2, <5>1
      <4> QED
        BY <4>1, <4>2
    <3> QED
      BY <3>1, <3>2, <3>3
  <2> HIDE DEF start
  <2>2. ASSUME NEW r \in Seq(T), Len(r) = i, \A j \in 1 .. i : r[j] = text[j]
        PROVE  r \o q = text
    <3> DEFINE whole == r \o q
    <3>1. /\ whole \in Seq(T) /\ Len(whole) = Len(r) + Len(q)
          /\ \A j \in 1 .. Len(r) : whole[j] = r[j]
          /\ \A j \in Len(r) + 1 .. Len(r) + Len(q) : whole[j] = q[j - Len(r)]
      OBVIOUS
    <3> HIDE DEF whole
    <3>2. Len(whole) = Len(text)
      BY <1>4, <2>2, <3>1
    <3>3. ASSUME NEW j \in 1 .. Len(text)
          PROVE  whole[j] = text[j]
      <4>1. CASE j <= i
        BY <2>2, <3>1, <4>1
      <4>2. CASE j > i
        <5>1. /\ j \in Len(r) + 1 .. Len(r) + Len(q)
              /\ j - i \in 1 .. Len(text) - i /\ i + (j - i) = j
          BY <1>4, <2>2, <4>2
        <5> QED
          BY <1>4, <2>2, <3>1, <5>1
      <4> QED
        BY <4>1, <4>2
    <3>4. whole = text
      BY <3>1, <3>2, <3>3, SeqEqual
    <3> QED
      BY <3>4 DEF whole
  <2>3. start \o q = text
    BY <2>1, <2>2
  <2> QED
    BY <2>3 DEF start, Around
<1> QED
  BY <1>2, <1>3, <1>4

\* The number of pieces: one, and more where there is a separator.
LEMMA PiecesCount ==
    ASSUME NEW T, NEW text \in Seq(T), NEW separator
    PROVE  /\ Len(Split(text, separator)) \in Nat
           /\ Len(Split(text, separator)) >= IF Holds(text, separator) THEN 2 ELSE 1
<1>1. \A p \in Pieces(T) : Len(p) \in Nat /\ Len(p) >= 1
  <2>1. ASSUME NEW S, NEW p \in Seq(S), p # <<>>
        PROVE  Len(p) \in Nat /\ Len(p) >= 1
    BY <2>1
  <2> QED
    BY <2>1 DEF Pieces
<1>2. \A s \in Seq(T) : Split(s, separator) \in Pieces(T)
  BY SplitType
<1>3. CASE Holds(text, separator)
  <2>1. separator \in T
    BY <1>3, PartsAround
  <2>2. PICK before \in Seq(T), after \in Seq(T) : Around(text, before, separator, after)
    BY <1>3, PartsAround
  <2> DEFINE p == Split(before, separator)
             q == Split(after, separator)
  <2>3. Split(text, separator) = p \o q
    BY <2>1, <2>2, SplitBetween DEF Around
  <2>4. p \in Pieces(T) /\ q \in Pieces(T)
    BY <1>2
  <2> HIDE DEF p, q
  <2>5. ASSUME NEW S, NEW r \in Seq(S), NEW s \in Seq(S)
        PROVE  Len(r \o s) = Len(r) + Len(s)
    OBVIOUS
  <2>6. Len(p \o q) = Len(p) + Len(q)
    BY <2>4, <2>5 DEF Pieces
  <2>7. Len(p) \in Nat /\ Len(p) >= 1 /\ Len(q) \in Nat /\ Len(q) >= 1
    BY <1>1, <2>4
  <2> QED
    BY <1>3, <2>3, <2>6, <2>7
<1>4. CASE ~Holds(text, separator)
  BY <1>1, <1>2, <1>4
<1> QED
  BY <1>3, <1>4

\* No piece holds what the text does not.
LEMMA PiecesHold ==
    ASSUME NEW T, NEW text \in Seq(T), NEW separator, NEW c, ~Holds(text, c)
    PROVE  \A k \in DOMAIN Split(text, separator) : ~Holds(Split(text, separator)[k], c)
<1> DEFINE Others == T \ {c}
<1>1. text \in Seq(Others)
  BY DEF Holds, Contains
<1>2. \A s \in Seq(Others) : ~Holds(s, c)
  BY DEF Holds, Contains
<1> HIDE DEF Others
<1>3. Split(text, separator) \in Pieces(Others)
  BY <1>1, SplitType
<1>4. ASSUME NEW S, NEW p \in Seq(S), NEW k \in DOMAIN p
      PROVE  p[k] \in S
  OBVIOUS
<1> QED
  BY <1>2, <1>3, <1>4 DEF Pieces

\* Pieces that are all found among others.
Among(p, q) == \A k \in DOMAIN p : \E m \in DOMAIN q : q[m] = p[k]

LEMMA AmongConcat ==
    ASSUME NEW S, NEW p \in Seq(S), NEW q \in Seq(S), NEW r
    PROVE  /\ Among(q, p \o q)
           /\ Among(r, p) => Among(r, p \o q)
<1>1. ASSUME NEW k \in DOMAIN q
      PROVE  \E m \in DOMAIN (p \o q) : (p \o q)[m] = q[k]
  <2>1. /\ Len(p) + k \in DOMAIN (p \o q)
        /\ (p \o q)[Len(p) + k] = q[k]
    OBVIOUS
  <2> QED
    BY <2>1
<1>2. \A k \in DOMAIN p : k \in DOMAIN (p \o q) /\ (p \o q)[k] = p[k]
  OBVIOUS
<1>3. Among(q, p \o q)
  BY <1>1 DEF Among
<1>4. Among(r, p) => Among(r, p \o q)
  BY <1>2, Zenon DEF Among
<1> QED
  BY <1>3, <1>4

\* The pieces of each of the texts are among those of what is joined of them, which
\* holds what each of them holds.
LEMMA JoinKeeps ==
    ASSUME NEW T, NEW texts \in Seq(Seq(T)), NEW separator \in T, NEW c
    PROVE  \A i \in DOMAIN texts :
              /\ Among(Split(texts[i], separator), Split(JoinWith(texts, separator), separator))
              /\ Holds(texts[i], c) => Holds(JoinWith(texts, separator), c)
<1> DEFINE Kept(text, s) ==
              /\ Among(Split(text, separator), Split(JoinWith(s, separator), separator))
              /\ Holds(text, c) => Holds(JoinWith(s, separator), c)
           Good == {s \in Seq(Seq(T)) : \A i \in DOMAIN s : Kept(s[i], s)}
<1>1. <<>> \in Good
  OBVIOUS
<1>2. ASSUME NEW s \in Seq(Seq(T)), NEW e \in Seq(T), s \in Good
      PROVE  Append(s, e) \in Good
  <2> DEFINE t == Append(s, e)
  <2>1. /\ t \in Seq(Seq(T))
        /\ \A i \in DOMAIN t : (i \in DOMAIN s /\ t[i] = s[i]) \/ t[i] = e
    <3>1. ASSUME NEW S, NEW p \in Seq(S), NEW d \in S
          PROVE  /\ Append(p, d) \in Seq(S)
                 /\ \A i \in DOMAIN Append(p, d) :
                       (i \in DOMAIN p /\ Append(p, d)[i] = p[i]) \/ Append(p, d)[i] = d
      OBVIOUS
    <3> DEFINE S == Seq(T)
    <3> HIDE DEF S
    <3>2. s \in Seq(S) /\ e \in S
      BY DEF S
    <3>3. /\ t \in Seq(S)
          /\ \A i \in DOMAIN t : (i \in DOMAIN s /\ t[i] = s[i]) \/ t[i] = e
      BY <3>1, <3>2
    <3> QED
      BY <3>3 DEF S
  <2> DEFINE before == JoinWith(s, separator)
             joined == JoinWith(t, separator)
  <2>2. before \in Seq(T)
    BY JoinType
  <2>3. joined = IF s = <<>> THEN e ELSE before \o <<separator>> \o e
    BY JoinAppend
  <2>4. Split(joined, separator) =
            IF s = <<>> THEN Split(e, separator)
            ELSE Split(before, separator) \o Split(e, separator)
    BY SplitJoinAppend
  <2>5. Split(before, separator) \in Seq(Seq(T)) /\ Split(e, separator) \in Seq(Seq(T))
    BY <2>2, SplitType DEF Pieces
  <2> HIDE DEF t, before, joined
  <2>6. /\ s # <<>> /\ Holds(before, c) => Holds(joined, c)
        /\ Holds(e, c) => Holds(joined, c)
    <3>1. CASE s = <<>>
      BY <2>3, <3>1
    <3>2. CASE s # <<>>
      <4> DEFINE start == Append(before, separator)
      <4>1. start = before \o <<separator>>
        BY <2>2
      <4>2. start \in Seq(T) /\ (Holds(before, c) => Holds(start, c))
        <5>1. start \in Seq(T)
          BY <2>2
        <5>2. Holds(start, c) <=> Holds(before, c) \/ separator = c
          BY <2>2, HoldsAppend
        <5> QED
          BY <5>1, <5>2
      <4> HIDE DEF start
      <4>3. Holds(start \o e, c) <=> Holds(start, c) \/ Holds(e, c)
        BY <4>2, HoldsConcat
      <4>4. joined = start \o e
        BY <2>3, <3>2, <4>1
      <4> QED
        BY <3>2, <4>2, <4>3, <4>4
    <3> QED
      BY <3>1, <3>2
  <2>7. /\ Among(Split(e, separator), Split(joined, separator))
        /\ \A r : s # <<>> /\ Among(r, Split(before, separator))
                    => Among(r, Split(joined, separator))
    <3>1. CASE s = <<>>
      <4>1. \A r : Among(r, r)
        BY Zenon DEF Among
      <4> QED
        BY <2>4, <3>1, <4>1
    <3>2. CASE s # <<>>
      BY <2>4, <2>5, <3>2, AmongConcat
    <3> QED
      BY <3>1, <3>2
  <2>8. Kept(e, t)
    BY <2>6, <2>7 DEF joined
  <2>9. ASSUME NEW i \in DOMAIN s
        PROVE  Kept(s[i], t)
    <3>1. Kept(s[i], s)
      BY <1>2
    <3>2. s # <<>>
      BY <2>9
    <3> QED
      BY <2>6, <2>7, <3>1, <3>2 DEF joined, before
  <2> HIDE DEF Kept
  <2>10. \A i \in DOMAIN t : Kept(t[i], t)
    BY <2>1, <2>8, <2>9
  <2>11. t \in Good
    BY <2>1, <2>10
  <2> QED
    BY <2>11 DEF t
<1> HIDE DEF Good, Kept
<1>3. Seq(Seq(T)) \subseteq Good
  BY <1>1, <1>2, SeqSetInduction
<1>4. \A i \in DOMAIN texts : Kept(texts[i], texts)
  BY <1>3 DEF Good
<1> QED
  BY <1>4 DEF Kept

-----------------------------------------------------------------------------
(* Lines of fields.                                                        *)

\* A line of four fields and its parts: what is in the middle are two of them.
Middle(push, comma, business) == Append(push, comma) \o business

LineOf(line, id, comma, middle, flag) ==
    line = Append(id, comma) \o (Append(middle, comma) \o <<flag>>)

Associates(p, q, r) == (p \o q) \o r = p \o (q \o r)

LEMMA ConcatAgain ==
    ASSUME NEW T, NEW p \in Seq(T), NEW q \in Seq(T), NEW r \in Seq(T)
    PROVE  Associates(p, q, r)
BY DEF Associates

LEMMA LineParts ==
    ASSUME NEW T, NEW id \in Seq(T), NEW comma \in T, NEW push \in Seq(T),
           NEW business \in Seq(T), NEW flag \in T
    PROVE  LineOf(id \o <<comma>> \o push \o <<comma>> \o business \o <<comma, flag>>,
                  id, comma, Middle(push, comma, business), flag)
<1> DEFINE first == Append(id, comma)
           second == Append(push, comma)
           tail == <<comma, flag>>
           middle == second \o business
<1>1. first \in Seq(T) /\ second \in Seq(T) /\ tail \in Seq(T) /\ middle \in Seq(T)
  OBVIOUS
<1>2. id \o <<comma>> \o push \o <<comma>> = first \o second
  <2>1. id \o <<comma>> = first
    OBVIOUS
  <2>2. AppendsBehind(first, push, comma)
    BY <1>1, ConcatAppend
  <2>3. Append(first \o push, comma) = first \o second
    BY <2>2 DEF AppendsBehind
  <2> HIDE DEF first
  <2> DEFINE start == first \o push
  <2>4. start \in Seq(T)
    BY <1>1
  <2> HIDE DEF start
  <2>5. start \o <<comma>> = Append(start, comma)
    BY <2>4
  <2> QED
    BY <2>1, <2>3, <2>5 DEF start
<1>3. Append(middle, comma) \o <<flag>> = middle \o tail
  <2> HIDE DEF middle
  <2> QED
    BY <1>1
<1> HIDE DEF first, second, tail
<1>4. Associates(first, second, business)
  BY <1>1, ConcatAgain
<1>5. (first \o second) \o business = first \o middle
  BY <1>4 DEF Associates
<1> HIDE DEF middle
<1>6. Associates(first, middle, tail)
  BY <1>1, ConcatAgain
<1>7. (first \o middle) \o tail = first \o (middle \o tail)
  BY <1>6 DEF Associates
<1>8. id \o <<comma>> \o push \o <<comma>> \o business \o tail
          = first \o (Append(middle, comma) \o <<flag>>)
  BY <1>2, <1>3, <1>5, <1>7
<1> QED
  BY <1>8 DEF LineOf, Middle, first, second, middle, tail

\* What three texts of pieces, one of them of one piece, put together are.
Before(p, m, whole) ==
    /\ Len(whole) = 1 + Len(m) /\ whole[1] = p[1]
    /\ \A k \in 1 .. Len(m) : whole[1 + k] = m[k]

LEMMA OneBefore ==
    ASSUME NEW S, NEW p \in Seq(S), NEW m \in Seq(S), Len(p) = 1
    PROVE  Before(p, m, p \o m)
<1> DEFINE whole == p \o m
           n == Len(m)
           l == Len(p)
<1>1. /\ Len(whole) = l + n
      /\ \A k \in 1 .. l : whole[k] = p[k]
      /\ \A k \in l + 1 .. l + n : whole[k] = m[k - l]
  BY ConcatParts
<1>2. l = 1 /\ n \in Nat
  OBVIOUS
<1> HIDE DEF whole, n, l
<1>3. Len(whole) = 1 + n /\ whole[1] = p[1]
  BY <1>1, <1>2
<1>4. ASSUME NEW k \in 1 .. n
      PROVE  whole[1 + k] = m[k]
  <2>1. 1 + k \in l + 1 .. l + n /\ (1 + k) - l = k
    BY <1>2
  <2> QED
    BY <1>1, <2>1
<1> QED
  BY <1>3, <1>4 DEF whole, n, Before

LEMMA OneBehind ==
    ASSUME NEW S, NEW q \in Seq(S), NEW r \in Seq(S), Len(r) = 1
    PROVE  /\ q \o r \in Seq(S) /\ Len(q \o r) = Len(q) + 1
           /\ Len(q) = 2 => /\ (q \o r)[1] = q[1] /\ (q \o r)[2] = q[2]
                            /\ (q \o r)[3] = r[1]
<1> DEFINE whole == q \o r
           n == Len(q)
           l == Len(r)
<1>1. /\ whole \in Seq(S) /\ Len(whole) = n + l
      /\ \A k \in 1 .. n : whole[k] = q[k]
      /\ \A k \in n + 1 .. n + l : whole[k] = r[k - n]
  BY ConcatParts
<1>2. l = 1 /\ n \in Nat
  OBVIOUS
<1> HIDE DEF whole, n, l
<1>3. n = 2 => whole[1] = q[1] /\ whole[2] = q[2] /\ whole[3] = r[1]
  <2> SUFFICES ASSUME n = 2
               PROVE  whole[1] = q[1] /\ whole[2] = q[2] /\ whole[3] = r[1]
    OBVIOUS
  <2>1. 3 \in n + 1 .. n + l /\ 3 - n = 1 /\ 1 \in 1 .. n /\ 2 \in 1 .. n
    BY <1>2
  <2> QED
    BY <1>1, <2>1
<1> QED
  BY <1>1, <1>2, <1>3 DEF whole, n

LEMMA ThreeParts ==
    ASSUME NEW S, NEW p \in Seq(S), NEW q \in Seq(S), NEW r \in Seq(S),
           Len(p) = 1, Len(r) = 1
    PROVE  /\ Len(p \o (q \o r)) = 2 + Len(q)
           /\ (p \o (q \o r))[1] = p[1]
           /\ Len(q) = 2 => /\ (p \o (q \o r))[2] = q[1]
                            /\ (p \o (q \o r))[3] = q[2]
                            /\ (p \o (q \o r))[4] = r[1]
<1> DEFINE m == q \o r
           n == Len(q)
<1>1. /\ m \in Seq(S) /\ Len(m) = n + 1
      /\ n = 2 => m[1] = q[1] /\ m[2] = q[2] /\ m[3] = r[1]
  BY OneBehind
<1>2. n \in Nat
  OBVIOUS
<1> HIDE DEF m, n
<1> DEFINE all == p \o m
<1>0. Before(p, m, all)
  BY <1>1, OneBefore
<1> HIDE DEF all
<1>3. /\ Len(all) = 1 + Len(m) /\ all[1] = p[1]
      /\ \A k \in 1 .. Len(m) : all[1 + k] = m[k]
  BY <1>0 DEF Before
<1>4. Len(all) = 2 + n /\ all[1] = p[1]
  BY <1>1, <1>2, <1>3
<1>5. n = 2 => all[2] = q[1] /\ all[3] = q[2] /\ all[4] = r[1]
  <2>1. n = 2 => Len(m) = 3
    BY <1>1
  <2>2. Len(m) = 3 => all[1 + 1] = m[1] /\ all[1 + 2] = m[2] /\ all[1 + 3] = m[3]
    BY <1>3
  <2>3. 1 + 1 = 2 /\ 1 + 2 = 3 /\ 1 + 3 = 4
    OBVIOUS
  <2> QED
    BY <1>1, <2>1, <2>2, <2>3
<1> QED
  BY <1>4, <1>5 DEF all, m, n

\* Its fields are those, exactly if no comma is within the two in the middle.
Unbroken(push, comma, business) == ~Holds(push, comma) /\ ~Holds(business, comma)

Fielded(line, id, comma, push, business, flag) ==
    /\ Len(Split(line, comma)) = 4 <=> Unbroken(push, comma, business)
    /\ Unbroken(push, comma, business) =>
          /\ Split(line, comma)[1] = id
          /\ Split(line, comma)[2] = push
          /\ Split(line, comma)[3] = business
          /\ Split(line, comma)[4] = <<flag>>

LEMMA MiddleFields ==
    ASSUME NEW T, NEW comma \in T, NEW push \in Seq(T), NEW business \in Seq(T)
    PROVE  LET pieces == Split(Middle(push, comma, business), comma)
           IN  /\ pieces \in Seq(Seq(T)) /\ Len(pieces) \in Nat
               /\ Len(pieces) = 2 <=> Unbroken(push, comma, business)
               /\ Unbroken(push, comma, business)
                     => pieces[1] = push /\ pieces[2] = business
<1> DEFINE pieces == Split(Middle(push, comma, business), comma)
           p == Split(push, comma)
           q == Split(business, comma)
           S == Seq(T)
<1>1. pieces = p \o q
  BY SplitBetween DEF Middle
<1>2. p \in Seq(S) /\ q \in Seq(S)
  BY SplitType DEF Pieces
<1>3. /\ Len(p) \in Nat /\ Len(p) >= IF Holds(push, comma) THEN 2 ELSE 1
      /\ Len(q) \in Nat /\ Len(q) >= IF Holds(business, comma) THEN 2 ELSE 1
  BY PiecesCount
<1>4. /\ ~Holds(push, comma) => p = <<push>>
      /\ ~Holds(business, comma) => q = <<business>>
  BY SplitWhole
<1> HIDE DEF pieces, p, q, S
<1>5. /\ ~Holds(push, comma) => Len(p) = 1 /\ p[1] = push
      /\ ~Holds(business, comma) => Len(q) = 1 /\ q[1] = business
  BY <1>4
<1>6. /\ p \o q \in Seq(S) /\ Len(p \o q) = Len(p) + Len(q)
      /\ \A k \in 1 .. Len(p) : (p \o q)[k] = p[k]
      /\ \A k \in Len(p) + 1 .. Len(p) + Len(q) : (p \o q)[k] = q[k - Len(p)]
  BY <1>2, ConcatParts
<1>7. Len(pieces) = Len(p) + Len(q) /\ pieces \in Seq(S)
  BY <1>1, <1>6
<1>8. Len(pieces) = 2 <=> Unbroken(push, comma, business)
  <2>1. CASE Holds(push, comma)
    <3>1. Len(pieces) # 2
      BY <1>3, <1>7, <2>1
    <3> QED
      BY <2>1, <3>1, Zenon DEF Unbroken
  <2>2. CASE Holds(business, comma)
    <3>1. Len(pieces) # 2
      BY <1>3, <1>7, <2>2
    <3> QED
      BY <2>2, <3>1, Zenon DEF Unbroken
  <2>3. CASE ~Holds(push, comma) /\ ~Holds(business, comma)
    <3>1. Len(p) = 1 /\ Len(q) = 1
      BY <1>5, <2>3
    <3>2. Len(pieces) = 2
      BY <1>7, <3>1
    <3> QED
      BY <2>3, <3>2, Zenon DEF Unbroken
  <2> QED
    BY <2>1, <2>2, <2>3
<1>9. ASSUME Unbroken(push, comma, business)
      PROVE  pieces[1] = push /\ pieces[2] = business
  <2>1. Len(p) = 1 /\ p[1] = push /\ Len(q) = 1 /\ q[1] = business
    BY <1>5, <1>9 DEF Unbroken
  <2>2. 1 \in 1 .. Len(p) /\ 2 \in Len(p) + 1 .. Len(p) + Len(q) /\ 2 - Len(p) = 1
    BY <2>1
  <2> QED
    BY <1>1, <1>6, <2>1, <2>2
<1>10. Len(pieces) \in Nat
  BY <1>3, <1>7
<1> QED
  BY <1>7, <1>8, <1>9, <1>10 DEF pieces, S

LEMMA FieldsOf ==
    ASSUME NEW T, NEW line, NEW id \in Seq(T), NEW comma \in T, NEW push \in Seq(T),
           NEW business \in Seq(T), NEW flag \in T,
           LineOf(line, id, comma, Middle(push, comma, business), flag),
           ~Holds(id, comma), flag # comma
    PROVE  Fielded(line, id, comma, push, business, flag)
<1> DEFINE middle == Middle(push, comma, business)
           end == <<flag>>
           ends == <<end>>
           rest == Append(middle, comma) \o end
           names == Split(middle, comma)
           one == <<id>>
           S == Seq(T)
           unbroken == Unbroken(push, comma, business)
<1>1. /\ names \in Seq(S) /\ Len(names) \in Nat
      /\ Len(names) = 2 <=> unbroken
      /\ unbroken => names[1] = push /\ names[2] = business
  BY MiddleFields
<1>2. middle \in Seq(T) /\ end \in Seq(T)
  <2>1. Append(push, comma) \in Seq(T)
    OBVIOUS
  <2> QED
    BY <2>1, ConcatParts DEF Middle
<1>3. line = Append(id, comma) \o rest
  BY DEF LineOf
<1>4. ~Holds(end, comma)
  BY DEF Holds, Contains
<1>5. /\ ends \in Seq(S) /\ Len(ends) = 1 /\ ends[1] = end
      /\ one \in Seq(S) /\ Len(one) = 1 /\ one[1] = id
  OBVIOUS
<1> HIDE DEF middle, end, unbroken
<1>6. Split(rest, comma) = names \o ends
  <2>1. Split(end, comma) = ends
    BY <1>2, <1>4, SplitWhole
  <2>2. Split(Append(middle, comma) \o end, comma) = Split(middle, comma) \o Split(end, comma)
    BY <1>2, SplitBetween
  <2> QED
    BY <2>1, <2>2
<1>7. rest \in Seq(T)
  <2>1. Append(middle, comma) \in Seq(T)
    BY <1>2
  <2> QED
    BY <1>2, <2>1, ConcatParts
<1> HIDE DEF rest, ends
<1>8. Split(line, comma) = one \o (names \o ends)
  <2>1. Split(id, comma) = one
    BY SplitWhole DEF one
  <2>2. Split(Append(id, comma) \o rest, comma) = Split(id, comma) \o Split(rest, comma)
    BY <1>7, SplitBetween
  <2> QED
    BY <1>3, <1>6, <2>1, <2>2
<1> HIDE DEF names, one, S
<1>9. /\ Len(one \o (names \o ends)) = 2 + Len(names)
      /\ (one \o (names \o ends))[1] = id
      /\ Len(names) = 2 => /\ (one \o (names \o ends))[2] = names[1]
                           /\ (one \o (names \o ends))[3] = names[2]
                           /\ (one \o (names \o ends))[4] = end
  BY <1>1, <1>5, ThreeParts
<1> DEFINE fields == Split(line, comma)
           all == one \o (names \o ends)
<1>10. fields = all
  BY <1>8
<1>11. Len(all) = 2 + Len(names) /\ all[1] = id
  BY <1>9
<1>12. Len(names) = 2 => all[2] = names[1] /\ all[3] = names[2] /\ all[4] = end
  BY <1>9
<1> HIDE DEF fields, all
<1>13. Len(fields) = 4 <=> unbroken
  <2>1. Len(fields) = 2 + Len(names)
    BY <1>10, <1>11
  <2>2. Len(fields) = 4 <=> Len(names) = 2
    <3>1. Len(names) \in Nat
      BY <1>1, Zenon
    <3>2. \A n \in Nat : 2 + n = 4 <=> n = 2
      OBVIOUS
    <3> QED
      BY <2>1, <3>1, <3>2, Zenon
  <2> QED
    BY <1>1, <2>2, Zenon
<1>14. unbroken => /\ fields[1] = id /\ fields[2] = push /\ fields[3] = business
                   /\ fields[4] = end
  BY <1>1, <1>10, <1>11, <1>12
<1> QED
  BY <1>13, <1>14 DEF fields, Fielded, unbroken, end
=============================================================================
