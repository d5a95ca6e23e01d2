----------------------------- MODULE SketchProofs -----------------------------
(***************************************************************************)
(* Theorems about module Sketch, for every number of pids and of commands: *)
(* what the handlers answer, whichever call of the ELM fails.              *)
(*                                                                         *)
(* An answer is put together from pieces of text, and so is the argument:  *)
(* a piece is known by its excess of braces and of brackets and by the     *)
(* tokens at its two ends, and pieces whose ends fit make a piece (Join).  *)
(* For the loops of read_all and read_car the invariant says which piece   *)
(* data is at every turn.                                                  *)
(***************************************************************************)
EXTENDS Sketch, SequenceTheorems, FiniteSetTheorems, TLAPS

(* Where a token stands in a text. *)
Places(text, token) == {i \in 1..Len(text) : text[i] = token}

LEMMA PlacesAreFinite ==
  ASSUME NEW text \in Seq(Token), NEW token
  PROVE  /\ IsFiniteSet(Places(text, token))
         /\ Cardinality(Places(text, token)) \in Nat
<1>1. Len(text) \in Nat
  OBVIOUS
<1>2. IsFiniteSet(1..Len(text))
  BY <1>1, FS_Interval
<1>3. Places(text, token) \in SUBSET (1..Len(text))
  BY DEF Places
<1>4. IsFiniteSet(Places(text, token))
  BY <1>2, <1>3, FS_Subset
<1> QED BY <1>4, FS_CardinalityType

LEMMA PlacesInConcat ==
  ASSUME NEW s \in Seq(Token), NEW t \in Seq(Token), NEW token
  PROVE  Cardinality(Places(s \o t, token))
           = Cardinality(Places(s, token)) + Cardinality(Places(t, token))
<1> DEFINE P == Places(s, token)
           Q == Places(t, token)
           R == {i + Len(s) : i \in Q}
           shift == [i \in Q |-> i + Len(s)]
<1>1. /\ Len(s) \in Nat /\ Len(t) \in Nat
      /\ Len(s \o t) = Len(s) + Len(t)
      /\ \A i \in 1..Len(s) + Len(t) :
           (s \o t)[i] = IF i <= Len(s) THEN s[i] ELSE t[i - Len(s)]
  BY ConcatProperties
<1>2. P \subseteq 1..Len(s) /\ Q \subseteq 1..Len(t)
  BY DEF Places
<1>3. Places(s \o t, token) = P \union R
  <2>1. ASSUME NEW i \in Places(s \o t, token) PROVE i \in P \union R
    <3>1. i \in 1..Len(s) + Len(t) /\ (s \o t)[i] = token
      BY <1>1 DEF Places
    <3>2. CASE i <= Len(s)
      BY <1>1, <3>1, <3>2 DEF Places
    <3>3. CASE i > Len(s)
      <4>1. i - Len(s) \in 1..Len(t) /\ t[i - Len(s)] = token
        BY <1>1, <3>1, <3>3
      <4>2. i - Len(s) \in Q /\ i = (i - Len(s)) + Len(s)
        BY <1>1, <3>1, <4>1 DEF Places
      <4> QED BY <4>2
    <3> QED BY <1>1, <3>1, <3>2, <3>3
  <2>2. ASSUME NEW i \in P PROVE i \in Places(s \o t, token)
    BY <1>1, <2>2 DEF Places
  <2>3. ASSUME NEW i \in Q PROVE i + Len(s) \in Places(s \o t, token)
    <3>1. i \in 1..Len(t) /\ t[i] = token
      BY DEF Places
    <3>2. /\ i + Len(s) \in 1..Len(s) + Len(t) /\ ~(i + Len(s) <= Len(s))
          /\ (i + Len(s)) - Len(s) = i
      BY <1>1, <3>1
    <3> QED BY <1>1, <3>1, <3>2 DEF Places
  <2> QED BY <2>1, <2>2, <2>3
<1>4. P \cap R = {}
  <2>1. \A i \in P : i <= Len(s)
    BY <1>1, <1>2
  <2>2. \A i \in Q : i + Len(s) > Len(s)
    BY <1>1, <1>2
  <2> HIDE DEF P, Q
  <2> QED BY <1>1, <1>2, <2>1, <2>2
<1>5. IsFiniteSet(P) /\ IsFiniteSet(Q) /\ Cardinality(P) \in Nat
  BY PlacesAreFinite
<1>6. IsFiniteSet(R) /\ Cardinality(R) = Cardinality(Q)
  <2>1. shift \in [Q -> R]
    OBVIOUS
  <2>2. \A i, j \in Q : shift[i] = shift[j] => i = j
    <3> HIDE DEF P, Q
    <3> QED BY <1>1, <1>2
  <2>3. \A r \in R : \E i \in Q : shift[i] = r
    OBVIOUS
  <2> HIDE DEF P, Q, R, shift
  <2>4. shift \in Bijection(Q, R)
    BY <2>1, <2>2, <2>3 DEF Bijection, Injection, Surjection, IsInjective
  <2>5. ExistsBijection(Q, R)
    BY <2>4 DEF ExistsBijection
  <2> QED BY <1>5, <2>5, FS_Bijection
<1> HIDE DEF P, Q, R
<1>7. Cardinality(P \union R) = Cardinality(P) + Cardinality(R) - 0
  BY <1>4, <1>5, <1>6, FS_Union, FS_EmptySet
<1>8. Cardinality(R) \in Nat
  BY <1>6, FS_CardinalityType
<1>9. Cardinality(P \union R) = Cardinality(P) + Cardinality(Q)
  BY <1>5, <1>6, <1>7, <1>8
<1> QED BY <1>3, <1>9 DEF P, Q

(* The excess of opening over closing tokens adds up. *)
LEMMA ExcessOfConcat ==
  ASSUME NEW s \in Seq(Token), NEW t \in Seq(Token), NEW open, NEW close
  PROVE  /\ Excess(s, open, close) \in Int
         /\ Excess(s \o t, open, close)
              = Excess(s, open, close) + Excess(t, open, close)
<1> DEFINE n(text, kind) == Cardinality(Places(text, Tok(kind)))
<1>1. \A text, kind : n(text, kind)
        = Cardinality({i \in 1..Len(text) : text[i] = Tok(kind)})
  BY DEF Places
<1>2. /\ n(s, open) \in Nat /\ n(s, close) \in Nat
      /\ n(t, open) \in Nat /\ n(t, close) \in Nat
  BY PlacesAreFinite
<1>3. /\ n(s \o t, open) = n(s, open) + n(t, open)
      /\ n(s \o t, close) = n(s, close) + n(t, close)
  BY PlacesInConcat
<1>4. /\ Excess(s, open, close) = n(s, open) - n(s, close)
      /\ Excess(t, open, close) = n(t, open) - n(t, close)
      /\ Excess(s \o t, open, close) = n(s \o t, open) - n(s \o t, close)
  BY <1>1 DEF Excess
<1> HIDE DEF n
<1> QED BY <1>2, <1>3, <1>4

-----------------------------------------------------------------------------
(* Pieces of text *)

Linked(text) ==
  \A i \in 1..Len(text) - 1 : Follows(text[i][1], text[i + 1][1])

(* A text that opens so many braces and brackets more than it closes, that   *)
(* begins with one kind of token and ends with another.                      *)
Piece(text, braces, brackets, first, last) ==
  /\ text \in Seq(Token) /\ Len(text) >= 1
  /\ Excess(text, "lbrace", "rbrace") = braces
  /\ Excess(text, "lbrack", "rbrack") = brackets
  /\ Linked(text)
  /\ text[1][1] = first /\ text[Len(text)][1] = last

LEMMA Join ==
  ASSUME NEW s, NEW t, NEW a, NEW b, NEW c, NEW d,
         NEW f, NEW l, NEW g, NEW m,
         Piece(s, a, b, f, l), Piece(t, c, d, g, m), Follows(l, g)
  PROVE  Piece(s \o t, a + c, b + d, f, m)
<1>1. /\ s \in Seq(Token) /\ t \in Seq(Token)
      /\ Len(s) \in Nat \ {0} /\ Len(t) \in Nat \ {0}
  BY DEF Piece
<1>2. /\ s \o t \in Seq(Token) /\ Len(s \o t) = Len(s) + Len(t)
      /\ \A i \in 1..Len(s) + Len(t) :
           (s \o t)[i] = IF i <= Len(s) THEN s[i] ELSE t[i - Len(s)]
  BY <1>1, ConcatProperties
<1>3. /\ Excess(s \o t, "lbrace", "rbrace") = a + c
      /\ Excess(s \o t, "lbrack", "rbrack") = b + d
  BY <1>1, ExcessOfConcat DEF Piece
<1>4. (s \o t)[1][1] = f
  BY <1>1, <1>2 DEF Piece
<1>5. (s \o t)[Len(s \o t)][1] = m
  <2>1. /\ Len(s) + Len(t) \in 1..Len(s) + Len(t)
        /\ ~(Len(s) + Len(t) <= Len(s))
        /\ (Len(s) + Len(t)) - Len(s) = Len(t)
    BY <1>1
  <2> QED BY <1>2, <2>1 DEF Piece
<1>6. ASSUME NEW i \in 1..Len(s) + Len(t) - 1
      PROVE  Follows((s \o t)[i][1], (s \o t)[i + 1][1])
  <2>1. CASE i < Len(s)
    <3>1. (s \o t)[i] = s[i] /\ (s \o t)[i + 1] = s[i + 1]
      BY <1>1, <1>2, <2>1
    <3>2. i \in 1..Len(s) - 1
      BY <1>1, <2>1
    <3> QED BY <3>1, <3>2 DEF Piece, Linked
  <2>2. CASE i = Len(s)
    <3>1. (s \o t)[i] = s[Len(s)] /\ (s \o t)[i + 1] = t[1]
      BY <1>1, <1>2, <2>2
    <3> QED BY <3>1 DEF Piece
  <2>3. CASE i > Len(s)
    <3>1. i - Len(s) \in 1..Len(t) - 1
      BY <1>1, <2>3
    <3>2. /\ (s \o t)[i] = t[i - Len(s)]
          /\ (s \o t)[i + 1] = t[(i - Len(s)) + 1]
      <4>1. /\ i \in 1..Len(s) + Len(t) /\ i + 1 \in 1..Len(s) + Len(t)
            /\ ~(i <= Len(s)) /\ ~(i + 1 <= Len(s))
            /\ (i + 1) - Len(s) = (i - Len(s)) + 1
        BY <1>1, <2>3
      <4> QED BY <1>2, <4>1
    <3> QED BY <3>1, <3>2 DEF Piece, Linked
  <2> QED BY <1>1, <2>1, <2>2, <2>3
<1>7. Len(s \o t) >= 1
  BY <1>1, <1>2
<1> QED BY <1>2, <1>3, <1>4, <1>5, <1>6, <1>7 DEF Piece, Linked

(* A single token. *)
Weight(kind, open, close) ==
  IF kind = open THEN 1 ELSE IF kind = close THEN -1 ELSE 0

LEMMA PlacesInOne ==
  ASSUME NEW token, NEW other
  PROVE  Cardinality(Places(<<token>>, other))
           = IF token = other THEN 1 ELSE 0
<1>1. CASE token = other
  <2>1. Places(<<token>>, other) = {1}
    BY <1>1 DEF Places
  <2> QED BY <1>1, <2>1, FS_Singleton
<1>2. CASE token # other
  <2>1. Places(<<token>>, other) = {}
    BY <1>2 DEF Places
  <2> QED BY <1>2, <2>1, FS_EmptySet
<1> QED BY <1>1, <1>2

LEMMA ExcessOfOne ==
  ASSUME NEW kind, NEW open, NEW close, open # close, NEW n
  PROVE  Excess(<< <<kind, n>> >>, open, close)
           = IF n = 0 THEN Weight(kind, open, close)
             ELSE 0
<1> DEFINE text == << <<kind, n>> >>
<1>1. Excess(text, open, close)
        = Cardinality(Places(text, Tok(open)))
            - Cardinality(Places(text, Tok(close)))
  BY DEF Excess, Places
<1>2. /\ <<kind, n>> = Tok(open) <=> kind = open /\ n = 0
      /\ <<kind, n>> = Tok(close) <=> kind = close /\ n = 0
  BY DEF Tok
<1>3. /\ Cardinality(Places(text, Tok(open)))
           = IF kind = open /\ n = 0 THEN 1 ELSE 0
      /\ Cardinality(Places(text, Tok(close)))
           = IF kind = close /\ n = 0 THEN 1 ELSE 0
  BY <1>2, PlacesInOne
<1> HIDE DEF text
<1> QED BY <1>1, <1>3 DEF Weight, text

LEMMA OneToken ==
  ASSUME NEW kind \in Kind
  PROVE  Piece(Text(<<kind>>), Weight(kind, "lbrace", "rbrace"),
               Weight(kind, "lbrack", "rbrack"), kind, kind)
<1>1. Text(<<kind>>) = << <<kind, 0>> >>
  BY DEF Text, Tok
<1>2. <<kind, 0>> \in Token
  BY SketchAssumption DEF Token, Pid
<1>3. /\ Excess(Text(<<kind>>), "lbrace", "rbrace")
           = Weight(kind, "lbrace", "rbrace")
      /\ Excess(Text(<<kind>>), "lbrack", "rbrack")
           = Weight(kind, "lbrack", "rbrack")
  BY <1>1, ExcessOfOne
<1> QED BY <1>1, <1>2, <1>3 DEF Piece, Linked

LEMMA PidToken ==
  ASSUME NEW pid \in Pid
  PROVE  Piece(<< <<"pid", pid>> >>, 0, 0, "pid", "pid")
<1>1. <<"pid", pid>> \in Token
  BY DEF Token, Kind
<1>2. /\ Weight("pid", "lbrace", "rbrace") = 0
      /\ Weight("pid", "lbrack", "rbrack") = 0
  BY DEF Weight
<1>3. /\ Excess(<< <<"pid", pid>> >>, "lbrace", "rbrace") = 0
      /\ Excess(<< <<"pid", pid>> >>, "lbrack", "rbrack") = 0
  BY <1>2, ExcessOfOne
<1> QED BY <1>1, <1>3 DEF Piece, Linked

LEMMA TextIsText ==
  ASSUME NEW kinds \in Seq(Kind)
  PROVE  Text(kinds) \in Seq(Token)
<1>1. \A k \in Kind : Tok(k) \in Token
  BY SketchAssumption DEF Tok, Token, Pid
<1>2. Len(kinds) \in Nat /\ \A i \in 1..Len(kinds) : kinds[i] \in Kind
  OBVIOUS
<1> QED BY <1>1, <1>2 DEF Text

LEMMA TextIsFunction ==
  ASSUME NEW W, NEW text \in Seq(W)
  PROVE  text = [i \in 1..Len(text) |-> text[i]]
<1>1. text \in [1..Len(text) -> W]
  BY LenProperties
<1> QED BY <1>1

(* A text of several tokens is put together from texts of one. *)
LEMMA TextOfConcat ==
  ASSUME NEW s \in Seq(Kind), NEW t \in Seq(Kind)
  PROVE  Text(s \o t) = Text(s) \o Text(t)
<1>1. /\ Len(s) \in Nat /\ Len(t) \in Nat
      /\ Len(s \o t) = Len(s) + Len(t)
      /\ \A i \in 1..Len(s) + Len(t) :
           (s \o t)[i] = IF i <= Len(s) THEN s[i] ELSE t[i - Len(s)]
  BY ConcatProperties
<1> DEFINE W == Kind \X {0}
           u == Text(s)
           v == Text(t)
<1>2. /\ u \in Seq(W) /\ Len(u) = Len(s)
      /\ \A i \in 1..Len(s) : u[i] = Tok(s[i])
  BY <1>1 DEF Text, Tok
<1>3. /\ v \in Seq(W) /\ Len(v) = Len(t)
      /\ \A i \in 1..Len(t) : v[i] = Tok(t[i])
  BY <1>1 DEF Text, Tok
<1>4. /\ Text(s \o t) = [i \in 1..Len(s) + Len(t) |-> Tok((s \o t)[i])]
  BY <1>1 DEF Text
<1> HIDE DEF W, u, v
<1>5. /\ u \o v \in Seq(W) /\ Len(u \o v) = Len(u) + Len(v)
      /\ \A i \in 1..Len(u) + Len(v) :
           (u \o v)[i] = IF i <= Len(u) THEN u[i] ELSE v[i - Len(u)]
  <2>1. u \in Seq(W) /\ v \in Seq(W)
    BY <1>2, <1>3
  <2> QED BY ONLY <2>1, ConcatProperties
<1>6. ASSUME NEW i \in 1..Len(s) + Len(t)
      PROVE  Tok((s \o t)[i]) = (u \o v)[i]
  <2>1. CASE i <= Len(s)
    BY <1>1, <1>2, <1>3, <1>5, <2>1
  <2>2. CASE ~(i <= Len(s))
    <3>1. i - Len(s) \in 1..Len(t)
      BY <1>1, <2>2
    <3> QED BY <1>1, <1>2, <1>3, <1>5, <2>2, <3>1
  <2> QED BY <2>1, <2>2
<1>7. u \o v = [i \in 1..Len(s) + Len(t) |-> (u \o v)[i]]
  <2>1. u \o v = [i \in 1..Len(u \o v) |-> (u \o v)[i]]
    BY <1>5, TextIsFunction
  <2>2. Len(u \o v) = Len(s) + Len(t)
    BY <1>2, <1>3, <1>5
  <2> QED BY <2>1, <2>2
<1>8. Text(s \o t) = u \o v
  BY <1>4, <1>6, <1>7
<1> QED BY <1>8 DEF u, v

LEMMA Tokens ==
  /\ Piece(Text(<<"lbrace">>), 1, 0, "lbrace", "lbrace")
  /\ Piece(Text(<<"rbrace">>), -1, 0, "rbrace", "rbrace")
  /\ Piece(Text(<<"lbrack">>), 0, 1, "lbrack", "lbrack")
  /\ Piece(Text(<<"rbrack">>), 0, -1, "rbrack", "rbrack")
  /\ Piece(Text(<<"comma">>), 0, 0, "comma", "comma")
  /\ Piece(Text(<<"key">>), 0, 0, "key", "key")
  /\ Piece(Text(<<"item">>), 0, 0, "item", "item")
BY OneToken DEF Weight, Kind

LEMMA TextOfTwo ==
  ASSUME NEW k \in Kind, NEW j \in Kind
  PROVE  Text(<<k, j>>) = Text(<<k>>) \o Text(<<j>>)
<1>1. <<k>> \in Seq(Kind) /\ <<j>> \in Seq(Kind)
  OBVIOUS
<1>2. <<k>> \o <<j>> = <<k, j>>
  <2>1. /\ <<k>> \o <<j>> \in Seq(Kind) /\ Len(<<k>> \o <<j>>) = 2
        /\ (<<k>> \o <<j>>)[1] = k /\ (<<k>> \o <<j>>)[2] = j
    BY <1>1, ConcatProperties
  <2>2. <<k, j>> \in Seq(Kind) /\ Len(<<k, j>>) = 2
    OBVIOUS
  <2>3. \A i \in 1..2 : (<<k>> \o <<j>>)[i] = <<k, j>>[i]
    BY <2>1
  <2> QED BY <2>1, <2>2, <2>3, SeqEqual
<1> QED BY <1>1, <1>2, TextOfConcat

LEMMA TextOfThree ==
  ASSUME NEW k \in Kind, NEW j \in Kind, NEW n \in Kind
  PROVE  Text(<<k, j, n>>) = Text(<<k, j>>) \o Text(<<n>>)
<1>1. <<k, j>> \in Seq(Kind) /\ <<n>> \in Seq(Kind)
  OBVIOUS
<1>2. <<k, j>> \o <<n>> = <<k, j, n>>
  <2>1. /\ <<k, j>> \o <<n>> \in Seq(Kind)
        /\ Len(<<k, j>> \o <<n>>) = 3
        /\ (<<k, j>> \o <<n>>)[1] = k /\ (<<k, j>> \o <<n>>)[2] = j
        /\ (<<k, j>> \o <<n>>)[3] = n
    BY <1>1, ConcatProperties
  <2>2. <<k, j, n>> \in Seq(Kind) /\ Len(<<k, j, n>>) = 3
    OBVIOUS
  <2>3. \A i \in 1..3 : (<<k, j>> \o <<n>>)[i] = <<k, j, n>>[i]
    BY <2>1
  <2> QED BY <2>1, <2>2, <2>3, SeqEqual
<1> QED BY <1>1, <1>2, TextOfConcat

LEMMA TextOfFour ==
  ASSUME NEW k \in Kind, NEW j \in Kind, NEW n \in Kind, NEW m \in Kind
  PROVE  Text(<<k, j, n, m>>) = Text(<<k, j, n>>) \o Text(<<m>>)
<1>1. <<k, j, n>> \in Seq(Kind) /\ <<m>> \in Seq(Kind)
  OBVIOUS
<1>2. <<k, j, n>> \o <<m>> = <<k, j, n, m>>
  <2>1. /\ <<k, j, n>> \o <<m>> \in Seq(Kind)
        /\ Len(<<k, j, n>> \o <<m>>) = 4
        /\ (<<k, j, n>> \o <<m>>)[1] = k /\ (<<k, j, n>> \o <<m>>)[2] = j
        /\ (<<k, j, n>> \o <<m>>)[3] = n /\ (<<k, j, n>> \o <<m>>)[4] = m
    BY <1>1, ConcatProperties
  <2>2. <<k, j, n, m>> \in Seq(Kind) /\ Len(<<k, j, n, m>>) = 4
    OBVIOUS
  <2>3. \A i \in 1..4 : (<<k, j, n>> \o <<m>>)[i] = <<k, j, n, m>>[i]
    BY <2>1
  <2> QED BY <2>1, <2>2, <2>3, SeqEqual
<1> QED BY <1>1, <1>2, TextOfConcat

(* The pieces that the handlers use. *)
LEMMA ItemComma == Piece(Text(<<"item", "comma">>), 0, 0, "item", "comma")
<1>1. Text(<<"item", "comma">>) = Text(<<"item">>) \o Text(<<"comma">>)
  BY TextOfTwo DEF Kind
<1>2. Piece(Text(<<"item", "comma">>), 0 + 0, 0 + 0, "item", "comma")
  BY <1>1, Tokens, Join DEF Follows
<1> QED BY <1>2

LEMMA CommaKey == Piece(Text(<<"comma", "key">>), 0, 0, "comma", "key")
<1>1. Text(<<"comma", "key">>) = Text(<<"comma">>) \o Text(<<"key">>)
  BY TextOfTwo DEF Kind
<1>2. Piece(Text(<<"comma", "key">>), 0 + 0, 0 + 0, "comma", "key")
  BY <1>1, Tokens, Join DEF Follows
<1> QED BY <1>2

LEMMA CommaKeyBracket ==
  Piece(Text(<<"comma", "key", "lbrack">>), 0, 1, "comma", "lbrack")
<1>1. Text(<<"comma", "key", "lbrack">>)
        = Text(<<"comma", "key">>) \o Text(<<"lbrack">>)
  BY TextOfThree DEF Kind
<1>2. Piece(Text(<<"comma", "key", "lbrack">>), 0 + 0, 0 + 1,
            "comma", "lbrack")
  BY <1>1, CommaKey, Tokens, Join DEF Follows
<1> QED BY <1>2

LEMMA PreambleIsPiece == Piece(Preamble, 1, 0, "lbrace", "item")
<1>1. Text(<<"lbrace", "item">>) = Text(<<"lbrace">>) \o Text(<<"item">>)
  BY TextOfTwo DEF Kind
<1>2. Text(<<"lbrace", "item", "comma">>)
        = Text(<<"lbrace", "item">>) \o Text(<<"comma">>)
  BY TextOfThree DEF Kind
<1>3. Preamble = Text(<<"lbrace", "item", "comma">>) \o Text(<<"item">>)
  BY TextOfFour DEF Preamble, Kind
<1>4. Piece(Text(<<"lbrace", "item">>), 1 + 0, 0 + 0, "lbrace", "item")
  BY <1>1, Tokens, Join DEF Follows
<1>5. Piece(Text(<<"lbrace", "item", "comma">>), (1 + 0) + 0, (0 + 0) + 0,
            "lbrace", "comma")
  BY <1>2, <1>4, Tokens, Join DEF Follows
<1>6. Piece(Preamble, ((1 + 0) + 0) + 0, ((0 + 0) + 0) + 0, "lbrace", "item")
  BY <1>3, <1>5, Tokens, Join DEF Follows
<1> QED BY <1>6

LEMMA PidPair ==
  ASSUME NEW pid \in Pid
  PROVE  Piece(make_jsondata_pid(pid), 0, 0, "lbrace", "rbrace")
<1>1. Piece(Text(<<"lbrace">>) \o << <<"pid", pid>> >>, 1 + 0, 0 + 0,
            "lbrace", "pid")
  BY Tokens, PidToken, Join DEF Follows
<1>2. Text(<<"comma", "item">>) = Text(<<"comma">>) \o Text(<<"item">>)
  BY TextOfTwo DEF Kind
<1>3. Piece(Text(<<"comma", "item">>), 0 + 0, 0 + 0, "comma", "item")
  BY <1>2, Tokens, Join DEF Follows
<1>4. Text(<<"comma", "item", "rbrace">>)
        = Text(<<"comma", "item">>) \o Text(<<"rbrace">>)
  BY TextOfThree DEF Kind
<1>5. Piece(Text(<<"comma", "item", "rbrace">>), (0 + 0) + -1, (0 + 0) + 0,
            "comma", "rbrace")
  BY <1>3, <1>4, Tokens, Join DEF Follows
<1>6. Piece(make_jsondata_pid(pid), (1 + 0) + ((0 + 0) + -1),
            (0 + 0) + ((0 + 0) + 0), "lbrace", "rbrace")
  BY <1>1, <1>5, Join DEF make_jsondata_pid, Follows
<1> QED BY <1>6

(* What may stand as a value. *)
Value(text) ==
  \E first \in {"item", "lbrace", "lbrack"},
     last \in {"item", "rbrace", "rbrack"} :
       Piece(text, 0, 0, first, last)

LEMMA JsonOfValue ==
  ASSUME NEW value, value = <<>> \/ Value(value)
  PROVE  Piece(make_json(value), 0, 0, "lbrace", "rbrace")
<1>1. CASE value = <<>>
  <2>1. Piece(Preamble \o Text(<<"rbrace">>), 1 + -1, 0 + 0,
              "lbrace", "rbrace")
    BY PreambleIsPiece, Tokens, Join DEF Follows
  <2>2. make_json(value) = Preamble \o Text(<<"rbrace">>)
    <3>1. Preamble \o <<>> = Preamble
      BY PreambleIsPiece, ConcatEmptySeq DEF Piece
    <3> QED BY <1>1, <3>1 DEF make_json
  <2> QED BY <2>1, <2>2
<1>2. CASE value # <<>>
  <2>1. PICK first \in {"item", "lbrace", "lbrack"},
             last \in {"item", "rbrace", "rbrack"} :
               Piece(value, 0, 0, first, last)
    BY <1>2 DEF Value
  <2>2. Follows("key", first) /\ Follows(last, "rbrace")
    BY <2>1 DEF Follows
  <2>3. Piece(Text(<<"comma", "key">>) \o value, 0 + 0, 0 + 0, "comma", last)
    BY <2>1, <2>2, CommaKey, Join
  <2>4. Piece(Preamble \o (Text(<<"comma", "key">>) \o value),
              1 + (0 + 0), 0 + (0 + 0), "lbrace", last)
    BY <2>3, PreambleIsPiece, Join DEF Follows
  <2>5. Piece(make_json(value), (1 + (0 + 0)) + -1, (0 + (0 + 0)) + 0,
              "lbrace", "rbrace")
    BY <1>2, <2>2, <2>4, Tokens, Join DEF make_json
  <2> QED BY <2>5
<1> QED BY <1>1, <1>2

-----------------------------------------------------------------------------
(* The pids a text tells of *)

LEMMA TellsOfConcat ==
  ASSUME NEW s \in Seq(Token), NEW t \in Seq(Token), NEW S, NEW T,
         TellsOf(s, S), TellsOf(t, T), \A p \in S, q \in T : p < q
  PROVE  TellsOf(s \o t, S \union T)
<1>1. /\ Len(s) \in Nat /\ Len(t) \in Nat
      /\ Len(s \o t) = Len(s) + Len(t)
      /\ \A i \in 1..Len(s) + Len(t) :
           (s \o t)[i] = IF i <= Len(s) THEN s[i] ELSE t[i - Len(s)]
  BY ConcatProperties
<1> DEFINE u == s \o t
<1> HIDE DEF u
<1>2. ASSUME NEW i \in PidAt(u)
      PROVE  \/ /\ i \in Nat /\ i <= Len(s) /\ i \in PidAt(s)
                /\ u[i] = s[i]
             \/ /\ i \in Nat /\ i > Len(s) /\ i - Len(s) \in PidAt(t)
                /\ u[i] = t[i - Len(s)]
  <2>1. i \in 1..Len(s) + Len(t) /\ u[i][1] = "pid"
    BY <1>1, <1>2 DEF PidAt, u
  <2>2. CASE i <= Len(s)
    BY <1>1, <2>1, <2>2 DEF PidAt, u
  <2>3. CASE i > Len(s)
    <3>1. i - Len(s) \in 1..Len(t) /\ u[i] = t[i - Len(s)]
      BY <1>1, <2>1, <2>3 DEF u
    <3> QED BY <1>1, <2>1, <2>3, <3>1 DEF PidAt
  <2> QED BY <1>1, <2>1, <2>2, <2>3
<1>3. ASSUME NEW i \in PidAt(s)
      PROVE  i \in PidAt(u) /\ u[i] = s[i]
  BY <1>1, <1>3 DEF PidAt, u
<1>4. ASSUME NEW i \in PidAt(t)
      PROVE  i + Len(s) \in PidAt(u) /\ u[i + Len(s)] = t[i]
  <2>1. i \in 1..Len(t) /\ t[i][1] = "pid"
    BY DEF PidAt
  <2>2. /\ i + Len(s) \in 1..Len(s) + Len(t) /\ ~(i + Len(s) <= Len(s))
        /\ (i + Len(s)) - Len(s) = i
    BY <1>1, <2>1
  <2>3. u[i + Len(s)] = t[i]
    BY <1>1, <2>2 DEF u
  <2> QED BY <1>1, <2>1, <2>2, <2>3 DEF PidAt, u
<1>5. \A i \in PidAt(s) : s[i][2] \in S
  BY DEF TellsOf
<1>6. \A i \in PidAt(t) : t[i][2] \in T
  BY DEF TellsOf
<1>7. {u[i][2] : i \in PidAt(u)} = S \union T
  <2>1. ASSUME NEW i \in PidAt(u) PROVE u[i][2] \in S \union T
    BY <1>2, <1>5, <1>6
  <2>2. ASSUME NEW p \in S PROVE \E i \in PidAt(u) : u[i][2] = p
    <3>1. PICK i \in PidAt(s) : s[i][2] = p
      BY DEF TellsOf
    <3> QED BY <1>3, <3>1
  <2>3. ASSUME NEW p \in T PROVE \E i \in PidAt(u) : u[i][2] = p
    <3>1. PICK i \in PidAt(t) : t[i][2] = p
      BY DEF TellsOf
    <3> QED BY <1>4, <3>1
  <2> QED BY <2>1, <2>2, <2>3
<1>8. ASSUME NEW i \in PidAt(u), NEW j \in PidAt(u), i < j
      PROVE  u[i][2] < u[j][2]
  <2>1. CASE i > Len(s)
    <3>1. j > Len(s) /\ i - Len(s) < j - Len(s)
      BY <1>1, <1>2, <1>8, <2>1
    <3>2. /\ i - Len(s) \in PidAt(t) /\ u[i] = t[i - Len(s)]
          /\ j - Len(s) \in PidAt(t) /\ u[j] = t[j - Len(s)]
      BY <1>1, <1>2, <2>1, <3>1
    <3> QED BY <3>1, <3>2 DEF TellsOf
  <2>2. CASE j <= Len(s)
    <3>1. i <= Len(s)
      BY <1>1, <1>2, <1>8, <2>2
    <3>2. /\ i \in PidAt(s) /\ u[i] = s[i]
          /\ j \in PidAt(s) /\ u[j] = s[j]
      BY <1>1, <1>2, <2>2, <3>1
    <3> QED BY <1>8, <3>2 DEF TellsOf
  <2>3. CASE i <= Len(s) /\ j > Len(s)
    <3>1. /\ i \in PidAt(s) /\ u[i] = s[i]
          /\ j - Len(s) \in PidAt(t) /\ u[j] = t[j - Len(s)]
      BY <1>1, <1>2, <2>3
    <3> QED BY <1>5, <1>6, <3>1
  <2> QED BY <1>1, <1>2, <2>1, <2>2, <2>3
<1> QED BY <1>7, <1>8 DEF TellsOf, u

LEMMA TellsOfNone ==
  ASSUME NEW kinds \in Seq(Kind \ {"pid"})
  PROVE  TellsOf(Text(kinds), {})
<1>1. Len(Text(kinds)) = Len(kinds) /\ Len(kinds) \in Nat
  BY DEF Text
<1>2. \A i \in 1..Len(kinds) : Text(kinds)[i][1] # "pid"
  BY DEF Text, Tok
<1>3. PidAt(Text(kinds)) = {}
  BY <1>1, <1>2 DEF PidAt
<1> QED BY <1>3 DEF TellsOf

LEMMA TellsOfPid ==
  ASSUME NEW pid \in Pid
  PROVE  TellsOf(make_jsondata_pid(pid), {pid})
<1> DEFINE token == << <<"pid", pid>> >>
<1>1. TellsOf(token, {pid})
  <2>1. PidAt(token) = {1}
    BY DEF PidAt
  <2> QED BY <2>1 DEF TellsOf
<1>2. /\ <<"lbrace">> \in Seq(Kind \ {"pid"})
      /\ <<"comma", "item", "rbrace">> \in Seq(Kind \ {"pid"})
  BY DEF Kind
<1>3. /\ TellsOf(Text(<<"lbrace">>), {})
      /\ TellsOf(Text(<<"comma", "item", "rbrace">>), {})
  BY <1>2, TellsOfNone
<1>4. /\ Text(<<"lbrace">>) \in Seq(Token) /\ token \in Seq(Token)
      /\ Text(<<"comma", "item", "rbrace">>) \in Seq(Token)
  <2>1. /\ <<"lbrace">> \in Seq(Kind)
        /\ <<"comma", "item", "rbrace">> \in Seq(Kind)
    BY DEF Kind
  <2> QED BY <2>1, TextIsText, PidToken DEF Piece
<1> HIDE DEF token
<1>5. /\ Text(<<"lbrace">>) \o token \in Seq(Token)
      /\ TellsOf(Text(<<"lbrace">>) \o token, {} \union {pid})
  BY <1>1, <1>3, <1>4, TellsOfConcat, ConcatProperties
<1>6. TellsOf(make_jsondata_pid(pid), ({} \union {pid}) \union {})
  BY <1>3, <1>4, <1>5, TellsOfConcat DEF make_jsondata_pid, token
<1>7. ({} \union {pid}) \union {} = {pid}
  OBVIOUS
<1> QED BY <1>6, <1>7

-----------------------------------------------------------------------------
(* The inductive invariant *)

(* The command in hand is the last one of the requests. *)
InHand ==
  cmd # 0 => requests # <<>> /\ requests[Len(requests)] = cmd

(* Where the loops stand.  While a command is in hand, an error is a call of *)
(* the ELM that failed, and the loop is left before the next call.           *)
Loops ==
  /\ ~late
  /\ cmd # 0 => (failed <=> error)
  /\ cmd \notin {0, ReadAll, ReadCar} => ~error
  /\ cmd = ReadPid => at \in Pid
  /\ cmd = ReadAll => \A pid \in found : pid < at \/ error
  /\ cmd = ReadCar => at \in 1..Len(Question) + 1

(* What data is at each turn of the two loops that build an answer. *)
Partial ==
  /\ cmd = ReadAll /\ ~error =>
       /\ TellsOf(data, found)
       /\ IF found = {} THEN data = <<>>
                        ELSE Piece(data, 0, 0, "lbrace", "rbrace")
  /\ cmd = ReadCar /\ ~error =>
       /\ at = 1 => data = <<>>
       /\ at \in 2..Len(Question) => Piece(data, 0, 0, "item", "comma")
       /\ at = Len(Question) + 1 => Piece(data, 0, 0, "item", "item")

SketchInv ==
  /\ OneAnswerEach
  /\ InHand
  /\ Loops
  /\ Partial
  /\ AnswerTellsTheTruth
  /\ AnswersAreJson

LEMMA InitInv == Init => SketchInv
<1> SUFFICES ASSUME Init PROVE SketchInv
  OBVIOUS
<1>1. OneAnswerEach
  <2>1. 0 \in 0..LastPid + 5 /\ 0 <= MaxCommands
    BY SketchAssumption
  <2>2. TypeOK
    <3>1. /\ error \in BOOLEAN /\ failed \in BOOLEAN /\ late \in BOOLEAN
      BY DEF Init
    <3>2. /\ cmd \in 0..7 /\ at \in 0..LastPid + 5
          /\ data \in Seq(Token) /\ answers \in Seq(Answer)
          /\ requests \in Seq(Commands) /\ Len(requests) <= MaxCommands
          /\ found \subseteq Pid
      BY <2>1 DEF Init
    <3> QED BY <3>1, <3>2 DEF TypeOK
  <2>3. Len(answers) = 0 /\ Len(requests) = 0 /\ cmd = 0
    BY DEF Init
  <2> QED BY <2>2, <2>3 DEF OneAnswerEach
<1> QED BY <1>1 DEF Init, SketchInv, InHand, Loops, Partial, ReadPid, ReadAll,
                    ReadCar, AnswerTellsTheTruth, AnswersAreJson

LEMMA JsonOfPiece ==
  ASSUME NEW text, Piece(text, 0, 0, "lbrace", "rbrace")
  PROVE  IsJson(text) /\ text \in Seq(Token)
BY DEF IsJson, Piece, Linked

(* The answer to the command in hand is printed. *)
LEMMA Printing ==
  ASSUME SketchInv, cmd # 0,
         NEW status \in Status, NEW text \in Seq(Token),
         printLine(status, text),
         UNCHANGED <<at, data, error, requests, found>>,
         late' = FALSE, failed' \in BOOLEAN,
         status = "ok" <=> ~failed',
         cmd = ReadAll /\ status = "ok" => TellsOf(text, found),
         IsJson(text \o (IF cmd = ReadAll /\ status = "ok"
                         THEN Text(<<"rbrace">>) ELSE <<>>))
  PROVE  SketchInv'
<1> DEFINE new == [cmd |-> cmd, status |-> status, text |-> text]
<1>1. /\ TypeOK /\ InHand
      /\ Len(answers) = Len(requests) - 1
      /\ \A k \in 1..Len(answers) : answers[k].cmd = requests[k]
  BY DEF SketchInv, OneAnswerEach
<1>2. /\ answers \in Seq(Answer) /\ requests \in Seq(Commands)
      /\ cmd \in Commands
  BY <1>1 DEF TypeOK, Commands
<1>3. new \in Answer
  BY <1>2 DEF Answer
<1>4. answers' = Append(answers, new) /\ cmd' = 0
  BY DEF printLine
<1>5. /\ new.cmd = cmd /\ new.status = status /\ new.text = text
  OBVIOUS
<1> HIDE DEF new
<1>6. /\ answers' \in Seq(Answer) /\ Len(answers') = Len(answers) + 1
      /\ \A k \in 1..Len(answers) : answers'[k] = answers[k]
      /\ answers'[Len(answers) + 1] = new
      /\ Len(answers) \in Nat
  BY <1>2, <1>3, <1>4, AppendProperties
<1>7. TypeOK'
  <2>1. cmd' \in 0..7
    BY <1>4
  <2>2. late' \in BOOLEAN
    OBVIOUS
  <2> QED BY <1>1, <1>6, <2>1, <2>2 DEF TypeOK
<1>8. OneAnswerEach'
  <2>1. Len(answers') = Len(requests')
    BY <1>1, <1>2, <1>6
  <2>2. ASSUME NEW k \in 1..Len(answers') PROVE answers'[k].cmd = requests'[k]
    <3>1. CASE k \in 1..Len(answers)
      BY <1>1, <1>6, <3>1
    <3>2. CASE k = Len(answers) + 1
      <4>1. requests[Len(requests)] = cmd /\ k = Len(requests)
        BY <1>1, <1>2, <1>6, <3>2 DEF InHand
      <4> QED BY <1>5, <1>6, <3>2, <4>1
    <3> QED BY <1>6, <3>1, <3>2
  <2> QED BY <1>2, <1>4, <1>7, <2>1, <2>2 DEF OneAnswerEach
<1>9. AnswerTellsTheTruth'
  <2>1. Last(answers') = new
    BY <1>6 DEF Last
  <2> QED BY <1>5, <2>1 DEF AnswerTellsTheTruth
<1>10. AnswersAreJson'
  <2> SUFFICES ASSUME NEW k \in 1..Len(answers')
               PROVE  IsJson(answers'[k].text
                        \o (IF answers'[k].cmd = ReadAll
                               /\ answers'[k].status = "ok"
                            THEN Text(<<"rbrace">>) ELSE <<>>))
    BY DEF AnswersAreJson
  <2>1. CASE k \in 1..Len(answers)
    BY <1>6, <2>1 DEF SketchInv, AnswersAreJson
  <2>2. CASE k = Len(answers) + 1
    BY <1>5, <1>6, <2>2
  <2> QED BY <1>6, <2>1, <2>2
<1>11. (InHand /\ Loops /\ Partial)'
  BY <1>4 DEF InHand, Loops, Partial, ReadPid, ReadAll, ReadCar
<1> QED BY <1>8, <1>9, <1>10, <1>11 DEF SketchInv

(* The same for an answer that make_json makes. *)
LEMMA Responding ==
  ASSUME SketchInv, cmd # 0,
         NEW status \in Status, NEW value,
         value = <<>> \/ Value(value),
         cmd = ReadAll => status # "ok",
         respond(status, value),
         UNCHANGED <<at, data, error, requests, found>>,
         late' = FALSE, failed' \in BOOLEAN,
         status = "ok" <=> ~failed'
  PROVE  SketchInv'
<1>1. IsJson(make_json(value)) /\ make_json(value) \in Seq(Token)
  BY JsonOfValue, JsonOfPiece
<1>2. make_json(value) \o <<>> = make_json(value)
  BY <1>1, ConcatEmptySeq
<1>3. printLine(status, make_json(value))
  BY DEF respond
<1> QED BY <1>1, <1>2, <1>3, Printing

(* One call of the ELM, when none has failed. *)
LEMMA Asking ==
  ASSUME NEW ok \in BOOLEAN, ~failed, ~late, Ask(ok)
  PROVE  late' = FALSE /\ failed' \in BOOLEAN /\ (failed' <=> ~ok)
BY DEF Ask

LEMMA StepHandleData ==
  ASSUME SketchInv, NEW c \in Commands, NEW parameter \in Pid,
         handleData(c, parameter)
  PROVE  SketchInv'
<1>1. /\ TypeOK /\ cmd = 0 /\ cmd' = c /\ c # 0
      /\ requests' = Append(requests, c) /\ UNCHANGED answers
      /\ data' = <<>> /\ found' = {}
      /\ at' = CASE c = ReadPid -> parameter
                 [] c = ReadCar -> 1
                 [] OTHER       -> 0
  BY DEF handleData, SketchInv, OneAnswerEach, Commands
<1>2. /\ requests' \in Seq(Commands) /\ Len(requests') = Len(requests) + 1
      /\ \A k \in 1..Len(requests) : requests'[k] = requests[k]
      /\ requests'[Len(requests) + 1] = c
      /\ Len(requests) \in Nat
  BY <1>1, AppendProperties DEF TypeOK
<1>3. /\ c = ReadPid => at' = parameter
      /\ c = ReadCar => at' = 1
      /\ at' \in 0..LastPid + 5
  BY <1>1, SketchAssumption DEF Pid, ReadPid, ReadCar
<1>4. ~error' /\ ~failed' /\ ~late'
  BY DEF handleData
<1>5. TypeOK'
  <2>1. /\ cmd' \in 0..7 /\ data' \in Seq(Token) /\ answers' \in Seq(Answer)
        /\ found' \subseteq Pid
    BY <1>1 DEF TypeOK, Commands
  <2>2. Len(requests') <= MaxCommands
    BY <1>2, SketchAssumption DEF handleData
  <2>3. /\ error' \in BOOLEAN /\ failed' \in BOOLEAN /\ late' \in BOOLEAN
    BY DEF handleData
  <2> QED BY <1>2, <1>3, <2>1, <2>2, <2>3 DEF TypeOK
<1>6. OneAnswerEach'
  <2>1. /\ Len(answers) = Len(requests)
        /\ \A k \in 1..Len(answers) : answers[k].cmd = requests[k]
    BY <1>1, <1>2 DEF SketchInv, OneAnswerEach
  <2>2. Len(answers') = Len(requests') - 1
    BY <1>1, <1>2, <2>1
  <2>3. \A k \in 1..Len(answers') : answers'[k].cmd = requests'[k]
    BY <1>1, <1>2, <2>1
  <2> QED BY <1>1, <1>5, <2>2, <2>3 DEF OneAnswerEach
<1>7. InHand'
  BY <1>1, <1>2 DEF InHand
<1>8. Loops'
  BY <1>1, <1>3, <1>4 DEF Loops, Question, ReadPid, ReadAll, ReadCar
<1>9. Partial'
  <2>1. TellsOf(data', found')
    BY <1>1 DEF TellsOf, PidAt
  <2> QED BY <1>1, <1>3, <2>1 DEF Partial, Question, ReadCar, ReadAll
<1>10. AnswerTellsTheTruth' /\ AnswersAreJson'
  BY <1>1, <1>4 DEF SketchInv, AnswerTellsTheTruth, AnswersAreJson
<1> QED BY <1>6, <1>7, <1>8, <1>9, <1>10 DEF SketchInv

LEMMA StepSimple ==
  ASSUME SketchInv, NEW c \in Commands \ {ReadAll, ReadCar}, NEW value,
         value = <<>> \/ Value(value), Simple(c, value)
  PROVE  SketchInv'
<1>1. /\ cmd = c /\ cmd # 0 /\ cmd # ReadAll
      /\ UNCHANGED <<at, data, error, requests, found>>
  BY DEF Simple, Commands
<1>2. ~failed /\ ~late
  BY <1>1 DEF Simple, SketchInv, Loops, Commands
<1>3. PICK ok \in BOOLEAN :
        /\ Ask(ok)
        /\ IF ok THEN respond("ok", value) ELSE respond("error", <<>>)
  BY DEF Simple
<1>4. late' = FALSE /\ failed' \in BOOLEAN /\ (failed' <=> ~ok)
  BY <1>2, <1>3, Asking
<1>5. CASE ok
  <2>1. respond("ok", value) /\ "ok" \in Status
    BY <1>3, <1>5 DEF Status
  <2> QED BY <1>1, <1>4, <1>5, <2>1, Responding
<1>6. CASE ~ok
  <2>1. respond("error", <<>>) /\ "error" \in Status
    BY <1>3, <1>6 DEF Status
  <2> QED BY <1>1, <1>4, <1>6, <2>1, Responding
<1> QED BY <1>5, <1>6

LEMMA StepReadPid ==
  ASSUME SketchInv, read_pid
  PROVE  SketchInv'
<1> DEFINE value == Wrap("lbrack", make_jsondata_pid(at), "rbrack")
<1>1. /\ cmd = ReadPid /\ cmd # 0 /\ cmd # ReadAll
      /\ UNCHANGED <<at, data, error, requests, found>>
  <2>1. cmd = ReadPid /\ UNCHANGED <<at, data, error, requests, found>>
    BY DEF read_pid
  <2> QED BY <2>1 DEF ReadPid, ReadAll
<1>2. ~failed /\ ~late /\ at \in Pid
  BY <1>1 DEF SketchInv, Loops, ReadPid, ReadAll, ReadCar
<1>3. Value(value)
  <2>1. Piece(Text(<<"lbrack">>) \o make_jsondata_pid(at), 0 + 0, 1 + 0,
              "lbrack", "rbrace")
    BY <1>2, PidPair, Tokens, Join DEF Follows
  <2>2. Piece(value, (0 + 0) + 0, (1 + 0) + -1, "lbrack", "rbrack")
    BY <2>1, Tokens, Join DEF Wrap, Follows
  <2> QED BY <2>2 DEF Value
<1> HIDE DEF value
<1>4. PICK ok \in BOOLEAN :
        /\ Ask(ok)
        /\ IF ok THEN respond("ok", value) ELSE respond("elm error", <<>>)
  BY DEF read_pid, value
<1>5. late' = FALSE /\ failed' \in BOOLEAN /\ (failed' <=> ~ok)
  BY <1>2, <1>4, Asking
<1>6. CASE ok
  <2>1. respond("ok", value) /\ "ok" \in Status
    BY <1>4, <1>6 DEF Status
  <2> QED BY <1>1, <1>3, <1>5, <1>6, <2>1, Responding
<1>7. CASE ~ok
  <2>1. respond("elm error", <<>>) /\ "elm error" \in Status
    BY <1>4, <1>7 DEF Status
  <2> QED BY <1>1, <1>5, <1>7, <2>1, Responding
<1> QED BY <1>6, <1>7

(* A turn of a loop: nothing is printed yet, and no command comes in. *)
LEMMA Turning ==
  ASSUME SketchInv, cmd \in {ReadAll, ReadCar},
         UNCHANGED <<cmd, answers, requests>>,
         at' \in 0..LastPid + 5, data' \in Seq(Token), found' \subseteq Pid,
         error' \in BOOLEAN, failed' \in BOOLEAN, late' = FALSE,
         failed' <=> error',
         cmd = ReadAll => \A pid \in found' : pid < at' \/ error',
         cmd = ReadCar => at' \in 1..Len(Question) + 1,
         Partial'
  PROVE  SketchInv'
<1>1. TypeOK'
  <2>1. late' \in BOOLEAN
    OBVIOUS
  <2>2. /\ cmd' \in 0..7 /\ answers' \in Seq(Answer)
        /\ requests' \in Seq(Commands) /\ Len(requests') <= MaxCommands
    BY DEF SketchInv, OneAnswerEach, TypeOK
  <2> QED BY <2>1, <2>2 DEF TypeOK
<1>2. OneAnswerEach' /\ InHand' /\ AnswersAreJson'
  BY <1>1 DEF SketchInv, OneAnswerEach, InHand, AnswersAreJson
<1>3. cmd' # 0 /\ cmd' # ReadPid
  BY DEF ReadAll, ReadCar, ReadPid
<1>4. Loops'
  BY <1>3 DEF Loops
<1>5. AnswerTellsTheTruth'
  BY <1>3 DEF AnswerTellsTheTruth
<1> QED BY <1>1, <1>2, <1>4, <1>5 DEF SketchInv

LEMMA StepPidAbsent ==
  ASSUME SketchInv, PidAbsent
  PROVE  SketchInv'
<1>1. /\ cmd = ReadAll /\ at <= LastPid /\ ~error /\ at' = at + 1
      /\ Ask(TRUE) /\ UNCHANGED <<cmd, data, error, answers, requests, found>>
  BY DEF PidAbsent, MorePids
<1>2. TypeOK /\ Loops /\ Partial /\ ~failed /\ ~late
  BY <1>1 DEF SketchInv, OneAnswerEach, Loops, ReadAll
<1>3. late' = FALSE /\ failed' \in BOOLEAN /\ ~failed'
  BY <1>1, <1>2, Asking
<1>4. at' \in 0..LastPid + 5
  BY <1>1, <1>2, SketchAssumption DEF TypeOK
<1>5. \A pid \in found' : pid < at'
  BY <1>1, <1>2, SketchAssumption DEF TypeOK, Loops, Pid
<1>6. Partial'
  BY <1>1, <1>2 DEF Partial, ReadAll, ReadCar
<1>7. /\ data' \in Seq(Token) /\ found' \subseteq Pid /\ error' \in BOOLEAN
  BY <1>1, <1>2 DEF TypeOK
<1>8. cmd # ReadCar
  BY <1>1 DEF ReadAll, ReadCar
<1> QED BY <1>1, <1>3, <1>4, <1>5, <1>6, <1>7, <1>8, Turning

LEMMA StepPidPresent ==
  ASSUME SketchInv, PidPresent
  PROVE  SketchInv'
<1>1. /\ cmd = ReadAll /\ at <= LastPid /\ ~error
      /\ found' = found \union {at}
      /\ UNCHANGED <<cmd, answers, requests>>
  BY DEF PidPresent, MorePids
<1>2. TypeOK /\ Loops /\ Partial /\ ~failed /\ ~late
  BY <1>1 DEF SketchInv, OneAnswerEach, Loops, ReadAll
<1>3. /\ at \in Pid /\ found \subseteq Pid /\ \A pid \in found : pid < at
  BY <1>1, <1>2, SketchAssumption DEF TypeOK, Loops, Pid
<1>4. PICK ok \in BOOLEAN :
        /\ Ask(ok)
        /\ data' = data \o Separator
                        \o (IF ok THEN make_jsondata_pid(at) ELSE <<>>)
        /\ IF ok THEN at' = at + 1 /\ UNCHANGED error
                 ELSE error' = TRUE /\ UNCHANGED at
  BY DEF PidPresent
<1>5. late' = FALSE /\ failed' \in BOOLEAN /\ (failed' <=> ~ok)
  BY <1>2, <1>4, Asking
<1>6. /\ data \in Seq(Token) /\ Separator \in Seq(Token)
      /\ TellsOf(data, found) /\ TellsOf(Separator, {})
  <2>1. <<"comma">> \in Seq(Kind) /\ <<"comma">> \in Seq(Kind \ {"pid"})
    BY DEF Kind
  <2>2. Text(<<"comma">>) \in Seq(Token) /\ TellsOf(Text(<<"comma">>), {})
    BY <2>1, TextIsText, TellsOfNone
  <2>3. <<>> \in Seq(Token) /\ TellsOf(<<>>, {})
    BY DEF TellsOf, PidAt
  <2>4. data \in Seq(Token) /\ TellsOf(data, found)
    BY <1>1, <1>2 DEF TypeOK, Partial
  <2> QED BY <2>2, <2>3, <2>4 DEF Separator
<1>7. /\ data \o Separator \in Seq(Token)
      /\ TellsOf(data \o Separator, found \union {})
  BY <1>6, ConcatProperties, TellsOfConcat
<1>8. found' \subseteq Pid
  BY <1>1, <1>3
<1>9. cmd # ReadCar
  BY <1>1 DEF ReadAll, ReadCar
<1>10. CASE ok
  <2> DEFINE pair == make_jsondata_pid(at)
  <2>1. /\ at' = at + 1 /\ ~error' /\ data' = data \o Separator \o pair
    BY <1>1, <1>4, <1>10
  <2>2. /\ Piece(pair, 0, 0, "lbrace", "rbrace") /\ pair \in Seq(Token)
        /\ TellsOf(pair, {at})
    BY <1>3, PidPair, TellsOfPid DEF Piece
  <2> HIDE DEF pair
  <2>3. data' \in Seq(Token)
    BY <1>7, <2>1, <2>2, ConcatProperties
  <2>4. TellsOf(data', (found \union {}) \union {at})
    BY <1>3, <1>7, <2>1, <2>2, TellsOfConcat
  <2>5. (found \union {}) \union {at} = found'
    BY <1>1
  <2>6. Piece(data', 0, 0, "lbrace", "rbrace")
    <3>1. CASE found = {}
      <4>1. data = <<>> /\ Separator = <<>>
        BY <1>1, <1>2, <3>1 DEF Partial, Separator
      <4>2. data' = pair
        BY <2>1, <2>2, <4>1, ConcatEmptySeq
      <4> QED BY <2>2, <4>2
    <3>2. CASE found # {}
      <4>1. /\ Piece(data, 0, 0, "lbrace", "rbrace")
            /\ Separator = Text(<<"comma">>)
        BY <1>1, <1>2, <3>2 DEF Partial, Separator
      <4>2. Piece(data \o Separator, 0 + 0, 0 + 0, "lbrace", "comma")
        BY <4>1, Tokens, Join DEF Follows
      <4>3. Piece(data', (0 + 0) + 0, (0 + 0) + 0, "lbrace", "rbrace")
        BY <2>1, <2>2, <4>2, Join DEF Follows
      <4> QED BY <4>3
    <3> QED BY <3>1, <3>2
  <2>7. Partial'
    BY <1>1, <1>9, <2>4, <2>5, <2>6 DEF Partial
  <2>8. at' \in 0..LastPid + 5 /\ \A pid \in found' : pid < at'
    BY <1>1, <1>3, <2>1, SketchAssumption DEF Pid
  <2>9. error' \in BOOLEAN /\ (failed' <=> error')
    BY <1>5, <1>10, <2>1, <1>4, <1>2 DEF TypeOK
  <2> QED BY <1>1, <1>5, <1>8, <1>9, <2>3, <2>7, <2>8, <2>9, Turning
<1>11. CASE ~ok
  <2>1. /\ error' = TRUE /\ at' = at /\ data' = data \o Separator \o <<>>
    BY <1>4, <1>11
  <2>2. data' \in Seq(Token)
    BY <1>7, <2>1, ConcatEmptySeq
  <2>3. Partial'
    BY <2>1 DEF Partial
  <2>4. at' \in 0..LastPid + 5
    BY <1>2, <2>1 DEF TypeOK
  <2>5. error' \in BOOLEAN /\ error' /\ (failed' <=> error')
    BY <1>5, <1>11, <2>1
  <2> QED BY <1>1, <1>5, <1>8, <1>9, <2>2, <2>3, <2>4, <2>5, Turning
<1> QED BY <1>10, <1>11

(* What read_all prints, once the brace it forgets is added. *)
LEMMA AllPidsIsJson ==
  ASSUME NEW value \in Seq(Token),
         value = <<>> \/ Piece(value, 0, 0, "lbrace", "rbrace")
  PROVE  /\ AllPids(value) \in Seq(Token)
         /\ IsJson(AllPids(value) \o Text(<<"rbrace">>))
<1> DEFINE head == Preamble \o Text(<<"comma", "key", "lbrack">>)
           body == head \o value
<1>1. Piece(head, 1 + 0, 0 + 1, "lbrace", "lbrack")
  BY PreambleIsPiece, CommaKeyBracket, Join DEF Follows
<1>2. Piece(body, 1, 1, "lbrace", "lbrack")
        \/ Piece(body, 1, 1, "lbrace", "rbrace")
  <2>1. CASE value = <<>>
    <3>1. head \o <<>> = head
      BY <1>1, ConcatEmptySeq DEF Piece
    <3> QED BY <1>1, <2>1, <3>1
  <2>2. CASE Piece(value, 0, 0, "lbrace", "rbrace")
    <3>1. Piece(body, (1 + 0) + 0, (0 + 1) + 0, "lbrace", "rbrace")
      BY <1>1, <2>2, Join DEF Follows
    <3> QED BY <3>1
  <2> QED BY <2>1, <2>2
<1>3. AllPids(value) = body \o Text(<<"rbrack">>)
  BY DEF AllPids
<1> HIDE DEF body
<1>4. Piece(AllPids(value), 1 + 0, 1 + -1, "lbrace", "rbrack")
  BY <1>2, <1>3, Tokens, Join DEF Follows
<1>5. Piece(AllPids(value) \o Text(<<"rbrace">>),
            (1 + 0) + -1, (1 + -1) + 0, "lbrace", "rbrace")
  BY <1>4, Tokens, Join DEF Follows
<1>6. Piece(AllPids(value) \o Text(<<"rbrace">>), 0, 0, "lbrace", "rbrace")
  BY <1>5
<1>7. AllPids(value) \in Seq(Token)
  BY <1>4 DEF Piece
<1> QED BY <1>6, <1>7, JsonOfPiece

LEMMA AllPidsTellsOf ==
  ASSUME NEW value \in Seq(Token), NEW pids, TellsOf(value, pids)
  PROVE  TellsOf(AllPids(value), pids)
<1> DEFINE key  == Text(<<"comma", "key", "lbrack">>)
           head == Preamble \o key
           body == head \o value
           end  == Text(<<"rbrack">>)
<1>1. /\ <<"lbrace", "item", "comma", "item">> \in Seq(Kind \ {"pid"})
      /\ <<"comma", "key", "lbrack">> \in Seq(Kind \ {"pid"})
      /\ <<"rbrack">> \in Seq(Kind \ {"pid"})
  BY DEF Kind
<1>2. /\ TellsOf(Preamble, {}) /\ TellsOf(key, {})
      /\ TellsOf(end, {})
  BY <1>1, TellsOfNone DEF Preamble
<1>3. /\ Preamble \in Seq(Token) /\ key \in Seq(Token) /\ end \in Seq(Token)
  BY PreambleIsPiece, CommaKeyBracket, Tokens DEF Piece
<1> HIDE DEF key, end
<1>4. head \in Seq(Token) /\ TellsOf(head, {} \union {})
  BY <1>2, <1>3, TellsOfConcat, ConcatProperties
<1> HIDE DEF head
<1>5. body \in Seq(Token) /\ TellsOf(body, pids)
  <2>1. TellsOf(body, ({} \union {}) \union pids)
    BY <1>4, TellsOfConcat
  <2>2. ({} \union {}) \union pids = pids
    OBVIOUS
  <2> QED BY <1>4, <2>1, <2>2, ConcatProperties
<1>6. AllPids(value) = body \o end
  BY DEF AllPids, head, key, end
<1> HIDE DEF body
<1>7. TellsOf(body \o end, pids \union {})
  BY <1>2, <1>3, <1>5, TellsOfConcat
<1>8. pids \union {} = pids
  OBVIOUS
<1> QED BY <1>6, <1>7, <1>8

LEMMA StepAllRead ==
  ASSUME SketchInv, AllRead
  PROVE  SketchInv'
<1>1. /\ cmd = ReadAll /\ cmd # 0
      /\ UNCHANGED <<at, data, error, requests, found, failed, late>>
      /\ error \/ printLine("ok", AllPids(data))
      /\ ~error \/ respond("error", <<>>)
  BY DEF AllRead, ReadAll
<1>2. TypeOK /\ Partial /\ ~late /\ (failed <=> error)
  BY <1>1 DEF SketchInv, OneAnswerEach, Loops
<1>3. late' = FALSE /\ failed' \in BOOLEAN /\ (failed' <=> error)
  BY <1>1, <1>2 DEF TypeOK
<1>4. CASE error
  <2>1. respond("error", <<>>) /\ "error" \in Status
    BY <1>1, <1>4 DEF Status
  <2> QED BY <1>1, <1>3, <1>4, <2>1, Responding
<1>5. CASE ~error
  <2>1. /\ data \in Seq(Token) /\ TellsOf(data, found)
        /\ data = <<>> \/ Piece(data, 0, 0, "lbrace", "rbrace")
    BY <1>1, <1>2, <1>5 DEF TypeOK, Partial
  <2>2. /\ AllPids(data) \in Seq(Token) /\ TellsOf(AllPids(data), found)
        /\ IsJson(AllPids(data) \o Text(<<"rbrace">>))
    BY <2>1, AllPidsIsJson, AllPidsTellsOf
  <2>3. printLine("ok", AllPids(data)) /\ "ok" \in Status
    BY <1>1, <1>5 DEF Status
  <2> QED BY <1>1, <1>3, <1>5, <2>2, <2>3, Printing
<1> QED BY <1>4, <1>5

LEMMA StepCarQuestion ==
  ASSUME SketchInv, CarQuestion
  PROVE  SketchInv'
<1>1. /\ cmd = ReadCar /\ at <= Len(Question) /\ ~error
      /\ UNCHANGED <<cmd, answers, requests, found>>
  BY DEF CarQuestion, MoreQuestions
<1>2. TypeOK /\ Loops /\ Partial /\ ~failed /\ ~late
  BY <1>1 DEF SketchInv, OneAnswerEach, Loops, ReadCar
<1>3. /\ cmd # ReadAll /\ Len(Question) = 4 /\ at \in 1..4
      /\ data \in Seq(Token) /\ found \subseteq Pid
  BY <1>1, <1>2 DEF ReadAll, ReadCar, Loops, Question, TypeOK
<1>4. PICK ok \in BOOLEAN :
        /\ Ask(ok)
        /\ IF ok
           THEN /\ data' = data \o (IF at < Len(Question)
                                    THEN Text(<<"item", "comma">>)
                                    ELSE Text(<<"item">>))
                /\ at' = at + 1
                /\ UNCHANGED error
           ELSE error' = TRUE /\ UNCHANGED <<data, at>>
  BY DEF CarQuestion
<1>5. late' = FALSE /\ failed' \in BOOLEAN /\ (failed' <=> ~ok)
  BY <1>2, <1>4, Asking
<1>6. CASE ok
  <2>1. /\ at' = at + 1 /\ ~error'
        /\ data' = data \o (IF at < 4 THEN Text(<<"item", "comma">>)
                                       ELSE Text(<<"item">>))
    BY <1>1, <1>3, <1>4, <1>6
  <2>2. /\ at = 1 => data = <<>>
        /\ at # 1 => Piece(data, 0, 0, "item", "comma")
    BY <1>1, <1>2, <1>3 DEF Partial
  <2>3. CASE at < 4
    <3>1. Piece(data', 0, 0, "item", "comma")
      <4>1. CASE at = 1
        <5>1. data' = Text(<<"item", "comma">>)
          BY <2>1, <2>2, <2>3, <4>1, ItemComma, ConcatEmptySeq DEF Piece
        <5> QED BY <5>1, ItemComma
      <4>2. CASE at # 1
        <5>1. Piece(data', 0 + 0, 0 + 0, "item", "comma")
          BY <2>1, <2>2, <2>3, <4>2, ItemComma, Join DEF Follows
        <5> QED BY <5>1
      <4> QED BY <4>1, <4>2
    <3>2. Partial' /\ data' \in Seq(Token)
      BY <1>1, <1>3, <2>1, <2>3, <3>1 DEF Partial, Piece
    <3>3. at' \in 1..Len(Question) + 1 /\ at' \in 0..LastPid + 5
      BY <1>3, <2>1, SketchAssumption
    <3>4. error' \in BOOLEAN /\ (failed' <=> error')
      BY <1>2, <1>4, <1>5, <1>6, <2>1 DEF TypeOK
    <3> QED BY <1>1, <1>3, <1>5, <3>2, <3>3, <3>4, Turning
  <2>4. CASE ~(at < 4)
    <3>1. Piece(data', 0 + 0, 0 + 0, "item", "item")
      <4>1. Piece(data, 0, 0, "item", "comma")
        BY <1>3, <2>2, <2>4
      <4>2. data' = data \o Text(<<"item">>)
        BY <2>1, <2>4
      <4> QED BY <4>1, <4>2, Tokens, Join DEF Follows
    <3>2. Partial' /\ data' \in Seq(Token)
      BY <1>1, <1>3, <2>1, <2>4, <3>1 DEF Partial, Piece
    <3>3. at' \in 1..Len(Question) + 1 /\ at' \in 0..LastPid + 5
      BY <1>3, <2>1, SketchAssumption
    <3>4. error' \in BOOLEAN /\ (failed' <=> error')
      BY <1>2, <1>4, <1>5, <1>6, <2>1 DEF TypeOK
    <3> QED BY <1>1, <1>3, <1>5, <3>2, <3>3, <3>4, Turning
  <2> QED BY <2>3, <2>4
<1>7. CASE ~ok
  <2>1. /\ error' = TRUE /\ at' = at /\ data' = data
    BY <1>4, <1>7
  <2>2. Partial' /\ data' \in Seq(Token)
    BY <1>3, <2>1 DEF Partial
  <2>3. at' \in 1..Len(Question) + 1 /\ at' \in 0..LastPid + 5
    BY <1>3, <2>1, SketchAssumption
  <2>4. error' \in BOOLEAN /\ (failed' <=> error')
    BY <1>5, <1>7, <2>1
  <2> QED BY <1>1, <1>3, <1>5, <2>2, <2>3, <2>4, Turning
<1> QED BY <1>6, <1>7

LEMMA StepCarRead ==
  ASSUME SketchInv, CarRead
  PROVE  SketchInv'
<1>1. /\ cmd = ReadCar /\ cmd # 0 /\ cmd # ReadAll /\ ~MoreQuestions
      /\ UNCHANGED <<at, data, error, requests, found, failed, late>>
      /\ ~error \/ respond("error", <<>>)
      /\ error \/ respond("ok", Wrap("lbrace", data, "rbrace"))
  BY DEF CarRead, ReadCar, ReadAll
<1>2. TypeOK /\ Loops /\ Partial /\ ~late /\ (failed <=> error)
  BY <1>1 DEF SketchInv, OneAnswerEach, Loops
<1>3. late' = FALSE /\ failed' \in BOOLEAN /\ (failed' <=> error)
  BY <1>1, <1>2 DEF TypeOK
<1>4. CASE error
  <2>1. respond("error", <<>>) /\ "error" \in Status
    BY <1>1, <1>4 DEF Status
  <2> QED BY <1>1, <1>3, <1>4, <2>1, Responding
<1>5. CASE ~error
  <2>1. Piece(data, 0, 0, "item", "item")
    BY <1>1, <1>2, <1>5 DEF Loops, Partial, MoreQuestions, Question
  <2>2. Piece(Text(<<"lbrace">>) \o data, 1 + 0, 0 + 0, "lbrace", "item")
    BY <2>1, Tokens, Join DEF Follows
  <2>3. Piece(Wrap("lbrace", data, "rbrace"), (1 + 0) + -1, (0 + 0) + 0,
              "lbrace", "rbrace")
    BY <2>2, Tokens, Join DEF Wrap, Follows
  <2>4. Value(Wrap("lbrace", data, "rbrace"))
    BY <2>3 DEF Value
  <2>5. /\ respond("ok", Wrap("lbrace", data, "rbrace"))
        /\ "ok" \in Status
    BY <1>1, <1>5 DEF Status
  <2> QED BY <1>1, <1>3, <1>5, <2>4, <2>5, Responding
<1> QED BY <1>4, <1>5

LEMMA StepInv == SketchInv /\ [Next]_vars => SketchInv'
<1> SUFFICES ASSUME SketchInv, [Next]_vars PROVE SketchInv'
  OBVIOUS
<1>1. ASSUME NEW c \in Commands, NEW parameter \in Pid,
             handleData(c, parameter)
      PROVE  SketchInv'
  BY <1>1, StepHandleData
<1>2. CASE reset \/ delete_dtc
  BY <1>2, StepSimple DEF reset, delete_dtc, Commands, ReadAll, ReadCar
<1>3. CASE available_pids
  <2>1. Text(<<"lbrack", "item", "rbrack">>)
          = Text(<<"lbrack", "item">>) \o Text(<<"rbrack">>)
    BY TextOfThree DEF Kind
  <2>2. Text(<<"lbrack", "item">>) = Text(<<"lbrack">>) \o Text(<<"item">>)
    BY TextOfTwo DEF Kind
  <2>3. Piece(Text(<<"lbrack", "item">>), 0 + 0, 1 + 0, "lbrack", "item")
    BY <2>2, Tokens, Join DEF Follows
  <2>4. Piece(Text(<<"lbrack", "item", "rbrack">>),
              (0 + 0) + 0, (1 + 0) + -1, "lbrack", "rbrack")
    BY <2>1, <2>3, Tokens, Join DEF Follows
  <2>5. Value(Text(<<"lbrack", "item", "rbrack">>))
    BY <2>4 DEF Value
  <2> QED BY <1>3, <2>5, StepSimple
          DEF available_pids, Commands, ReadAll, ReadCar
<1>4. CASE read_dtc
  <2>1. Value(Text(<<"item">>))
    BY Tokens DEF Value
  <2> QED BY <1>4, <2>1, StepSimple DEF read_dtc, Commands, ReadAll, ReadCar
<1>5. CASE read_all
  BY <1>5, StepPidAbsent, StepPidPresent, StepAllRead DEF read_all
<1>6. CASE read_pid
  BY <1>6, StepReadPid
<1>7. CASE read_car
  BY <1>7, StepCarQuestion, StepCarRead DEF read_car
<1>8. CASE UNCHANGED vars
  BY <1>8 DEF vars, handlerVars, SketchInv, OneAnswerEach, TypeOK, InHand,
              Loops, Partial, AnswerTellsTheTruth, AnswersAreJson, TellsOf,
              PidAt
<1> QED BY <1>1, <1>2, <1>3, <1>4, <1>5, <1>6, <1>7, <1>8 DEF Next, Handler

LEMMA Invariance == Spec => []SketchInv
BY InitInv, StepInv, PTL DEF Spec

(* Every command is answered once, in order and under its own name, and the  *)
(* handlers stay within their types (librexc.ino 52-62, 136-242), however    *)
(* many commands come and whatever the ELM says.                             *)
THEOREM OneAnswerEachHolds == Spec => []OneAnswerEach
<1>1. SketchInv => OneAnswerEach
  BY DEF SketchInv
<1> QED BY Invariance, <1>1, PTL

(* An answer says "ok" exactly when no call of the ELM failed; after a       *)
(* failure nothing more is asked; and read_all tells of every pid that is    *)
(* available, once and in order (librexc.ino 155-220).                       *)
THEOREM AnswerTellsTheTruthHolds == Spec => []AnswerTellsTheTruth
<1>1. SketchInv => AnswerTellsTheTruth
  BY DEF SketchInv
<1> QED BY Invariance, <1>1, PTL

(* Every answer is well-formed but for the brace the successful answer of    *)
(* read_all lacks (librexc.ino 108-129, 157-178): for any number of pids,    *)
(* and whichever of them are available.                                      *)
THEOREM AnswersAreJsonHolds == Spec => []AnswersAreJson
<1>1. SketchInv => AnswersAreJson
  BY DEF SketchInv
<1> QED BY Invariance, <1>1, PTL

=============================================================================
