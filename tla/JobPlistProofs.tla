--------------------------- MODULE JobPlistProofs ---------------------------
(***************************************************************************)
(* Proofs about the property-list reader: in every run over every          *)
(* document, cut off anywhere and with any of its allocations failing, the *)
(* cursor stays inside the text, no buffer is written past its end, and    *)
(* every block is owned by exactly one value, key or buffer (HeapSound).   *)
(***************************************************************************)
EXTENDS JobPlist, WellFoundedInduction, TLAPS

-----------------------------------------------------------------------------
(* Induction.                                                               *)

(* A set that were missing a number would be missing a least one.           *)
LEMMA SetInduction ==
  ASSUME NEW S, 0 \in S, \A n \in Nat : n \in S => n + 1 \in S
  PROVE  Nat \subseteq S
<1> SUFFICES ASSUME Nat \ S # {} PROVE FALSE
  OBVIOUS
<1> DEFINE R == OpToRel(<, Nat)
<1>1. PICK x \in Nat \ S : \A y \in Nat \ S : ~(<<y, x>> \in R)
  <2>1. IsWellFoundedOn(R, Nat)
    BY NatLessThanWellFounded
  <2> HIDE DEF R
  <2> QED BY <2>1, WFMin
<1>2. \A y \in Nat : <<y, x>> \in R <=> y < x
  BY DEF R, OpToRel
<1>3. x # 0 /\ x - 1 \in Nat /\ (x - 1) + 1 = x
  OBVIOUS
<1> HIDE DEF R
<1>4. <<x - 1, x>> \in R
  BY <1>2, <1>3
<1>5. x - 1 \in S
  BY <1>1, <1>3, <1>4
<1> QED BY <1>1, <1>3, <1>5

(* Of the numbers c .. e that are in S, e among them, one comes first.      *)
LEMMA FirstOf ==
  ASSUME NEW e \in Nat, NEW c \in 0..e, NEW S, e \in S
  PROVE  \E i \in c..e : i \in S /\ \A j \in c..(i - 1) : j \notin S
<1> DEFINE T == {n \in Nat : \A d \in 0..e : d + n = e =>
                   \E i \in d..e : i \in S /\ \A j \in d..(i - 1) : j \notin S}
<1>1. 0 \in T
  OBVIOUS
<1>2. ASSUME NEW n \in Nat, n \in T PROVE n + 1 \in T
  <2> SUFFICES ASSUME NEW d \in 0..e, d + (n + 1) = e
               PROVE  \E i \in d..e : i \in S /\ \A j \in d..(i - 1) : j \notin S
    OBVIOUS
  <2>1. CASE d \in S
    BY <2>1
  <2>2. CASE d \notin S
    <3>1. d + 1 \in 0..e /\ (d + 1) + n = e
      OBVIOUS
    <3>2. PICK i \in (d + 1)..e : i \in S /\ \A j \in (d + 1)..(i - 1) : j \notin S
      BY <1>2, <3>1
    <3>3. \A j \in d..(i - 1) : j = d \/ j \in (d + 1)..(i - 1)
      OBVIOUS
    <3> QED BY <2>2, <3>2, <3>3
  <2> QED BY <2>1, <2>2
<1>3. e - c \in T
  <2> HIDE DEF T
  <2> QED BY <1>1, <1>2, SetInduction
<1> QED BY <1>3

-----------------------------------------------------------------------------
(* The blocks of the stack.                                                 *)

(* A frame: the node's entries fit the room that was allocated for them.    *)
FrameSet(B, K) ==
  [type : {"dict", "array"}, body : Seq(B), cap : Nat, own : Nat, key : Seq(K)]

IsFrame(f) == (\E B, K : f \in FrameSet(B, K)) /\ Len(f.body) <= f.cap

Stacked(s) == (\E X : s \in Seq(X)) /\ \A i \in 1..Len(s) : IsFrame(s[i])

(* The function OwnedBy is defined with.                                    *)
IsSum(f, s, n) ==
  f = [i \in 0..n |-> IF i = 0 THEN 0 ELSE f[i - 1] + s[i].own + Len(s[i].key)]

LEMMA SumExists ==
  ASSUME NEW s, Stacked(s), NEW N \in Nat, N <= Len(s)
  PROVE  \E f : IsSum(f, s, N) /\ \A i \in 0..N : f[i] \in Nat
<1> DEFINE S == {n \in Nat : n <= N => \E f : IsSum(f, s, n) /\ \A i \in 0..n : f[i] \in Nat}
<1>0. Len(s) \in Nat /\ \A i \in 1..Len(s) : s[i].own \in Nat /\ Len(s[i].key) \in Nat
  BY DEF Stacked, IsFrame, FrameSet
<1>1. 0 \in S
  <2> DEFINE g == [i \in 0..0 |-> 0]
  <2>1. IsSum(g, s, 0) /\ \A i \in 0..0 : g[i] \in Nat
    BY DEF IsSum
  <2> HIDE DEF g
  <2> QED BY <2>1
<1>2. ASSUME NEW n \in Nat, n \in S PROVE n + 1 \in S
  <2> SUFFICES ASSUME n + 1 <= N
               PROVE  \E f : IsSum(f, s, n + 1) /\ \A i \in 0..(n + 1) : f[i] \in Nat
    OBVIOUS
  <2>1. PICK g : IsSum(g, s, n) /\ \A i \in 0..n : g[i] \in Nat
    BY <1>2
  <2> DEFINE k == [i \in 0..(n + 1) |-> IF i <= n THEN g[i]
                                        ELSE g[n] + s[n + 1].own + Len(s[n + 1].key)]
  <2>2. ASSUME NEW i \in 0..(n + 1)
        PROVE  k[i] = (IF i = 0 THEN 0 ELSE k[i - 1] + s[i].own + Len(s[i].key))
    <3>1. CASE i = 0
      BY <2>1, <3>1 DEF IsSum
    <3>2. CASE i \in 1..n
      BY <2>1, <3>2 DEF IsSum
    <3>3. CASE i = n + 1
      BY <3>3
    <3> QED BY <3>1, <3>2, <3>3
  <2>3. IsSum(k, s, n + 1)
    BY <2>2 DEF IsSum
  <2>4. n + 1 \in 1..Len(s)
    BY <1>0
  <2>5. \A i \in 0..(n + 1) : k[i] \in Nat
    BY <1>0, <2>1, <2>4
  <2> HIDE DEF k
  <2> QED BY <2>3, <2>5
<1>3. N \in S
  <2> HIDE DEF S
  <2> QED BY <1>1, <1>2, SetInduction
<1> QED BY <1>3

(* There is one such function.                                              *)
LEMMA SumUnique ==
  ASSUME NEW s, NEW t, NEW N \in Nat, NEW M \in Nat, N <= M,
         NEW f, NEW g, IsSum(f, s, N), IsSum(g, t, M),
         \A i \in 1..N : s[i] = t[i]
  PROVE  f[N] = g[N]
<1> DEFINE S == {n \in Nat : n <= N => f[n] = g[n]}
<1>1. 0 \in S
  BY DEF IsSum
<1>2. ASSUME NEW n \in Nat, n \in S PROVE n + 1 \in S
  <2> SUFFICES ASSUME n + 1 <= N PROVE f[n + 1] = g[n + 1]
    OBVIOUS
  <2>1. f[n + 1] = f[n] + s[n + 1].own + Len(s[n + 1].key)
    BY DEF IsSum
  <2>2. g[n + 1] = g[n] + t[n + 1].own + Len(t[n + 1].key)
    BY DEF IsSum
  <2> QED BY <1>2, <2>1, <2>2
<1>3. N \in S
  <2> HIDE DEF S
  <2> QED BY <1>1, <1>2, SetInduction
<1> QED BY <1>3

LEMMA OwnedIs ==
  ASSUME NEW s, Stacked(s)
  PROVE  \E f : /\ IsSum(f, s, Len(s)) /\ OwnedBy(s) = f[Len(s)]
                /\ OwnedBy(s) \in Nat
<1> DEFINE f == CHOOSE g : IsSum(g, s, Len(s))
<1>1. Len(s) \in Nat
  BY DEF Stacked
<1>2. OwnedBy(s) = f[Len(s)]
  BY Zenon DEF OwnedBy, IsSum
<1>3. PICK g : IsSum(g, s, Len(s)) /\ \A i \in 0..Len(s) : g[i] \in Nat
  BY <1>1, SumExists
<1>4. IsSum(f, s, Len(s))
  BY <1>3
<1> HIDE DEF f
<1>5. f[Len(s)] = g[Len(s)]
  BY <1>1, <1>3, <1>4, SumUnique
<1>6. f[Len(s)] \in Nat
  BY <1>1, <1>3, <1>5
<1> QED BY <1>2, <1>4, <1>6

(* Nothing is owned by an empty stack; a frame adds what it owns.           *)
LEMMA OwnedByNone == OwnedBy(<<>>) = 0
<1>1. Stacked(<<>>)
  BY DEF Stacked
<1>2. PICK f : IsSum(f, <<>>, Len(<<>>)) /\ OwnedBy(<<>>) = f[Len(<<>>)]
  BY <1>1, OwnedIs
<1> QED BY <1>2 DEF IsSum

LEMMA Push ==
  ASSUME NEW s, Stacked(s), NEW x, IsFrame(x)
  PROVE  /\ Stacked(Append(s, x))
         /\ OwnedBy(s) \in Nat
         /\ OwnedBy(Append(s, x)) = OwnedBy(s) + x.own + Len(x.key)
<1>0. PICK n \in Nat : n = Len(s)
  BY DEF Stacked
<1>1. PICK t : t = Append(s, x) /\ n = Len(s)
  BY <1>0
<1>2. /\ Len(t) = n + 1 /\ t[n + 1] = x
      /\ \A i \in 1..n : t[i] = s[i]
  BY <1>1 DEF Stacked
<1>3. \E X : t \in Seq(X)
  <2>1. PICK X : s \in Seq(X)
    BY DEF Stacked
  <2>2. t \in Seq(X \cup {x})
    BY <1>1, <2>1
  <2> QED BY <2>2
<1>4. \A i \in 1..Len(t) : i \in 1..n \/ i = n + 1
  BY <1>2
<1>5. Stacked(t)
  BY <1>1, <1>2, <1>3, <1>4 DEF Stacked
<1>6. PICK f : IsSum(f, s, n) /\ OwnedBy(s) = f[n] /\ OwnedBy(s) \in Nat
  BY <1>1, OwnedIs
<1>7. PICK g : IsSum(g, t, n + 1) /\ OwnedBy(t) = g[n + 1]
  BY <1>2, <1>5, OwnedIs
<1>8. f[n] = g[n]
  BY <1>2, <1>6, <1>7, SumUnique
<1>9. g[n + 1] = g[n] + x.own + Len(x.key)
  BY <1>2, <1>7 DEF IsSum
<1> QED BY <1>1, <1>5, <1>6, <1>7, <1>8, <1>9

LEMMA Pop ==
  ASSUME NEW s, Stacked(s), s # <<>>
  PROVE  /\ Stacked(Front(s)) /\ IsFrame(Last(s))
         /\ OwnedBy(Front(s)) \in Nat
         /\ OwnedBy(s) = OwnedBy(Front(s)) + Last(s).own + Len(Last(s).key)
<1>1. PICK X : s \in Seq(X)
  BY DEF Stacked
<1>2. PICK n \in Nat : n + 1 = Len(s)
  BY <1>1
<1>3. PICK t, x : t = Front(s) /\ x = Last(s)
  OBVIOUS
<1>4. t \in Seq(X) /\ Len(t) = n /\ (\A i \in 1..n : t[i] = s[i]) /\ x = s[n + 1]
  BY <1>1, <1>2, <1>3 DEF Front, Last
<1>5. s = Append(t, x)
  BY <1>1, <1>2, <1>4
<1>6. Stacked(t) /\ IsFrame(x)
  BY <1>2, <1>4 DEF Stacked
<1> QED BY <1>3, <1>5, <1>6, Push

-----------------------------------------------------------------------------
(* The cursor.                                                              *)

(* What a text can hold: whole items, and at its end a part of one.         *)
Pieces == Items \cup {Part("<"), Part("&")}

LEMMA EndIs ==
  ASSUME buf \in Seq(Pieces)
  PROVE  Len(buf) \in Nat /\ End = Len(buf) + 1 /\ End \in Nat
BY DEF End

LEMMA TextEndIn ==
  ASSUME buf \in Seq(Pieces), NEW c \in 1..End
  PROVE  TextEnd(c) \in c..End
<1> DEFINE S == {i \in 1..End : i = End \/ IsLess(buf[i])}
           Is(i) == (i = End \/ IsLess(buf[i])) /\ \A j \in c..(i - 1) : ~IsLess(buf[j])
<1>1. End \in Nat /\ c \in 0..End /\ End \in S
  BY EndIs
<1>2. PICK i \in c..End : i \in S /\ \A j \in c..(i - 1) : j \notin S
  <2> HIDE DEF S
  <2> QED BY <1>1, FirstOf
<1>3. \A j \in c..(i - 1) : j \in 1..End
  BY <1>1
<1>4. Is(i)
  BY <1>2, <1>3
<1>5. TextEnd(c) = CHOOSE k \in c..End : Is(k)
  BY Zenon DEF TextEnd, FirstFrom
<1> HIDE DEF Is
<1> QED BY <1>4, <1>5

(* memmem_compat finds the end of what it looks for further on, or nothing. *)
LEMMA AfterIn ==
  ASSUME buf \in Seq(Pieces), NEW c \in 1..End, NEW m
  PROVE  After(c, m) \in {0} \cup (c + 1)..End
<1> DEFINE S == {i \in 1..End : i = End \/ buf[i] = Char(m)}
           Is(i) == (i = End \/ buf[i] = Char(m)) /\ \A j \in c..(i - 1) : buf[j] # Char(m)
           k == CHOOSE i \in c..End : Is(i)
<1>1. End \in Nat /\ c \in 0..End /\ End \in S
  BY EndIs
<1>2. PICK i \in c..End : i \in S /\ \A j \in c..(i - 1) : j \notin S
  <2> HIDE DEF S
  <2> QED BY <1>1, FirstOf
<1>3. \A j \in c..(i - 1) : j \in 1..End
  BY <1>1
<1>4. Is(i)
  BY <1>2, <1>3
<1>5. After(c, m) = IF k = End THEN 0 ELSE k + 1
  BY Zenon DEF After, AfterFirst, FirstFrom
<1>6. k \in c..End
  <2> HIDE DEF Is
  <2> QED BY <1>4
<1> HIDE DEF k
<1> QED BY <1>1, <1>5, <1>6

LEMMA AfterDoctypeIn ==
  ASSUME buf \in Seq(Pieces), NEW c \in 1..End
  PROVE  AfterDoctype(c) \in {0} \cup (c + 1)..End
<1> DEFINE Hit(i) == HasGreater(buf[i]) /\ Count(c, i, "[") <= Count(c, i, "]")
           S == {i \in 1..End : i = End \/ Hit(i)}
           Is(i) == (i = End \/ Hit(i)) /\ \A j \in c..(i - 1) : ~Hit(j)
           k == CHOOSE i \in c..End : Is(i)
<1>5. AfterDoctype(c) = IF k = End THEN 0 ELSE k + 1
  BY Zenon DEF AfterDoctype, AfterFirst, FirstFrom
<1> HIDE DEF Hit
<1>1. End \in Nat /\ c \in 0..End /\ End \in S
  BY EndIs
<1>2. PICK i \in c..End : i \in S /\ \A j \in c..(i - 1) : j \notin S
  <2> HIDE DEF S
  <2> QED BY <1>1, FirstOf
<1>3. \A j \in c..(i - 1) : j \in 1..End
  BY <1>1
<1>4. Is(i)
  BY <1>2, <1>3
<1>6. k \in c..End
  <2> HIDE DEF Is
  <2> QED BY <1>4
<1> HIDE DEF k
<1> QED BY <1>1, <1>5, <1>6

(* A declaration or comment ends further on, or not at all.                 *)
LEMMA PrologueIn ==
  ASSUME buf \in Seq(Pieces), NEW d \in 1..Len(buf), buf[d].k = "mark"
  PROVE  skip_prologue_at(d) \in {0} \cup (d + 1)..End
<1>1. d + 1 \in 1..End /\ d \in Nat /\ End \in Nat
  BY EndIs
<1>2. buf[d] \in {Mark("<?"), Mark("<!--"), Mark("<!")}
  BY DEF Pieces, Items, Part, Mark
<1>3. PICK a, b, e : /\ a = After(d + 1, "?>") /\ b = After(d + 1, "-->")
                     /\ e = AfterDoctype(d + 1)
  OBVIOUS
<1>4. {a, b, e} \subseteq {0} \cup (d + 1)..End
  <2>1. {a, b, e} \subseteq {0} \cup ((d + 1) + 1)..End
    BY <1>1, <1>3, AfterIn, AfterDoctypeIn
  <2> QED BY <1>1, <2>1
<1>5. skip_prologue_at(d) \in {a, b, e}
  BY <1>2, <1>3 DEF skip_prologue_at, Mark
<1> QED BY <1>4, <1>5

(* Where skip_noise goes on from d, if it does.                             *)
Noisy(d) == d \in 1..Len(buf) /\ (buf[d] = Blank \/ buf[d].k = "mark")

Beyond(d) == IF buf[d] = Blank THEN d + 1 ELSE skip_prologue_at(d)

LEMMA BeyondIn ==
  ASSUME buf \in Seq(Pieces), NEW d, Noisy(d)
  PROVE  d \in 1..Len(buf) /\ Beyond(d) \in {0} \cup (d + 1)..End
<1>1. d \in 1..Len(buf) /\ End = Len(buf) + 1 /\ Len(buf) \in Nat
  BY EndIs DEF Noisy
<1>2. CASE buf[d] = Blank
  BY <1>1, <1>2 DEF Beyond
<1>3. CASE buf[d] # Blank
  BY <1>1, <1>3, PrologueIn DEF Beyond, Noisy
<1> QED BY <1>1, <1>2, <1>3

(* The function skip_noise is defined with, from e on.                      *)
From(e) == {0} \cup e..End

IsSkip(g, e) ==
  g = [d \in From(e) |-> IF Noisy(d) THEN g[Beyond(d)] ELSE d]

LEMMA SkipExists ==
  ASSUME buf \in Seq(Pieces)
  PROVE  \E g : IsSkip(g, 0)
<1> DEFINE S == {n \in Nat : \A e \in 0..End : e + n = End => \E g : IsSkip(g, e)}
<1>0. End \in Nat /\ End = Len(buf) + 1 /\ Len(buf) \in Nat
  BY EndIs
<1>1. 0 \in S
  <2> SUFFICES \E g : IsSkip(g, End)
    BY <1>0
  <2> DEFINE g == [d \in From(End) |-> d]
  <2>1. \A d \in From(End) : ~Noisy(d)
    BY <1>0 DEF From, Noisy
  <2>2. IsSkip(g, End)
    BY <2>1 DEF IsSkip
  <2> HIDE DEF g
  <2> QED BY <2>2
<1>2. ASSUME NEW n \in Nat, n \in S PROVE n + 1 \in S
  <2> SUFFICES ASSUME NEW e \in 0..End, e + (n + 1) = End
               PROVE  \E g : IsSkip(g, e)
    OBVIOUS
  <2>1. e + 1 \in 0..End /\ (e + 1) + n = End
    BY <1>0
  <2>2. PICK g : IsSkip(g, e + 1)
    BY <1>2, <2>1
  <2> DEFINE k == [d \in From(e) |-> IF d \in From(e + 1) THEN g[d]
                                     ELSE IF Noisy(d) THEN g[Beyond(d)] ELSE d]
  <2>3. ASSUME NEW d \in From(e), Noisy(d)
        PROVE  Beyond(d) \in From(e + 1) /\ Beyond(d) \in From(e)
    <3>1. d \in 1..Len(buf) /\ Beyond(d) \in {0} \cup (d + 1)..End
      BY <2>3, BeyondIn
    <3> QED BY <1>0, <3>1 DEF From
  <2>4. ASSUME NEW d \in From(e)
        PROVE  k[d] = IF Noisy(d) THEN k[Beyond(d)] ELSE d
    <3>1. CASE d \in From(e + 1)
      <4>1. g[d] = IF Noisy(d) THEN g[Beyond(d)] ELSE d
        BY <2>2, <3>1 DEF IsSkip
      <4> QED BY <2>3, <3>1, <4>1
    <3>2. CASE d \notin From(e + 1)
      BY <2>3, <3>2
    <3> QED BY <3>1, <3>2
  <2>5. IsSkip(k, e)
    BY <2>4 DEF IsSkip
  <2> HIDE DEF k
  <2> QED BY <2>5
<1>3. End \in S
  <2> HIDE DEF S
  <2> QED BY <1>0, <1>1, <1>2, SetInduction
<1> QED BY <1>0, <1>3

LEMMA SkipIn ==
  ASSUME buf \in Seq(Pieces), NEW g, IsSkip(g, 0), NEW c \in 1..End
  PROVE  g[c] \in 0..End
<1> DEFINE S == {n \in Nat : \A d \in 1..End : d + n >= End => g[d] \in 0..End}
<1>0. /\ End \in Nat /\ End = Len(buf) + 1 /\ Len(buf) \in Nat
      /\ From(0) = 0..End
      /\ \A d \in 0..End : g[d] = IF Noisy(d) THEN g[Beyond(d)] ELSE d
  BY EndIs DEF From, IsSkip
<1>1. g[0] = 0
  BY <1>0 DEF Noisy
<1>2. 0 \in S
  <2>1. \A d \in 1..End : d + 0 >= End => d = End /\ ~Noisy(d)
    BY <1>0 DEF Noisy
  <2> QED BY <1>0, <2>1
<1>3. ASSUME NEW n \in Nat, n \in S PROVE n + 1 \in S
  <2> SUFFICES ASSUME NEW d \in 1..End, d + (n + 1) >= End
               PROVE  g[d] \in 0..End
    OBVIOUS
  <2>1. CASE ~Noisy(d)
    BY <1>0, <2>1
  <2>2. CASE Noisy(d)
    <3>1. PICK b : b = Beyond(d) /\ b \in {0} \cup (d + 1)..End
      BY <2>2, BeyondIn
    <3>2. g[d] = g[b]
      BY <1>0, <2>2, <3>1
    <3>3. CASE b = 0
      BY <1>0, <1>1, <3>2, <3>3
    <3>4. CASE b \in (d + 1)..End
      <4>1. b \in 1..End /\ b + n >= End
        BY <1>0, <3>4
      <4> QED BY <1>3, <3>2, <4>1
    <3> QED BY <3>1, <3>3, <3>4
  <2> QED BY <2>1, <2>2
<1>4. End \in S
  <2> HIDE DEF S
  <2> QED BY <1>0, <1>2, <1>3, SetInduction
<1> QED BY <1>0, <1>4

(* Noise ends inside the text, at its end, or not at all.                   *)
LEMMA SkipNoiseIn ==
  ASSUME buf \in Seq(Pieces), NEW c \in 1..End
  PROVE  skip_noise(c) \in 0..End
<1> DEFINE Is(g) == g = [d \in 0..End |->
                           IF d = 0 \/ d = End THEN d
                           ELSE IF buf[d] = Blank THEN g[d + 1]
                           ELSE IF buf[d].k = "mark" THEN g[skip_prologue_at(d)]
                           ELSE d]
           skip == CHOOSE g : Is(g)
<1>0. End \in Nat /\ End = Len(buf) + 1 /\ Len(buf) \in Nat
  BY EndIs
<1>1. skip_noise(c) = skip[c]
  BY Zenon DEF skip_noise
<1>2. ASSUME NEW g PROVE Is(g) <=> IsSkip(g, 0)
  <2>1. From(0) = 0..End
    BY <1>0 DEF From
  <2>2. ASSUME NEW d \in 0..End
        PROVE  (IF d = 0 \/ d = End THEN d
                ELSE IF buf[d] = Blank THEN g[d + 1]
                ELSE IF buf[d].k = "mark" THEN g[skip_prologue_at(d)]
                ELSE d) = (IF Noisy(d) THEN g[Beyond(d)] ELSE d)
    BY <1>0 DEF Noisy, Beyond
  <2> QED BY <2>1, <2>2 DEF IsSkip
<1>3. Is(skip)
  <2>1. \E g : Is(g)
    <3> HIDE DEF Is
    <3> QED BY <1>2, SkipExists
  <2> HIDE DEF Is
  <2> QED BY <2>1
<1> HIDE DEF Is, skip
<1> QED BY <1>1, <1>2, <1>3, SkipIn

LEMMA ReadTagIn ==
  ASSUME buf \in Seq(Pieces), NEW c \in 1..End
  PROVE  read_tag(c) \in 0..Len(buf)
<1>1. read_tag(c) = 0 \/ read_tag(c) \in 1..Len(buf)
  BY Zenon DEF read_tag
<1> QED BY <1>1, EndIs

LEMMA ExpectCloseIn ==
  ASSUME buf \in Seq(Pieces), NEW c \in 1..End, NEW name
  PROVE  expect_close(c, name) \in 0..End
BY ReadTagIn, EndIs DEF expect_close

-----------------------------------------------------------------------------
(* Character data.                                                          *)

(* The characters of texts.                                                 *)
Letters == {x.n : x \in Pieces}

(* The text in the buffer, with a zero after it, fits.                      *)
TextStates ==
  {s \in [text : Seq(Letters), cap : Nat, calls : Nat, put : BOOLEAN,
          lost : BOOLEAN, ok : BOOLEAN] : Len(s.text) < s.cap}

LEMMA PutStep ==
  ASSUME NEW s \in TextStates, NEW c \in Letters
  PROVE  sb_putc(s, c) \in TextStates
<1> DEFINE full == Len(s.text) + 2 > s.cap
<1>1. PICK put \in BOOLEAN : put = (full => Granted(s.calls + 1))
  OBVIOUS
<1>2. PICK t : t = [s EXCEPT !.text = IF put THEN Append(@, c) ELSE @,
                             !.cap = IF full /\ put THEN 2 * @ ELSE @,
                             !.calls = IF full THEN @ + 1 ELSE @,
                             !.put = put]
  OBVIOUS
<1>3. sb_putc(s, c) = t
  BY <1>1, <1>2, Zenon DEF sb_putc
<1>4. /\ s.text \in Seq(Letters) /\ s.cap \in Nat /\ s.calls \in Nat
      /\ Len(s.text) \in Nat /\ Len(s.text) < s.cap
      /\ Append(s.text, c) \in Seq(Letters)
      /\ Len(Append(s.text, c)) = Len(s.text) + 1
  BY DEF TextStates
<1>5. t \in [text : Seq(Letters), cap : Nat, calls : Nat, put : BOOLEAN,
             lost : BOOLEAN, ok : BOOLEAN]
  <2>1. PICK a \in Seq(Letters) : a = IF put THEN Append(s.text, c) ELSE s.text
    BY <1>4
  <2>2. PICK b \in Nat : b = IF full /\ put THEN 2 * s.cap ELSE s.cap
    BY <1>4
  <2>3. PICK d \in Nat : d = IF full THEN s.calls + 1 ELSE s.calls
    BY <1>4
  <2>4. t = [s EXCEPT !.text = a, !.cap = b, !.calls = d, !.put = put]
    BY <1>2, <2>1, <2>2, <2>3, Zenon
  <2>5. s \in [text : Seq(Letters), cap : Nat, calls : Nat, put : BOOLEAN,
               lost : BOOLEAN, ok : BOOLEAN]
    BY DEF TextStates
  <2> QED BY <2>4, <2>5
<1>6. /\ t.text = IF put THEN Append(s.text, c) ELSE s.text
      /\ t.cap = IF full /\ put THEN 2 * s.cap ELSE s.cap
  BY <1>2 DEF TextStates
<1>7. Len(t.text) < t.cap
  BY <1>4, <1>6
<1> QED BY <1>3, <1>5, <1>7 DEF TextStates

LEMMA ReadStep ==
  ASSUME NEW s \in TextStates, NEW x \in Pieces
  PROVE  ReadItem(s, x) \in TextStates
<1>1. x.n \in Letters
  BY DEF Letters
<1>2. PICK t \in TextStates : t = sb_putc(s, x.n)
  BY <1>1, PutStep
<1>3. PICK a : a = [s EXCEPT !.ok = FALSE]
  OBVIOUS
<1>4. PICK b : b = [t EXCEPT !.ok = t.put \/ x.k = "ent", !.lost = @ \/ ~t.put]
  OBVIOUS
<1>5. ReadItem(s, x) \in {a, b}
  BY <1>2, <1>3, <1>4, Zenon DEF ReadItem
<1>6. a \in TextStates
  BY <1>3 DEF TextStates
<1>7. b \in TextStates
  BY <1>4 DEF TextStates
<1> QED BY <1>5, <1>6, <1>7

LEMMA ReadOnce ==
  ASSUME NEW s, NEW x
  PROVE  Once(ReadItem, s, x) = ReadItem(s, x)
<1>1. PICK t : t = ReadItem(s, x)
  OBVIOUS
<1>2. {ReadItem(r, x) : r \in {s}} = {t}
  BY <1>1, Zenon
<1>3. (CHOOSE r \in {t} : TRUE) = t
  OBVIOUS
<1>4. Once(ReadItem, s, x) = CHOOSE r \in {t} : TRUE
  BY <1>2, Zenon DEF Once
<1> QED BY <1>1, <1>3, <1>4

LEMMA ReadLoop ==
  ASSUME NEW start \in TextStates, NEW text \in Seq(Pieces)
  PROVE  Loop(ReadItem, start, text) \in TextStates
<1> DEFINE N == Len(text)
           Is(g, n) == g = [i \in 0..n |-> IF i = 0 THEN start
                                           ELSE Once(ReadItem, g[i - 1], text[i])]
           S == {n \in Nat : \E g : Is(g, n)}
           h == CHOOSE g : Is(g, N)
           T == {n \in Nat : n <= N => h[n] \in TextStates}
<1>1. N \in Nat /\ \A i \in 1..N : text[i] \in Pieces
  OBVIOUS
<1>2. Loop(ReadItem, start, text) = h[N]
  BY Zenon DEF Loop
<1> HIDE DEF N
<1>3. 0 \in S
  <2>1. Is([i \in 0..0 |-> start], 0)
    OBVIOUS
  <2> HIDE DEF Is
  <2> QED BY <2>1
<1>4. ASSUME NEW n \in Nat, n \in S PROVE n + 1 \in S
  <2>1. PICK g : Is(g, n)
    BY <1>4
  <2> DEFINE k == [i \in 0..(n + 1) |-> IF i <= n THEN g[i]
                                        ELSE Once(ReadItem, g[n], text[i])]
  <2>2. ASSUME NEW i \in 0..(n + 1)
        PROVE  k[i] = IF i = 0 THEN start ELSE Once(ReadItem, k[i - 1], text[i])
    <3>1. CASE i = 0
      BY <2>1, <3>1
    <3>2. CASE i \in 1..n
      BY <2>1, <3>2
    <3>3. CASE i = n + 1
      BY <2>1, <3>3
    <3> QED BY <3>1, <3>2, <3>3
  <2>3. Is(k, n + 1)
    BY <2>2
  <2> HIDE DEF Is, k
  <2> QED BY <2>3
<1>5. Is(h, N)
  <2>1. N \in S
    <3> HIDE DEF S
    <3> QED BY <1>1, <1>3, <1>4, SetInduction
  <2> HIDE DEF Is
  <2> QED BY <2>1
<1> HIDE DEF h
<1>6. h[0] = start
      /\ \A n \in Nat : n + 1 <= N => h[n + 1] = Once(ReadItem, h[n], text[n + 1])
  BY <1>1, <1>5
<1>7. 0 \in T
  BY <1>6
<1>8. ASSUME NEW n \in Nat, n \in T PROVE n + 1 \in T
  <2> SUFFICES ASSUME n + 1 <= N PROVE h[n + 1] \in TextStates
    OBVIOUS
  <2>1. h[n + 1] = ReadItem(h[n], text[n + 1])
    BY <1>6, ReadOnce
  <2>2. h[n] \in TextStates /\ text[n + 1] \in Pieces
    BY <1>1, <1>8
  <2> QED BY <2>1, <2>2, ReadStep
<1>9. N \in T
  <2> HIDE DEF T
  <2> QED BY <1>1, <1>7, <1>8, SetInduction
<1> QED BY <1>1, <1>2, <1>9

(* What read_text returns, for a caller that made k allocations before.     *)
LEMMA ReadTextIn ==
  ASSUME buf \in Seq(Pieces), NEW c \in 1..End, NEW k \in Nat
  PROVE  read_text(c, k) \in TextStates
<1>1. PICK e : e = TextEnd(c) /\ e \in c..End
  BY TextEndIn
<1>2. PICK text : text = SubSeq(buf, c, e - 1)
  OBVIOUS
<1>3. text \in Seq(Pieces)
  BY <1>1, <1>2, EndIs
<1>4. PICK start : start = [text |-> <<>>, cap |-> TextCap, calls |-> k + 1,
                            put |-> TRUE, lost |-> FALSE, ok |-> Granted(k + 1)]
  OBVIOUS
<1>5. start \in TextStates
  <2>1. PICK b \in BOOLEAN : b = Granted(k + 1)
    BY DEF Granted
  <2>2. TextCap \in Nat /\ TextCap > 0
    BY PlistAssumption
  <2> QED BY <1>4, <2>1, <2>2 DEF TextStates
<1>6. read_text(c, k) = Loop(ReadItem, start, text)
  BY <1>1, <1>2, <1>4, Zenon DEF read_text
<1> QED BY <1>3, <1>5, <1>6, ReadLoop

(* base64_decode has made at most one byte of every eight bits it was       *)
(* given, and keeps fewer than eight.                                       *)
Decoding(A, X) ==
  [acc : A, bits : {0, 2, 4, 6}, bytes : Seq(X), ok : BOOLEAN, end : BOOLEAN]

Decoded(s, n) ==
  (\E A, X : s \in Decoding(A, X)) /\ 8 * Len(s.bytes) + s.bits <= 6 * n

LEMMA DecodeOne ==
  ASSUME NEW n \in Nat, NEW s, Decoded(s, n), NEW c
  PROVE  Decoded(DecodeStep(s, c), n + 1)
<1>1. PICK A, X : s \in Decoding(A, X)
  BY DEF Decoded
<1>2. /\ s.bits \in {0, 2, 4, 6} /\ s.bytes \in Seq(X) /\ Len(s.bytes) \in Nat
      /\ 8 * Len(s.bytes) + s.bits <= 6 * n
  BY <1>1 DEF Decoding, Decoded
<1>3. PICK acc : acc = (64 * s.acc + Alphabet[c]) % 2^AccBits
  OBVIOUS
<1>4. PICK x : x = (acc \div 2^(s.bits - 2)) % 256
  OBVIOUS
<1>5. PICK s1 : s1 = [s EXCEPT !.end = TRUE]
  OBVIOUS
<1>6. PICK s2 : s2 = [s EXCEPT !.ok = FALSE]
  OBVIOUS
<1>7. PICK s3 : s3 = [s EXCEPT !.acc = acc, !.bits = @ + 6]
  OBVIOUS
<1>8. PICK s4 : s4 = [s EXCEPT !.acc = acc, !.bits = @ - 2, !.bytes = Append(@, x)]
  OBVIOUS
<1>9. \/ DecodeStep(s, c) \in {s, s1, s2}
      \/ s.bits + 6 < 8 /\ DecodeStep(s, c) = s3
      \/ ~(s.bits + 6 < 8) /\ DecodeStep(s, c) = s4
  BY <1>3, <1>4, <1>5, <1>6, <1>7, <1>8, Zenon DEF DecodeStep
<1>10. Decoded(s, n + 1)
  BY <1>1, <1>2 DEF Decoded
<1>11. Decoded(s1, n + 1)
  <2>1. s1 \in Decoding(A, X) /\ s1.bits = s.bits /\ s1.bytes = s.bytes
    BY <1>1, <1>5 DEF Decoding
  <2> QED BY <1>2, <2>1 DEF Decoded
<1>12. Decoded(s2, n + 1)
  <2>1. s2 \in Decoding(A, X) /\ s2.bits = s.bits /\ s2.bytes = s.bytes
    BY <1>1, <1>6 DEF Decoding
  <2> QED BY <1>2, <2>1 DEF Decoded
<1>13. ASSUME s.bits + 6 < 8 PROVE Decoded(s3, n + 1)
  <2>1. s.bits = 0 /\ s.bits + 6 = 6
    BY <1>2, <1>13
  <2>2. s3 = [s EXCEPT !.acc = acc, !.bits = 6]
    BY <1>1, <1>7, <2>1 DEF Decoding
  <2>3. s3 \in Decoding(A \cup {acc}, X) /\ s3.bits = 6 /\ s3.bytes = s.bytes
    BY <1>1, <2>2 DEF Decoding
  <2> QED BY <1>2, <2>1, <2>3 DEF Decoded
<1>14. ASSUME ~(s.bits + 6 < 8) PROVE Decoded(s4, n + 1)
  <2>1. PICK b \in {0, 2, 4} : b = s.bits - 2
    BY <1>2, <1>14
  <2>2. PICK l \in Seq(X \cup {x}) : l = Append(s.bytes, x) /\ Len(l) = Len(s.bytes) + 1
    <3>1. s.bytes \in Seq(X \cup {x})
      BY <1>2
    <3>2. PICK l : l = Append(s.bytes, x)
      OBVIOUS
    <3>3. l \in Seq(X \cup {x}) /\ Len(l) = Len(s.bytes) + 1
      BY <3>1, <3>2
    <3> QED BY <3>2, <3>3
  <2>3. s4 = [s EXCEPT !.acc = acc, !.bits = b, !.bytes = l]
    BY <1>1, <1>8, <2>1, <2>2, Zenon
  <2>4. s4 \in Decoding(A \cup {acc}, X \cup {x}) /\ s4.bits = b /\ s4.bytes = l
    BY <1>1, <2>3 DEF Decoding
  <2>5. 8 * Len(s4.bytes) + s4.bits <= 6 * (n + 1)
    <3>1. PICK m \in Nat : m = Len(s.bytes)
      BY <1>2
    <3>2. Len(s4.bytes) = m + 1 /\ s4.bits = b /\ s.bits = b + 2
      BY <1>2, <2>1, <2>2, <2>4, <3>1
    <3>3. 8 * m + (b + 2) <= 6 * n
      BY <1>2, <3>1, <3>2
    <3>4. 8 * (m + 1) + b <= 6 * (n + 1)
      BY <3>3
    <3> QED BY <3>2, <3>4
  <2> QED BY <2>4, <2>5 DEF Decoded
<1> QED BY <1>9, <1>10, <1>11, <1>12, <1>13, <1>14

LEMMA DecodeOnce ==
  ASSUME NEW s, NEW x
  PROVE  Once(DecodeStep, s, x) = DecodeStep(s, x)
<1>1. PICK t : t = DecodeStep(s, x)
  OBVIOUS
<1>2. {DecodeStep(r, x) : r \in {s}} = {t}
  BY <1>1, Zenon
<1>3. (CHOOSE r \in {t} : TRUE) = t
  OBVIOUS
<1>4. Once(DecodeStep, s, x) = CHOOSE r \in {t} : TRUE
  BY <1>2, Zenon DEF Once
<1> QED BY <1>1, <1>3, <1>4

LEMMA DecodeLoop ==
  ASSUME NEW start, Decoded(start, 0), NEW X, NEW text \in Seq(X)
  PROVE  Decoded(Loop(DecodeStep, start, text), Len(text))
<1> DEFINE N == Len(text)
           Is(g, n) == g = [i \in 0..n |-> IF i = 0 THEN start
                                           ELSE Once(DecodeStep, g[i - 1], text[i])]
           S == {n \in Nat : \E g : Is(g, n)}
           h == CHOOSE g : Is(g, N)
           T == {n \in Nat : n <= N => Decoded(h[n], n)}
<1>1. N \in Nat
  OBVIOUS
<1>2. Loop(DecodeStep, start, text) = h[N]
  BY Zenon DEF Loop
<1> HIDE DEF N
<1>3. 0 \in S
  <2>1. Is([i \in 0..0 |-> start], 0)
    OBVIOUS
  <2> HIDE DEF Is
  <2> QED BY <2>1
<1>4. ASSUME NEW n \in Nat, n \in S PROVE n + 1 \in S
  <2>1. PICK g : Is(g, n)
    BY <1>4
  <2> DEFINE k == [i \in 0..(n + 1) |-> IF i <= n THEN g[i]
                                        ELSE Once(DecodeStep, g[n], text[i])]
  <2>2. ASSUME NEW i \in 0..(n + 1)
        PROVE  k[i] = IF i = 0 THEN start ELSE Once(DecodeStep, k[i - 1], text[i])
    <3>1. CASE i = 0
      BY <2>1, <3>1
    <3>2. CASE i \in 1..n
      BY <2>1, <3>2
    <3>3. CASE i = n + 1
      BY <2>1, <3>3
    <3> QED BY <3>1, <3>2, <3>3
  <2>3. Is(k, n + 1)
    BY <2>2
  <2> HIDE DEF Is, k
  <2> QED BY <2>3
<1>5. Is(h, N)
  <2>1. N \in S
    <3> HIDE DEF S
    <3> QED BY <1>1, <1>3, <1>4, SetInduction
  <2> HIDE DEF Is
  <2> QED BY <2>1
<1> HIDE DEF h
<1>6. h[0] = start
      /\ \A n \in Nat : n + 1 <= N => h[n + 1] = Once(DecodeStep, h[n], text[n + 1])
  BY <1>1, <1>5
<1>7. 0 \in T
  BY <1>6
<1>8. ASSUME NEW n \in Nat, n \in T PROVE n + 1 \in T
  <2> SUFFICES ASSUME n + 1 <= N PROVE Decoded(h[n + 1], n + 1)
    OBVIOUS
  <2>1. h[n + 1] = DecodeStep(h[n], text[n + 1])
    BY <1>6, DecodeOnce
  <2>2. Decoded(h[n], n)
    BY <1>1, <1>8
  <2> QED BY <2>1, <2>2, DecodeOne
<1>9. N \in T
  <2> HIDE DEF T
  <2> QED BY <1>1, <1>7, <1>8, SetInduction
<1> QED BY <1>1, <1>2, <1>9 DEF N

(* The bytes fit the room base64_decode makes for them.                     *)
LEMMA DecodeFits ==
  ASSUME NEW X, NEW text \in Seq(X)
  PROVE  Len(base64_decode(text).bytes) <= DecodeRoom(text)
<1>1. PICK start : start = [acc |-> 0, bits |-> 0, bytes |-> <<>>,
                            ok |-> TRUE, end |-> FALSE]
  OBVIOUS
<1>2. start \in Decoding({0}, {0}) /\ start.bytes = <<>> /\ start.bits = 0
  BY <1>1 DEF Decoding
<1>3. Decoded(start, 0)
  BY <1>2 DEF Decoded
<1>4. PICK s : s = base64_decode(text)
  OBVIOUS
<1>5. s = Loop(DecodeStep, start, text)
  BY <1>1, <1>4, Zenon DEF base64_decode
<1>6. Decoded(s, Len(text))
  BY <1>3, <1>5, DecodeLoop
<1>7. PICK n \in Nat : n = Len(text)
  OBVIOUS
<1>8. PICK m : m = Len(s.bytes)
  OBVIOUS
<1>9. m \in Nat /\ 8 * m <= 6 * n
  BY <1>6, <1>7, <1>8 DEF Decoded, Decoding
<1>10. PICK q \in Nat : q = n \div 4 /\ n <= 4 * q + 3
  BY <1>7
<1>11. m <= q * 3 + 4
  BY <1>9, <1>10
<1> QED BY <1>4, <1>7, <1>8, <1>10, <1>11 DEF DecodeRoom

-----------------------------------------------------------------------------
(* The invariant.                                                           *)

Places == {"open", "start", "value", "after", "dict", "array", "return", "null",
           "finish", "done"}

(* The types that matter to the accounts, and the cursor.                   *)
Typed ==
  /\ input \in Inputs /\ buf \in Seq(Pieces) /\ p \in 1..End
  /\ pc \in Places
  /\ Stacked(stack) /\ ret.own \in Nat /\ heap.live \in Int

(* Between calls there is no value on its way to whoever asked for it, and  *)
(* a NULL pointer owns nothing.                                             *)
Returned ==
  /\ pc \notin {"return", "finish", "done"} => ret = Nothing
  /\ ret.v = Null => ret.own = 0

(* A loop over entries has a node to put them in, and no key it has not put *)
(* there; outside the recursion there is no node.                           *)
Nested ==
  /\ pc \in {"dict", "array"} => stack # <<>> /\ top.key = <<>>
  /\ pc \in {"open", "start", "finish", "done"} => stack = <<>>
  /\ pc = "open" => p = 1

PlistInv == Typed /\ Returned /\ Nested /\ Accounted

(* The block of the text.                                                   *)
TextBlock(at) == IF at \in {"open", "done"} THEN 0 ELSE 1

LEMMA InitPlist == Init => PlistInv
<1> SUFFICES ASSUME Init PROVE PlistInv
  OBVIOUS
<1>1. /\ input \in Inputs /\ buf = <<>> /\ pc = "open" /\ p = 1 /\ stack = <<>>
      /\ ret = Nothing /\ heap.live = 0
  BY DEF Init
<1>2. ret.own = 0
  BY <1>1 DEF Nothing
<1>3. Stacked(<<>>)
  BY DEF Stacked
<1>4. Typed
  <2>1. buf \in Seq(Pieces) /\ p \in 1..End
    BY <1>1 DEF End
  <2> QED BY <1>1, <1>2, <1>3, <2>1 DEF Typed, Places
<1>5. Returned /\ Nested
  BY <1>1, <1>2 DEF Returned, Nested
<1>6. Accounted
  BY <1>1, <1>2, OwnedByNone DEF Accounted
<1> QED BY <1>4, <1>5, <1>6 DEF PlistInv

(* heap' after an action's calls of Heap.                                   *)
LEMMA HeapLive ==
  ASSUME NEW calls, NEW blocks, Heap(calls, blocks)
  PROVE  heap'.live = heap.live + blocks
BY DEF Heap

(* A step that leaves the stack and the blocks alone.                       *)
LEMMA Moves ==
  ASSUME PlistInv, UNCHANGED <<input, buf, stack, ret, heap>>, p' \in 1..End,
         pc' \in Places, TextBlock(pc') = TextBlock(pc), Returned', Nested'
  PROVE  PlistInv'
<1>1. End' = End
  BY DEF End
<1>2. Typed'
  BY <1>1 DEF PlistInv, Typed
<1>3. Accounted'
  BY DEF PlistInv, Accounted, TextBlock
<1> QED BY <1>2, <1>3 DEF PlistInv

(* A value is returned with the blocks that were allocated for it, or NULL  *)
(* and nothing is left of it.                                               *)
Answers ==
  /\ UNCHANGED <<input, buf, stack>>
  /\ \/ ReturnNull /\ heap'.live = heap.live
     \/ \E v, c : \E own \in Nat :
          /\ v.type # "invalid" /\ c \in 1..End
          /\ Return(v, own, c) /\ heap'.live = heap.live + own

LEMMA AnswersKeep ==
  ASSUME PlistInv, pc \in {"start", "value", "after"}, Answers
  PROVE  PlistInv'
<1>0. /\ Typed /\ ret = Nothing /\ End' = End /\ OwnedBy(stack) \in Nat
      /\ UNCHANGED <<input, buf, stack>>
  <2>1. OwnedBy(stack) \in Nat
    BY OwnedIs DEF PlistInv, Typed
  <2> QED BY <2>1 DEF PlistInv, Returned, Answers, End
<1>1. heap.live = 1 + OwnedBy(stack)
  BY <1>0 DEF PlistInv, Accounted, Nothing
<1>2. CASE ReturnNull /\ heap'.live = heap.live
  <2>1. ret' = Nothing /\ ret'.own = 0 /\ pc' = "null" /\ p' = p
    BY <1>2 DEF ReturnNull, Nothing
  <2>2. Typed'
    BY <1>0, <1>2, <2>1 DEF Typed, Places
  <2>3. Returned' /\ Nested'
    BY <2>1 DEF Returned, Nested
  <2>4. Accounted'
    BY <1>0, <1>1, <1>2, <2>1 DEF Accounted
  <2> QED BY <2>2, <2>3, <2>4 DEF PlistInv
<1>3. CASE ~(ReturnNull /\ heap'.live = heap.live)
  <2>1. PICK v, c : \E own \in Nat :
          /\ v.type # "invalid" /\ c \in 1..End
          /\ Return(v, own, c) /\ heap'.live = heap.live + own
    BY <1>3 DEF Answers
  <2>2. PICK own \in Nat : /\ v.type # "invalid" /\ c \in 1..End
                           /\ Return(v, own, c) /\ heap'.live = heap.live + own
    BY <2>1
  <2>3. ret'.own = own /\ ret'.v = v /\ v # Null /\ pc' = "return" /\ p' = c
    BY <2>2 DEF Return, Null
  <2>4. Typed'
    BY <1>0, <2>2, <2>3 DEF Typed, Places
  <2>5. Returned' /\ Nested'
    BY <2>3 DEF Returned, Nested
  <2>6. Accounted'
    BY <1>0, <1>1, <2>2, <2>3 DEF Accounted
  <2> QED BY <2>4, <2>5, <2>6 DEF PlistInv
<1> QED BY <1>2, <1>3

(* The innermost node and what is below it on the stack.                    *)
LEMMA TopIs ==
  ASSUME PlistInv, stack # <<>>
  PROVE  /\ Stacked(Front(stack)) /\ IsFrame(top) /\ OwnedBy(Front(stack)) \in Nat
         /\ top.own \in Nat /\ Len(top.key) \in Nat
         /\ OwnedBy(stack) = OwnedBy(Front(stack)) + top.own + Len(top.key)
<1>1. Stacked(stack)
  BY DEF PlistInv, Typed
<1>2. top = Last(stack)
  BY DEF top
<1>3. IsFrame(top)
  BY <1>1, <1>2, Pop
<1>4. top.own \in Nat /\ Len(top.key) \in Nat
  BY <1>3 DEF IsFrame, FrameSet
<1> QED BY <1>1, <1>2, <1>3, <1>4, Pop

(* The innermost node fails: its blocks, those of its key and of the value  *)
(* on its way to it are freed.                                              *)
LEMMA FailsKeep ==
  ASSUME PlistInv, stack # <<>>, pc \in {"dict", "array", "return", "null"},
         UNCHANGED <<input, buf>>, NEW calls, NEW freed,
         NodeFails(calls, freed), freed = Len(top.key) + ret.own
  PROVE  PlistInv'
<1>1. PICK below : below = Front(stack)
  OBVIOUS
<1>2. /\ Stacked(below) /\ OwnedBy(below) \in Nat
      /\ top.own \in Nat /\ Len(top.key) \in Nat
      /\ OwnedBy(stack) = OwnedBy(below) + top.own + Len(top.key)
  BY <1>1, TopIs
<1>3. /\ stack' = below /\ ret' = Nothing /\ ret'.own = 0 /\ pc' = "null" /\ p' = p
      /\ heap'.live = heap.live + (-(top.own + freed))
  BY <1>1, HeapLive DEF NodeFails, ReturnNull, Nothing
<1>4. heap.live = 1 + ret.own + OwnedBy(stack) /\ ret.own \in Nat
  BY DEF PlistInv, Accounted, Typed
<1>5. heap'.live = 1 + OwnedBy(below)
  <2>1. PICK o \in Nat, k \in Nat, b \in Nat, r \in Nat :
          o = top.own /\ k = Len(top.key) /\ b = OwnedBy(below) /\ r = ret.own
    BY <1>2, <1>4
  <2>2. heap.live = 1 + r + (b + o + k)
    BY <1>2, <1>4, <2>1
  <2>3. heap'.live = heap.live + (-(o + (k + r)))
    BY <1>3, <2>1
  <2>4. heap'.live = 1 + b
    BY <2>2, <2>3
  <2> QED BY <2>1, <2>4
<1>6. Typed'
  <2>1. End' = End
    BY DEF End
  <2> QED BY <1>2, <1>3, <1>5, <2>1 DEF PlistInv, Typed, Places
<1>7. Returned' /\ Nested'
  BY <1>3 DEF Returned, Nested
<1>8. Accounted'
  BY <1>2, <1>3, <1>5 DEF Accounted
<1> QED BY <1>6, <1>7, <1>8 DEF PlistInv

(* The innermost node is complete and is returned.                          *)
LEMMA DoneKeeps ==
  ASSUME PlistInv, pc \in {"dict", "array"}, UNCHANGED <<input, buf, heap>>,
         NEW c \in 1..End, NodeDone(c)
  PROVE  PlistInv'
<1>0. stack # <<>> /\ top.key = <<>> /\ ret = Nothing
  BY DEF PlistInv, Nested, Returned
<1>1. PICK below : below = Front(stack)
  OBVIOUS
<1>2. /\ Stacked(below) /\ OwnedBy(below) \in Nat
      /\ top.own \in Nat /\ Len(top.key) = 0
      /\ OwnedBy(stack) = OwnedBy(below) + top.own
  BY <1>0, <1>1, TopIs
<1>3. /\ stack' = below /\ ret'.own = top.own /\ ret'.v = Node(top)
      /\ pc' = "return" /\ p' = c
  BY <1>1 DEF NodeDone, Return
<1>4. Node(top) # Null
  BY DEF Node, Null
<1>5. heap.live = 1 + OwnedBy(below) + top.own
  BY <1>0, <1>2 DEF PlistInv, Accounted, Nothing
<1>6. Typed'
  <2>1. End' = End
    BY DEF End
  <2> QED BY <1>2, <1>3, <2>1 DEF PlistInv, Typed, Places
<1>7. Returned' /\ Nested'
  BY <1>3, <1>4 DEF Returned, Nested
<1>8. Accounted'
  BY <1>2, <1>3, <1>5 DEF Accounted
<1> QED BY <1>6, <1>7, <1>8 DEF PlistInv

(* The innermost node becomes g, which owns what was allocated for it.      *)
LEMMA ReplaceKeeps ==
  ASSUME PlistInv, stack # <<>>, pc \in {"dict", "array", "return"},
         UNCHANGED <<input, buf>>, p' \in 1..End,
         NEW g, IsFrame(g), Replace(g), ret' = Nothing,
         pc' \in {"dict", "array", "value"}, pc' \in {"dict", "array"} => g.key = <<>>,
         heap'.live - heap.live = g.own + Len(g.key) - top.own - Len(top.key) - ret.own,
         heap'.live \in Int
  PROVE  PlistInv'
<1>1. PICK below : below = Front(stack)
  OBVIOUS
<1>2. /\ Stacked(below) /\ OwnedBy(below) \in Nat
      /\ top.own \in Nat /\ Len(top.key) \in Nat
      /\ OwnedBy(stack) = OwnedBy(below) + top.own + Len(top.key)
  BY <1>1, TopIs
<1>3. stack' = Append(below, g)
  BY <1>1 DEF Replace
<1>4. /\ Stacked(stack') /\ OwnedBy(stack') = OwnedBy(below) + g.own + Len(g.key)
      /\ g.own \in Nat /\ Len(g.key) \in Nat
  <2>1. g.own \in Nat /\ Len(g.key) \in Nat
    BY DEF IsFrame, FrameSet
  <2> QED BY <1>2, <1>3, <2>1, Push
<1>5. heap.live = 1 + ret.own + OwnedBy(stack) /\ ret.own \in Nat /\ heap.live \in Int
  BY DEF PlistInv, Accounted, Typed
<1>6. heap'.live = 1 + OwnedBy(stack') /\ ret'.own = 0
  <2>1. PICK o \in Nat, k \in Nat, b \in Nat, r \in Nat :
          o = top.own /\ k = Len(top.key) /\ b = OwnedBy(below) /\ r = ret.own
    BY <1>2, <1>5
  <2>2. PICK u \in Nat, w \in Nat, x \in Int, y \in Int :
          u = g.own /\ w = Len(g.key) /\ x = heap.live /\ y = heap'.live
    BY <1>4, <1>5
  <2>3. x = 1 + r + (b + o + k)
    BY <1>2, <1>5, <2>1, <2>2
  <2>4. y - x = u + w - o - k - r
    BY <2>1, <2>2
  <2>5. y = 1 + (b + u + w)
    BY <2>3, <2>4
  <2>6. OwnedBy(stack') = b + u + w
    BY <1>4, <2>1, <2>2
  <2> QED BY <2>2, <2>5, <2>6 DEF Nothing
<1>7. Typed'
  <2>1. End' = End
    BY DEF End
  <2> QED BY <1>4, <1>6, <2>1 DEF PlistInv, Typed, Places
<1>8. stack' # <<>> /\ top' = g
  <2>1. PICK X : below \in Seq(X)
    BY <1>2 DEF Stacked
  <2>2. PICK n \in Nat : n = Len(below)
    BY <2>1
  <2>3. Len(stack') = n + 1 /\ stack'[n + 1] = g
    BY <1>3, <2>1, <2>2
  <2> QED BY <2>2, <2>3 DEF top, Last
<1>9. Returned' /\ Nested'
  BY <1>6, <1>8 DEF Returned, Nested
<1>10. Accounted'
  BY <1>4, <1>6 DEF Accounted
<1> QED BY <1>7, <1>9, <1>10 DEF PlistInv

-----------------------------------------------------------------------------
(* The actions.                                                             *)

LEMMA FileStep ==
  ASSUME PlistInv, plist_parse_file
  PROVE  PlistInv'
<1>1. /\ pc = "open" /\ p = 1 /\ stack = <<>> /\ ret = Nothing /\ Typed
      /\ UNCHANGED <<input, p, tag, stack, ret, wrapped, lost>>
  BY DEF PlistInv, Nested, Returned, plist_parse_file
<1>2. heap.live = 0 /\ ret.own = 0
  BY <1>1, OwnedByNone DEF PlistInv, Accounted, Nothing
<1>3. /\ pc' \in {"start", "done"} /\ heap'.live = TextBlock(pc')
      /\ buf' \in Seq(Pieces)
  <2>1. CASE pc' = "done" /\ UNCHANGED <<buf, heap>>
    BY <1>1, <1>2, <2>1 DEF Typed, TextBlock
  <2>2. CASE pc' = "done" /\ Heap(1, 0) /\ UNCHANGED buf
    BY <1>1, <1>2, <2>2, HeapLive DEF Typed, TextBlock
  <2>3. CASE /\ pc' = "start" /\ Heap(1, 1)
             /\ \E n \in input.got :
                  \/ buf' = SubSeq(input.doc, 1, n)
                  \/ /\ n < Len(input.doc)
                     /\ LET x == input.doc[n + 1] IN
                          /\ x.k # "char"
                          /\ buf' = SubSeq(input.doc, 1, n) \o
                                      <<Part(IF x.k = "ent" THEN "&" ELSE "<")>>
    <3>1. heap'.live = TextBlock(pc')
      BY <1>2, <2>3, HeapLive DEF TextBlock
    <3>2. input.doc \in Seq(Items) /\ input.got \subseteq 0..Len(input.doc)
      BY <1>1, PlistAssumption DEF Typed
    <3>3. PICK d, n : /\ n \in input.got /\ d = SubSeq(input.doc, 1, n)
                      /\ buf' \in {d, d \o <<Part("&")>>, d \o <<Part("<")>>}
      BY <2>3
    <3>4. d \in Seq(Items)
      BY <3>2, <3>3
    <3>5. d \in Seq(Pieces)
      BY <3>4 DEF Pieces
    <3>6. <<Part("&")>> \in Seq(Pieces) /\ <<Part("<")>> \in Seq(Pieces)
      BY DEF Pieces
    <3>7. d \o <<Part("&")>> \in Seq(Pieces) /\ d \o <<Part("<")>> \in Seq(Pieces)
      BY <3>5, <3>6
    <3> QED BY <2>3, <3>1, <3>3, <3>5, <3>7
  <2> QED BY <2>1, <2>2, <2>3 DEF plist_parse_file
<1>4. p' \in 1..End'
  BY <1>1, <1>3 DEF End
<1>5. Typed'
  BY <1>1, <1>3, <1>4 DEF Typed, Places, TextBlock
<1>6. Returned' /\ Nested'
  BY <1>1, <1>3, <1>2 DEF Returned, Nested
<1>7. Accounted'
  BY <1>1, <1>2, <1>3, OwnedByNone DEF Accounted, TextBlock
<1> QED BY <1>5, <1>6, <1>7 DEF PlistInv

LEMMA StringStep ==
  ASSUME PlistInv, plist_parse_string
  PROVE  PlistInv'
<1>1. PICK d : d = read_tag(p)
  OBVIOUS
<1>2. /\ Typed /\ pc = "start" /\ UNCHANGED <<input, buf, stack, heap, lost>>
      /\ ret = Nothing
  BY DEF PlistInv, Returned, plist_parse_string
<1>3. d \in 0..Len(buf) /\ End = Len(buf) + 1 /\ Len(buf) \in Nat
  BY <1>1, <1>2, ReadTagIn, EndIs DEF Typed
<1>4. \/ d = 0 /\ ReturnNull
      \/ TagAt(d).k # "none" /\ p' = d + 1 /\ pc' \in {"value", "after"} /\ ret' = ret
      \/ d # 0 /\ p' = d + 1 /\ pc' \in {"value", "after"} /\ ret' = ret
  BY <1>1 DEF plist_parse_string, Enter, Open, Self
<1>5. CASE d = 0 /\ ReturnNull
  BY <1>2, <1>5, AnswersKeep DEF Answers
<1>6. CASE d # 0 /\ p' = d + 1 /\ pc' \in {"value", "after"} /\ ret' = ret
  <2>1. p' \in 1..End /\ pc' \in Places /\ TextBlock(pc') = TextBlock(pc)
    BY <1>2, <1>3, <1>6 DEF Places, TextBlock
  <2>2. Returned' /\ Nested'
    BY <1>2, <1>6 DEF Returned, Nested, Nothing
  <2> QED BY <1>2, <1>6, <2>1, <2>2, Moves
<1>7. TagAt(d).k # "none" => d # 0
  BY DEF TagAt, NoTag
<1> QED BY <1>4, <1>5, <1>6, <1>7

LEMMA ValueStep ==
  ASSUME PlistInv, parse_value
  PROVE  PlistInv'
<1>1. PICK d : d = read_tag(p)
  OBVIOUS
<1>2. /\ Typed /\ pc = "value" /\ UNCHANGED <<input, buf, stack, heap>>
      /\ ret = Nothing
  BY DEF PlistInv, Returned, parse_value
<1>3. d \in 0..Len(buf) /\ End = Len(buf) + 1 /\ Len(buf) \in Nat
  BY <1>1, <1>2, ReadTagIn, EndIs DEF Typed
<1>4. \/ ReturnNull
      \/ TagAt(d).k # "none" /\ p' = d + 1 /\ pc' = "after" /\ ret' = ret
  BY <1>1 DEF parse_value, Enter
<1>5. CASE ReturnNull
  BY <1>2, <1>5, AnswersKeep DEF Answers
<1>6. CASE TagAt(d).k # "none" /\ p' = d + 1 /\ pc' = "after" /\ ret' = ret
  <2>0. d # 0
    BY <1>6 DEF TagAt, NoTag
  <2>1. p' \in 1..End /\ pc' \in Places /\ TextBlock(pc') = TextBlock(pc)
    BY <1>2, <1>3, <1>6, <2>0 DEF Places, TextBlock
  <2>2. Returned' /\ Nested'
    BY <1>2, <1>6 DEF Returned, Nested, Nothing
  <2> QED BY <1>2, <1>6, <2>1, <2>2, Moves
<1> QED BY <1>4, <1>5, <1>6

LEMMA NoMemoryAnswers ==
  ASSUME NoMemory, UNCHANGED <<input, buf>>, heap.live \in Int
  PROVE  Answers
BY HeapLive DEF NoMemory, Answers

LEMMA NullAnswers ==
  ASSUME ReturnNull, NEW calls, Heap(calls, 0), UNCHANGED <<input, buf, stack>>,
         heap.live \in Int
  PROVE  Answers
BY HeapLive DEF Answers

LEMMA ValueAnswers ==
  ASSUME NEW v, v.type # "invalid", NEW own \in Nat, NEW c \in 1..End,
         Return(v, own, c), NEW calls, Heap(calls, own),
         UNCHANGED <<input, buf, stack>>
  PROVE  Answers
<1>1. heap'.live = heap.live + own
  BY HeapLive
<1> QED BY <1>1 DEF Answers

LEMMA BoolStep ==
  ASSUME PlistInv, ParseBool
  PROVE  PlistInv'
<1>1. PICK c : c = IF tag.k = "self" THEN p ELSE expect_close(p, tag.n)
  OBVIOUS
<1>2. PICK v : v = [type |-> "bool", boolean |-> tag.n = "true"]
  OBVIOUS
<1>3. /\ pc = "after" /\ UNCHANGED <<input, buf>> /\ heap.live \in Int
      /\ buf \in Seq(Pieces) /\ p \in 1..End
  BY DEF PlistInv, Typed, ParseBool
<1>4. c \in 0..End
  BY <1>1, <1>3, ExpectCloseIn, EndIs
<1>5. \/ NoMemory
      \/ ReturnNull /\ Heap(1, 0) /\ UNCHANGED stack
      \/ c # 0 /\ Return(v, 1, c) /\ Heap(1, 1) /\ UNCHANGED stack
  BY <1>1, <1>2, Zenon DEF ParseBool
<1>6. CASE NoMemory
  BY <1>3, <1>6, NoMemoryAnswers, AnswersKeep
<1>7. CASE ReturnNull /\ Heap(1, 0) /\ UNCHANGED stack
  BY <1>3, <1>7, NullAnswers, AnswersKeep
<1>8. CASE c # 0 /\ Return(v, 1, c) /\ Heap(1, 1) /\ UNCHANGED stack
  <2>1. v.type # "invalid" /\ c \in 1..End /\ 1 \in Nat
    BY <1>2, <1>3, <1>4, <1>8, EndIs
  <2> QED BY <1>3, <1>8, <2>1, ValueAnswers, AnswersKeep
<1> QED BY <1>5, <1>6, <1>7, <1>8

LEMMA NodeStep ==
  ASSUME PlistInv, OpenNode
  PROVE  PlistInv'
<1>1. PICK f : f = NewFrame(tag.n)
  OBVIOUS
<1>2. /\ pc = "after" /\ UNCHANGED <<input, buf>> /\ heap.live \in Int
      /\ p \in 1..End /\ tag.n \in {"dict", "array"} /\ ret = Nothing
      /\ Stacked(stack) /\ Typed
  BY DEF PlistInv, Typed, Returned, OpenNode
<1>3. \/ NoMemory
      \/ Return(Node(f), 1, p) /\ Heap(1, 1) /\ UNCHANGED stack
      \/ /\ stack' = Append(stack, f) /\ pc' = tag.n /\ Heap(1, 1)
         /\ UNCHANGED <<p, ret>>
  BY <1>1, Zenon DEF OpenNode
<1>4. CASE NoMemory
  BY <1>2, <1>4, NoMemoryAnswers, AnswersKeep
<1>5. CASE Return(Node(f), 1, p) /\ Heap(1, 1) /\ UNCHANGED stack
  <2>1. Node(f).type # "invalid" /\ 1 \in Nat
    BY DEF Node
  <2> QED BY <1>2, <1>5, <2>1, ValueAnswers, AnswersKeep
<1>6. CASE /\ stack' = Append(stack, f) /\ pc' = tag.n /\ Heap(1, 1)
           /\ UNCHANGED <<p, ret>>
  <2>1. IsFrame(f) /\ f.own = 1 /\ f.key = <<>> /\ Len(f.key) = 0
    <3>1. f = [type |-> tag.n, body |-> <<>>, cap |-> 0, own |-> 1, key |-> <<>>]
      BY <1>1 DEF NewFrame
    <3>2. <<>> \in Seq({0}) /\ Len(<<>>) = 0
      OBVIOUS
    <3>3. f \in FrameSet({0}, {0})
      BY <1>2, <3>1, <3>2 DEF FrameSet
    <3> QED BY <3>1, <3>2, <3>3 DEF IsFrame
  <2>2. /\ Stacked(stack') /\ OwnedBy(stack) \in Nat
        /\ OwnedBy(stack') = OwnedBy(stack) + 1 + 0
    BY <1>2, <1>6, <2>1, Push
  <2>3. heap'.live = heap.live + 1
    BY <1>6, HeapLive
  <2>4. stack' # <<>> /\ top' = f
    <3>1. PICK X : stack \in Seq(X)
      BY <1>2 DEF Stacked
    <3>2. PICK n \in Nat : n = Len(stack)
      BY <3>1
    <3>3. Len(stack') = n + 1 /\ stack'[n + 1] = f
      BY <1>6, <3>1, <3>2
    <3> QED BY <3>2, <3>3 DEF top, Last
  <2>5. Typed'
    <3>1. End' = End
      BY <1>2 DEF End
    <3> QED BY <1>2, <1>6, <2>2, <2>3, <3>1 DEF Typed, Places
  <2>6. Returned' /\ Nested'
    BY <1>2, <1>6, <2>1, <2>4 DEF Returned, Nested, Nothing
  <2>7. Accounted'
    BY <1>2, <1>6, <2>2, <2>3 DEF PlistInv, Accounted, Nothing
  <2> QED BY <2>5, <2>6, <2>7 DEF PlistInv
<1> QED BY <1>3, <1>4, <1>5, <1>6

LEMMA EmptyStep ==
  ASSUME PlistInv, ParseEmpty
  PROVE  PlistInv'
<1>1. PICK own : own = IF Granted(2) THEN 2 ELSE 1
  OBVIOUS
<1>2. PICK v : v = IF tag.n = "data" THEN [type |-> "data", data |-> <<>>]
                   ELSE IF Granted(2) THEN [type |-> "string", string |-> <<>>]
                   ELSE [type |-> "string", null |-> TRUE]
  OBVIOUS
<1>3. /\ pc = "after" /\ UNCHANGED <<input, buf>> /\ heap.live \in Int /\ p \in 1..End
  BY DEF PlistInv, Typed, ParseEmpty
<1>4. \/ NoMemory
      \/ Return(v, own, p) /\ Heap(2, own) /\ UNCHANGED stack
  BY <1>1, <1>2, Zenon DEF ParseEmpty
<1>5. CASE NoMemory
  BY <1>3, <1>5, NoMemoryAnswers, AnswersKeep
<1>6. CASE Return(v, own, p) /\ Heap(2, own) /\ UNCHANGED stack
  <2>1. v.type # "invalid" /\ own \in Nat
    BY <1>1, <1>2
  <2> QED BY <1>3, <1>6, <2>1, ValueAnswers, AnswersKeep
<1> QED BY <1>4, <1>5, <1>6

LEMMA TextStep ==
  ASSUME PlistInv, ParseText
  PROVE  PlistInv'
<1>1. PICK t : t = read_text(p, 1)
  OBVIOUS
<1>2. PICK c : c = expect_close(TextEnd(p), tag.n)
  OBVIOUS
<1>3. /\ pc = "after" /\ UNCHANGED <<input, buf, stack>> /\ heap.live \in Int
      /\ p \in 1..End /\ buf \in Seq(Pieces)
  BY DEF PlistInv, Typed, ParseText
<1>4. c \in 0..End
  <2>1. TextEnd(p) \in 1..End
    BY <1>3, TextEndIn, EndIs
  <2> QED BY <1>2, <1>3, <2>1, ExpectCloseIn
<1>5. PICK v1 : v1 = [type |-> "string", string |-> t.text]
  OBVIOUS
<1>6. PICK v2 : v2 = [type |-> "integer", integer |-> strtoll(t.text)]
  OBVIOUS
<1>7. PICK v3 : v3 = [type |-> "real", real |-> strtod(t.text)]
  OBVIOUS
<1>8. PICK v4 : v4 = [type |-> "data", data |-> base64_decode(t.text).bytes]
  OBVIOUS
<1>9. \/ NoMemory
      \/ ReturnNull /\ Heap(t.calls, 0)
      \/ ReturnNull /\ Heap(t.calls + 1, 0)
      \/ c # 0 /\ Return(v1, 2, c) /\ Heap(t.calls, 2)
      \/ c # 0 /\ Return(v2, 1, c) /\ Heap(t.calls, 1)
      \/ c # 0 /\ Return(v3, 1, c) /\ Heap(t.calls, 1)
      \/ c # 0 /\ Return(v4, 2, c) /\ Heap(t.calls + 1, 2)
  BY <1>1, <1>2, <1>5, <1>6, <1>7, <1>8, Zenon DEF ParseText
<1>10. /\ v1.type # "invalid" /\ v2.type # "invalid" /\ v3.type # "invalid"
       /\ v4.type # "invalid"
  BY <1>5, <1>6, <1>7, <1>8
<1>11. c # 0 => c \in 1..End
  BY <1>3, <1>4, EndIs
<1>12. CASE NoMemory
  BY <1>3, <1>12, NoMemoryAnswers, AnswersKeep
<1>13. CASE ReturnNull /\ (Heap(t.calls, 0) \/ Heap(t.calls + 1, 0))
  BY <1>3, <1>13, NullAnswers, AnswersKeep
<1>14. CASE c # 0 /\ Return(v1, 2, c) /\ Heap(t.calls, 2)
  BY <1>3, <1>10, <1>11, <1>14, ValueAnswers, AnswersKeep
<1>15. CASE c # 0 /\ Return(v2, 1, c) /\ Heap(t.calls, 1)
  BY <1>3, <1>10, <1>11, <1>15, ValueAnswers, AnswersKeep
<1>16. CASE c # 0 /\ Return(v3, 1, c) /\ Heap(t.calls, 1)
  BY <1>3, <1>10, <1>11, <1>16, ValueAnswers, AnswersKeep
<1>17. CASE c # 0 /\ Return(v4, 2, c) /\ Heap(t.calls + 1, 2)
  BY <1>3, <1>10, <1>11, <1>17, ValueAnswers, AnswersKeep
<1> QED BY <1>9, <1>12, <1>13, <1>14, <1>15, <1>16, <1>17

LEMMA AfterTagStep ==
  ASSUME PlistInv, parse_after_tag
  PROVE  PlistInv'
<1>1. CASE Unsupported
  <2>1. pc = "after" /\ ReturnNull /\ UNCHANGED <<input, buf, stack, heap>>
    BY <1>1 DEF Unsupported
  <2> QED BY <2>1, AnswersKeep DEF Answers
<1> QED BY <1>1, BoolStep, NodeStep, EmptyStep, TextStep DEF parse_after_tag

LEMMA DictStep ==
  ASSUME PlistInv, DictNext
  PROVE  PlistInv'
<1>1. PICK d : d = read_tag(p)
  OBVIOUS
<1>2. PICK t : t = read_text(d + 1, 0)
  OBVIOUS
<1>3. PICK c : c = expect_close(TextEnd(d + 1), "key")
  OBVIOUS
<1>4. /\ pc = "dict" /\ UNCHANGED <<input, buf>> /\ heap.live \in Int
      /\ p \in 1..End /\ buf \in Seq(Pieces) /\ ret = Nothing
      /\ stack # <<>> /\ top.key = <<>>
  BY DEF PlistInv, Typed, Returned, Nested, DictNext
<1>5. /\ d \in 0..Len(buf) /\ End = Len(buf) + 1 /\ Len(buf) \in Nat
      /\ ret.own = 0 /\ Len(top.key) = 0
  BY <1>1, <1>4, ReadTagIn, EndIs DEF Nothing
<1>6. \/ TagAt(d) = Close("dict") /\ NodeDone(d + 1) /\ UNCHANGED heap
      \/ NodeFails(0, 0)
      \/ NodeFails(t.calls, 0)
      \/ /\ TagAt(d) \in {Open("key"), Self("key")} /\ c # 0
         /\ Replace([top EXCEPT !.key = <<t.text>>])
         /\ p' = c /\ pc' = "value" /\ Heap(t.calls, 1) /\ UNCHANGED ret
  BY <1>1, <1>2, <1>3, Zenon DEF DictNext
<1>7. /\ TagAt(d) = Close("dict") => d # 0
      /\ TagAt(d) \in {Open("key"), Self("key")} => d # 0
  BY DEF TagAt, NoTag, Close, Open, Self
<1>8. CASE TagAt(d) = Close("dict") /\ NodeDone(d + 1) /\ UNCHANGED heap
  <2>1. d + 1 \in 1..End
    BY <1>5
  <2> QED BY <1>4, <1>8, <2>1, DoneKeeps
<1>9. CASE NodeFails(0, 0) \/ NodeFails(t.calls, 0)
  <2>1. 0 = Len(top.key) + ret.own
    BY <1>5
  <2> QED BY <1>4, <1>9, <2>1, FailsKeep
<1>10. CASE /\ TagAt(d) \in {Open("key"), Self("key")} /\ c # 0
            /\ Replace([top EXCEPT !.key = <<t.text>>])
            /\ p' = c /\ pc' = "value" /\ Heap(t.calls, 1) /\ UNCHANGED ret
  <2>1. PICK g : g = [top EXCEPT !.key = <<t.text>>]
    OBVIOUS
  <2>2. IsFrame(top) /\ top.own \in Nat
    BY <1>4, TopIs
  <2>3. IsFrame(g) /\ g.own = top.own /\ Len(g.key) = 1
    <3>1. PICK B, K : top \in FrameSet(B, K)
      BY <2>2 DEF IsFrame
    <3>0. PICK k : k = <<t.text>>
      OBVIOUS
    <3>2. k \in Seq(K \cup {t.text}) /\ Len(k) = 1
      BY <3>0
    <3>3. g = [top EXCEPT !.key = k]
      BY <2>1, <3>0
    <3>4. top \in FrameSet(B, K \cup {t.text})
      BY <3>1 DEF FrameSet
    <3>5. /\ g \in FrameSet(B, K \cup {t.text}) /\ g.own = top.own /\ g.key = k
          /\ g.body = top.body /\ g.cap = top.cap
      BY <3>2, <3>3, <3>4 DEF FrameSet
    <3> QED BY <2>2, <3>2, <3>5 DEF IsFrame
  <2>4. c \in 1..End
    <3>1. d + 1 \in 1..End
      BY <1>5
    <3>2. TextEnd(d + 1) \in 1..End
      BY <1>4, <1>5, <3>1, TextEndIn
    <3>3. c \in 0..End
      BY <1>3, <1>4, <3>2, ExpectCloseIn
    <3> QED BY <1>5, <1>10, <3>3
  <2>5. heap'.live = heap.live + 1
    BY <1>10, HeapLive
  <2>6. heap'.live - heap.live = g.own + Len(g.key) - top.own - Len(top.key) - ret.own
    BY <1>4, <1>5, <2>2, <2>3, <2>5
  <2>7. heap'.live \in Int
    BY <1>4, <2>5
  <2> QED BY <1>4, <1>10, <2>1, <2>3, <2>4, <2>6, <2>7, ReplaceKeeps
<1> QED BY <1>6, <1>8, <1>9, <1>10

LEMMA ArrayStep ==
  ASSUME PlistInv, ArrayNext
  PROVE  PlistInv'
<1>1. PICK d : d = read_tag(p)
  OBVIOUS
<1>2. /\ pc = "array" /\ UNCHANGED <<input, buf>> /\ heap.live \in Int
      /\ p \in 1..End /\ buf \in Seq(Pieces) /\ ret = Nothing
      /\ stack # <<>> /\ top.key = <<>>
  BY DEF PlistInv, Typed, Returned, Nested, ArrayNext
<1>3. /\ d \in 0..Len(buf) /\ End = Len(buf) + 1 /\ Len(buf) \in Nat
      /\ ret.own = 0 /\ Len(top.key) = 0
  BY <1>1, <1>2, ReadTagIn, EndIs DEF Nothing
<1>4. \/ TagAt(d) = Close("array") /\ NodeDone(d + 1) /\ UNCHANGED heap
      \/ NodeFails(0, 0)
      \/ /\ d # 0 /\ p' = skip_noise(p) /\ pc' = "value"
         /\ UNCHANGED <<stack, ret, heap>>
  BY <1>1, Zenon DEF ArrayNext
<1>5. CASE TagAt(d) = Close("array") /\ NodeDone(d + 1) /\ UNCHANGED heap
  <2>1. d + 1 \in 1..End
    BY <1>3
  <2> QED BY <1>2, <1>5, <2>1, DoneKeeps
<1>6. CASE NodeFails(0, 0)
  <2>1. 0 = Len(top.key) + ret.own
    BY <1>3
  <2> QED BY <1>2, <1>6, <2>1, FailsKeep
<1>7. CASE /\ d # 0 /\ p' = skip_noise(p) /\ pc' = "value"
           /\ UNCHANGED <<stack, ret, heap>>
  <2>1. p' = d
    BY <1>1, <1>7, Zenon DEF read_tag
  <2>2. p' \in 1..End /\ pc' \in Places /\ TextBlock(pc') = TextBlock(pc)
    BY <1>2, <1>3, <1>7, <2>1 DEF Places, TextBlock
  <2>3. Returned' /\ Nested'
    BY <1>2, <1>7 DEF Returned, Nested, Nothing
  <2> QED BY <1>2, <1>7, <2>2, <2>3, Moves
<1> QED BY <1>4, <1>5, <1>6, <1>7

(* dict_append and array_append leave a node whose entries fit.             *)
LEMMA AppendedIs ==
  ASSUME NEW f, IsFrame(f), ret.own \in Nat
  PROVE  LET g == Appended(f)
         IN /\ IsFrame(g) /\ g.key = <<>>
            /\ g.own = f.own + ret.own + Len(f.key) + (IF f.cap = 0 THEN Arrays(f) ELSE 0)
<1>1. PICK B, K : f \in FrameSet(B, K)
  BY DEF IsFrame
<1>2. /\ f.body \in Seq(B) /\ Len(f.body) \in Nat /\ f.cap \in Nat /\ f.own \in Nat
      /\ Len(f.key) \in Nat /\ Len(f.body) <= f.cap
  BY <1>1 DEF IsFrame, FrameSet
<1>3. PICK x : x = IF f.type = "dict" THEN <<f.key[1], ret.v>> ELSE ret.v
  OBVIOUS
<1>4. PICK l : l = Append(f.body, x)
  OBVIOUS
<1>5. l \in Seq(B \cup {x}) /\ Len(l) = Len(f.body) + 1
  <2>1. f.body \in Seq(B \cup {x})
    BY <1>2
  <2> QED BY <1>2, <1>4, <2>1
<1>6. PICK cap : cap = IF ~Full(f) THEN f.cap ELSE IF f.cap = 0 THEN NodeCap ELSE 2 * f.cap
  OBVIOUS
<1>7. cap \in Nat /\ Len(l) <= cap
  <2>1. NodeCap \in Nat \ {0}
    BY PlistAssumption
  <2> QED BY <1>2, <1>5, <1>6, <2>1 DEF Full
<1>8. PICK own : own = f.own + ret.own + Len(f.key) + (IF f.cap = 0 THEN Arrays(f) ELSE 0)
  OBVIOUS
<1>9. own \in Nat
  <2>1. Arrays(f) \in Nat
    BY DEF Arrays
  <2> QED BY <1>2, <1>8, <2>1
<1>10. PICK k : k = <<>> /\ k \in Seq(K)
  <2>1. <<>> \in Seq(K)
    OBVIOUS
  <2> QED BY <2>1
<1>11. PICK g : g = [f EXCEPT !.body = l, !.cap = cap, !.own = own, !.key = k]
  OBVIOUS
<1>12. Appended(f) = g
  BY <1>3, <1>4, <1>6, <1>8, <1>10, <1>11, Zenon DEF Appended
<1>13. f \in FrameSet(B \cup {x}, K)
  BY <1>1 DEF FrameSet
<1>14. g \in FrameSet(B \cup {x}, K) /\ g.body = l /\ g.cap = cap /\ g.own = own /\ g.key = k
  BY <1>5, <1>7, <1>9, <1>10, <1>11, <1>13 DEF FrameSet
<1>15. IsFrame(g)
  BY <1>7, <1>14 DEF IsFrame
<1> QED BY <1>8, <1>10, <1>12, <1>14, <1>15, Zenon

LEMMA AppendStep ==
  ASSUME PlistInv, AppendChild
  PROVE  PlistInv'
<1>1. /\ pc = "return" /\ stack # <<>> /\ UNCHANGED <<input, buf>>
      /\ heap.live \in Int /\ ret.own \in Nat /\ p \in 1..End
  BY DEF PlistInv, Typed, AppendChild
<1>2. IsFrame(top) /\ top.own \in Nat /\ Len(top.key) \in Nat
  BY <1>1, TopIs
<1>3. PICK g : g = Appended(top)
  OBVIOUS
<1>4. PICK a : a = IF top.cap = 0 THEN Arrays(top) ELSE 0
  OBVIOUS
<1>5. \/ /\ Replace(g) /\ ret' = Nothing /\ pc' = top.type
         /\ Heap(GrowCalls(top), a) /\ UNCHANGED p
      \/ NodeFails(GrowCalls(top), Len(top.key) + ret.own)
  BY <1>3, <1>4, Zenon DEF AppendChild
<1>6. CASE NodeFails(GrowCalls(top), Len(top.key) + ret.own)
  BY <1>1, <1>6, FailsKeep
<1>7. CASE /\ Replace(g) /\ ret' = Nothing /\ pc' = top.type
           /\ Heap(GrowCalls(top), a) /\ UNCHANGED p
  <2>1. IsFrame(g) /\ g.key = <<>> /\ g.own = top.own + ret.own + Len(top.key) + a
    BY <1>1, <1>2, <1>3, <1>4, AppendedIs
  <2>2. a \in Nat /\ top.type \in {"dict", "array"}
    BY <1>2, <1>4 DEF Arrays, IsFrame, FrameSet
  <2>3. heap'.live = heap.live + a /\ heap'.live \in Int
    BY <1>1, <1>7, <2>2, HeapLive
  <2>4. Len(g.key) = 0
    BY <2>1
  <2>5. heap'.live - heap.live = g.own + Len(g.key) - top.own - Len(top.key) - ret.own
    <3>1. PICK x \in Int, o \in Nat, k \in Nat, r \in Nat :
            x = heap.live /\ o = top.own /\ k = Len(top.key) /\ r = ret.own
      BY <1>1, <1>2
    <3>2. heap'.live = x + a /\ g.own = o + r + k + a
      BY <2>1, <2>3, <3>1
    <3>3. (x + a) - x = (o + r + k + a) + 0 - o - k - r
      <4>1. a \in Nat
        BY <2>2
      <4> QED BY <4>1
    <3> QED BY <2>4, <3>1, <3>2, <3>3
  <2>6. pc' \in {"dict", "array", "value"} /\ p' \in 1..End
    BY <1>1, <1>7, <2>2
  <2> QED BY <1>1, <1>7, <2>1, <2>3, <2>5, <2>6, ReplaceKeeps
<1> QED BY <1>5, <1>6, <1>7

LEMMA ChildStep ==
  ASSUME PlistInv, ChildFails
  PROVE  PlistInv'
<1>1. /\ pc = "null" /\ stack # <<>> /\ UNCHANGED <<input, buf>>
      /\ NodeFails(0, Len(top.key)) /\ ret = Nothing
  BY DEF PlistInv, Returned, ChildFails
<1>2. Len(top.key) \in Nat
  BY <1>1, TopIs
<1>3. Len(top.key) = Len(top.key) + ret.own
  BY <1>1, <1>2 DEF Nothing
<1> QED BY <1>1, <1>3, FailsKeep

LEMMA RootStep ==
  ASSUME PlistInv, RootDone
  PROVE  PlistInv'
<1>1. PICK c : c = expect_close(p, "plist")
  OBVIOUS
<1>2. /\ pc \in {"return", "null"} /\ stack = <<>> /\ pc' = "finish"
      /\ UNCHANGED <<input, buf, stack>> /\ heap.live \in Int /\ ret.own \in Nat
      /\ p \in 1..End /\ buf \in Seq(Pieces)
  BY DEF PlistInv, Typed, RootDone
<1>3. c \in 0..End /\ End \in Nat
  BY <1>1, <1>2, ExpectCloseIn, EndIs
<1>4. \/ p' \in {p, c} /\ (p' = p \/ c # 0) /\ UNCHANGED <<ret, heap>>
      \/ ret' = Nothing /\ Heap(0, -ret.own) /\ UNCHANGED p
  BY <1>1, Zenon DEF RootDone
<1>5. CASE p' \in {p, c} /\ (p' = p \/ c # 0) /\ UNCHANGED <<ret, heap>>
  <2>1. p' \in 1..End /\ pc' \in Places /\ TextBlock(pc') = TextBlock(pc)
    BY <1>2, <1>3, <1>5 DEF Places, TextBlock
  <2>2. Returned' /\ Nested'
    BY <1>2, <1>5 DEF PlistInv, Returned, Nested
  <2> QED BY <1>2, <1>5, <2>1, <2>2, Moves
<1>6. CASE ret' = Nothing /\ Heap(0, -ret.own) /\ UNCHANGED p
  <2>1. heap.live = 1 + ret.own
    BY <1>2, OwnedByNone DEF PlistInv, Accounted
  <2>2. heap'.live = heap.live + (-ret.own) /\ ret'.own = 0
    BY <1>6, HeapLive DEF Nothing
  <2>3. heap'.live = 1
    BY <1>2, <2>1, <2>2
  <2>4. Typed'
    <3>1. End' = End
      BY <1>2 DEF End
    <3> QED BY <1>2, <1>6, <2>2, <2>3, <3>1 DEF PlistInv, Typed, Places
  <2>5. Returned' /\ Nested'
    BY <1>2, <2>2 DEF Returned, Nested
  <2>6. Accounted'
    BY <1>2, <2>2, <2>3, OwnedByNone DEF Accounted
  <2> QED BY <2>4, <2>5, <2>6 DEF PlistInv
<1> QED BY <1>4, <1>5, <1>6

LEMMA FinishStep ==
  ASSUME PlistInv, Finish
  PROVE  PlistInv'
<1>1. /\ pc = "finish" /\ pc' = "done" /\ Heap(0, -1) /\ stack = <<>>
      /\ UNCHANGED <<input, buf, p, stack, ret>> /\ heap.live \in Int /\ ret.own \in Nat
  BY DEF PlistInv, Typed, Nested, Finish
<1>2. heap.live = 1 + ret.own
  BY <1>1, OwnedByNone DEF PlistInv, Accounted
<1>3. heap'.live = heap.live + (-1)
  BY <1>1, HeapLive
<1>4. heap'.live = ret.own
  BY <1>1, <1>2, <1>3
<1>5. Typed'
  <2>1. End' = End
    BY <1>1 DEF End
  <2> QED BY <1>1, <1>4, <2>1 DEF PlistInv, Typed, Places
<1>6. Returned' /\ Nested'
  BY <1>1 DEF PlistInv, Returned, Nested
<1>7. Accounted'
  BY <1>1, <1>4, OwnedByNone DEF Accounted
<1> QED BY <1>5, <1>6, <1>7 DEF PlistInv

LEMMA StutterKeeps ==
  ASSUME PlistInv, UNCHANGED vars
  PROVE  PlistInv'
<1>1. UNCHANGED <<input, buf, pc, p, stack, ret, heap>> /\ End' = End
  BY DEF vars, End
<1>2. Typed' /\ Returned'
  BY <1>1 DEF PlistInv, Typed, Returned
<1>3. Nested' /\ Accounted'
  BY <1>1 DEF PlistInv, Nested, Accounted, top
<1> QED BY <1>2, <1>3 DEF PlistInv

-----------------------------------------------------------------------------
(* The theorems.                                                            *)

(* In every run over every document, cut off anywhere and with any of its   *)
(* allocations failing, the recursion of plist_lite.c keeps its accounts:   *)
(* the invariant from which the theorems below follow.                      *)
THEOREM ParserInvariant == Spec => []PlistInv
<1>1. Init => PlistInv
  BY InitPlist
<1>2. PlistInv /\ [Next]_vars => PlistInv'
  BY FileStep, StringStep, ValueStep, AfterTagStep, DictStep, ArrayStep, AppendStep,
     ChildStep, RootStep, FinishStep, StutterKeeps DEF Next
<1> QED BY <1>1, <1>2, PTL DEF Spec

LEMMA InvInBounds == PlistInv => InBounds
<1> SUFFICES ASSUME PlistInv PROVE InBounds
  OBVIOUS
<1>1. /\ p \in 1..End /\ buf \in Seq(Pieces) /\ Stacked(stack)
  BY DEF PlistInv, Typed
<1>2. \A i \in DOMAIN stack : Len(stack[i].body) <= stack[i].cap
  <2>1. DOMAIN stack = 1..Len(stack)
    BY <1>1 DEF Stacked
  <2> QED BY <1>1, <2>1 DEF Stacked, IsFrame
<1>3. PICK t : t = read_text(p, 1)
  OBVIOUS
<1>4. t.text \in Seq(Letters) /\ Len(t.text) < t.cap
  <2>1. t \in TextStates
    BY <1>1, <1>3, ReadTextIn
  <2> QED BY <2>1 DEF TextStates
<1>5. Len(base64_decode(t.text).bytes) <= DecodeRoom(t.text)
  BY <1>4, DecodeFits
<1> QED BY <1>1, <1>2, <1>3, <1>4, <1>5, Zenon DEF InBounds

(* plist_parse_file never reads outside the text, never writes past the end *)
(* of a buffer it allocated, and at every step every block has one owner:   *)
(* each of the ways out of parse_after_tag frees what it must and no more.  *)
THEOREM HeapStaysSound == Spec => []HeapSound
<1>1. PlistInv => HeapSound
  BY InvInBounds DEF HeapSound, PlistInv
<1> QED BY <1>1, ParserInvariant, PTL

(* When plist_parse_file has returned NULL nothing of the file is left in   *)
(* memory, and when it has returned a tree just the blocks of the tree are: *)
(* what plist_free of the tree will free.                                   *)
NoLeak ==
  pc = "done" => /\ heap.live = ret.own
                 /\ ret.v = Null => heap.live = 0

(* No way out of the parser leaks: NoLeak in every run.                     *)
THEOREM FailureLeavesNothing == Spec => []NoLeak
<1>1. PlistInv => NoLeak
  <2> SUFFICES ASSUME PlistInv, pc = "done" PROVE heap.live = ret.own /\ (ret.v = Null => ret.own = 0)
    BY DEF NoLeak
  <2>1. stack = <<>> /\ ret.own \in Nat
    BY DEF PlistInv, Nested, Typed
  <2> QED BY <2>1, OwnedByNone DEF PlistInv, Accounted, Returned
<1> QED BY <1>1, ParserInvariant, PTL

=============================================================================
