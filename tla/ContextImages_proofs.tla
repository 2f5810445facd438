------------------------- MODULE ContextImages_proofs -------------------------
(***************************************************************************)
(* Proofs about ContextImages, for any images, limit and number of         *)
(* messages.                                                               *)
(***************************************************************************)
EXTENDS ContextImages, SequenceTheorems, WellFoundedInduction, TLAPS

\* A sequence of whatever it holds.  What the scan finds in the messages needs no
\* type for what follows: an entry is looked at as it is.
IsSeq(s) == s \in Seq(ToSet(s))

\* What a call has downloaded holds no image twice, with or without a context.
Apart == at = "fetch" => IsSeq(new_images) /\ IsInjective(new_images)

-----------------------------------------------------------------------------

\* The empty sequence.
LEMMA NothingYet == IsSeq(<<>>) /\ ToSet(<<>>) = {} /\ IsInjective(<<>>)
<1>1. DOMAIN <<>> = {}
  OBVIOUS
<1>2. ToSet(<<>>) = {} /\ IsInjective(<<>>)
  BY <1>1 DEF ToSet, IsInjective
<1> QED
  BY <1>2, EmptySeq DEF IsSeq

\* One more image, which is not among those there are.
LEMMA OneMore ==
    ASSUME NEW s, IsSeq(s), IsInjective(s), NEW x, x \notin ToSet(s)
    PROVE  LET t == Append(s, x) IN
           IsSeq(t) /\ IsInjective(t) /\ ToSet(t) = ToSet(s) \cup {x}
<1> DEFINE S == ToSet(s) \cup {x}
           t == Append(s, x)
<1>1. s \in Seq(S) /\ x \in S
  <2>1. s \in Seq(ToSet(s)) /\ ToSet(s) \subseteq S
    BY DEF IsSeq
  <2>2. s \in Seq(S)
    BY <2>1, SeqMonotonic
  <2> QED
    BY <2>2
<1> HIDE DEF S
<1>2. /\ t \in Seq(S) /\ Len(t) = Len(s) + 1
      /\ \A i \in 1 .. Len(s) : t[i] = s[i]
      /\ t[Len(s) + 1] = x
  BY <1>1, AppendProperties
<1>3. /\ Len(s) \in Nat /\ DOMAIN s = 1 .. Len(s)
      /\ DOMAIN t = 1 .. Len(s) + 1
  BY <1>1, <1>2, LenProperties
<1> HIDE DEF t
<1>4. \A i \in DOMAIN t : (i \in DOMAIN s /\ t[i] = s[i]) \/ (i = Len(s) + 1 /\ t[i] = x)
  BY <1>2, <1>3
<1>5. \A i \in DOMAIN s : i \in DOMAIN t /\ t[i] = s[i] /\ i # Len(s) + 1
  BY <1>2, <1>3
<1>6. Len(s) + 1 \in DOMAIN t
  BY <1>3
<1>7. ToSet(t) = ToSet(s) \cup {x}
  BY <1>2, <1>4, <1>5, <1>6 DEF ToSet
<1>8. IsInjective(t)
  <2>1. \A i \in DOMAIN s : s[i] # x
    BY DEF ToSet
  <2> QED
    BY <1>4, <2>1 DEF IsInjective
<1>9. IsSeq(t)
  BY <1>2, <1>7 DEF IsSeq, S
<1> QED
  BY <1>7, <1>8, <1>9 DEF t

-----------------------------------------------------------------------------

\* Nothing is downloaded when the scan ends, and then only what this call has not
\* downloaded yet.
LEMMA StaysApart == Apart /\ [Next]_vars => Apart'
<1> SUFFICES ASSUME Apart, [Next]_vars PROVE Apart'
  OBVIOUS
<1>1. CASE UNCHANGED vars
  BY <1>1 DEF vars, Apart
<1>2. CASE (\E message \in Message : Say(message)) \/ Return
  BY <1>2 DEF Say, Return, Apart
<1>3. CASE Scan
  BY <1>3, NothingYet DEF Scan, Apart
<1>4. CASE Skip \/ DownloadFails
  BY <1>4 DEF Skip, DownloadFails, Take, Apart
<1>5. CASE Download
  <2> DEFINE x == Head(all_image_urls)
  <2>1. at = "fetch" /\ new_images' = Append(new_images, x)
        /\ x \notin ToSet(new_images)
    BY <1>5 DEF Download, Take, Known
  <2> HIDE DEF x
  <2>2. IsSeq(new_images') /\ IsInjective(new_images')
    BY <2>1, OneMore DEF Apart
  <2> QED
    BY <2>2 DEF Apart
<1> QED
  BY <1>1, <1>2, <1>3, <1>4, <1>5 DEF Next

-----------------------------------------------------------------------------
(* What Listed is.  FlattenSeq is a recursive function; induction over the *)
(* length of its argument tells what it computes.                          *)

\* The elements of a sequence with one more.
LEMMA AppendToSet ==
    ASSUME NEW T, NEW s \in Seq(T), NEW x
    PROVE  ToSet(Append(s, x)) = ToSet(s) \cup {x}
<1> DEFINE S == T \cup {x}
           t == Append(s, x)
<1>1. s \in Seq(S) /\ x \in S
  BY SeqMonotonic
<1> HIDE DEF S
<1>2. /\ t \in Seq(S) /\ Len(t) = Len(s) + 1 /\ t[Len(s) + 1] = x
      /\ \A i \in 1 .. Len(s) : t[i] = s[i]
  BY <1>1, AppendProperties
<1>3. /\ Len(s) \in Nat /\ DOMAIN s = 1 .. Len(s) /\ DOMAIN t = 1 .. Len(s) + 1
  BY <1>1, <1>2, LenProperties
<1> HIDE DEF t
<1>4. \A i : i \in DOMAIN t <=> i \in DOMAIN s \/ i = Len(s) + 1
  BY <1>3
<1>5. \A i \in DOMAIN s : t[i] = s[i]
  BY <1>2, <1>3
<1> QED
  BY <1>2, <1>4, <1>5 DEF ToSet, t

\* A set of natural numbers has a least element.
LEMMA Least ==
    ASSUME NEW S \in SUBSET Nat, S # {}
    PROVE  \E m \in S : \A k \in S : m <= k
<1>1. PICK R : IsWellFoundedOn(R, Nat) /\ \A k, m \in Nat : k < m => <<k, m>> \in R
  <2>1. \A k, m \in Nat : k < m => <<k, m>> \in OpToRel(<, Nat)
    BY Zenon DEF OpToRel
  <2> QED
    BY <2>1, NatLessThanWellFounded, Zenon
<1>2. S \subseteq Nat
  OBVIOUS
<1>3. IsWellFoundedOn(R, Nat)
  BY <1>1
<1>4. PICK m \in S : \A k \in S : ~ (<<k, m>> \in R)
  BY <1>2, <1>3, WFMin
<1>5. ASSUME NEW k \in S PROVE m <= k
  <2>1. ~ (<<k, m>> \in R)
    BY <1>4
  <2>2. k \in Nat /\ m \in Nat
    BY <1>2
  <2>3. ~(k < m)
    BY <1>1, <2>1, <2>2, Zenon
  <2> QED
    BY <2>2, <2>3
<1> QED
  BY <1>5

\* Induction over the natural numbers, for a set in place of a predicate.
LEMMA Induction ==
    ASSUME NEW S, 0 \in S, \A n \in Nat : n \in S => n + 1 \in S
    PROVE  Nat \subseteq S
<1> SUFFICES ASSUME NEW x \in Nat, x \notin S PROVE FALSE
  OBVIOUS
<1>1. PICK m \in {n \in Nat : n \notin S} : \A k \in {n \in Nat : n \notin S} : m <= k
  BY Least
<1>2. m # 0 /\ m - 1 \in Nat
  BY <1>1
<1>3. m - 1 \in S
  BY <1>1, <1>2
<1> QED
  BY <1>1, <1>2, <1>3

\* flatten, of FlattenSeq, is a function: one for the first n sequences can be
\* continued for one more.
Flattens(f, s, n) ==
    f = [i \in 1 .. n |-> IF i = 1 THEN s[i] ELSE f[i - 1] \o s[i]]

LEMMA FlattenExists ==
    ASSUME NEW s, NEW n \in Nat
    PROVE  \E f : Flattens(f, s, n)
<1> DEFINE S == {m \in Nat : \E f : Flattens(f, s, m)}
<1>1. 0 \in S
  <2> DEFINE f == [i \in 1 .. 0 |-> 0]
  <2>1. f = [i \in 1 .. 0 |-> IF i = 1 THEN s[i] ELSE f[i - 1] \o s[i]]
    OBVIOUS
  <2> QED
    BY <2>1 DEF Flattens
<1>2. ASSUME NEW m \in Nat, m \in S PROVE m + 1 \in S
  <2>1. PICK f : Flattens(f, s, m)
    BY <1>2
  <2> DEFINE g == [i \in 1 .. m + 1 |->
                     IF i = 1 THEN s[i] ELSE f[i - 1] \o s[i]]
  <2>2. \A i \in 1 .. m : g[i] = f[i]
    <3>1. f = [i \in 1 .. m |-> IF i = 1 THEN s[i] ELSE f[i - 1] \o s[i]]
      BY <2>1 DEF Flattens
    <3>2. \A i \in 1 .. m : f[i] = IF i = 1 THEN s[i] ELSE f[i - 1] \o s[i]
      BY <3>1, Zenon
    <3>3. \A i \in 1 .. m : i \in 1 .. m + 1
      OBVIOUS
    <3> QED
      BY <3>2, <3>3, Zenon
  <2>3. ASSUME NEW i \in 1 .. m + 1, i # 1 PROVE i - 1 \in 1 .. m
    BY <2>3
  <2>4. g = [i \in 1 .. m + 1 |-> IF i = 1 THEN s[i] ELSE g[i - 1] \o s[i]]
    <3>1. ASSUME NEW i \in 1 .. m + 1
          PROVE  (IF i = 1 THEN s[i] ELSE f[i - 1] \o s[i])
                   = (IF i = 1 THEN s[i] ELSE g[i - 1] \o s[i])
      <4> HIDE DEF g
      <4> QED
        BY <2>2, <2>3
    <3> QED
      BY <3>1, Zenon
  <2>5. Flattens(g, s, m + 1)
    BY <2>4, Zenon DEF Flattens
  <2> HIDE DEF g
  <2> QED
    BY <2>5
<1> HIDE DEF S
<1>3. n \in S
  BY <1>1, <1>2, Induction
<1> QED
  BY <1>3 DEF S

\* The last value of flatten is what FlattenSeq answers.
LEMMA FlattenUnfolds ==
    ASSUME NEW s, NEW n \in Nat \ {0}, Len(s) = n
    PROVE  \E f : Flattens(f, s, n) /\ FlattenSeq(s) = f[n]
<1>1. Flattens(CHOOSE f : Flattens(f, s, n), s, n)
  BY FlattenExists
<1>2. FlattenSeq(s) = (CHOOSE f : Flattens(f, s, n))[n]
  BY Zenon DEF FlattenSeq, Flattens
<1> QED
  BY <1>1, <1>2

\* F is the first n sequences of s behind one another, and block[q] is the one that
\* its q-th element comes from.
Blocks(F, s, n, block) ==
    /\ block \in [1 .. Len(F) -> 1 .. n]
    /\ \A p, q \in 1 .. Len(F) : p <= q => block[p] <= block[q]
    /\ \A q \in 1 .. Len(F) : F[q] \in ToSet(s[block[q]])
    /\ \A i \in 1 .. n : \A x \in ToSet(s[i]) :
           \E q \in 1 .. Len(F) : block[q] = i /\ F[q] = x

\* The elements of a sequence, by their positions.
LEMMA Elements ==
    ASSUME NEW T, NEW t \in Seq(T)
    PROVE  /\ Len(t) \in Nat /\ DOMAIN t = 1 .. Len(t)
           /\ \A q \in 1 .. Len(t) : t[q] \in ToSet(t)
           /\ \A x \in ToSet(t) : x \in T /\ \E q \in 1 .. Len(t) : t[q] = x
<1>1. Len(t) \in Nat /\ DOMAIN t = 1 .. Len(t) /\ \A q \in 1 .. Len(t) : t[q] \in T
  BY LenProperties, ElementOfSeq
<1> QED
  BY <1>1 DEF ToSet

\* A sequence on its own.
LEMMA FirstBlock ==
    ASSUME NEW T, NEW s, s[1] \in Seq(T)
    PROVE  \E block : Blocks(s[1], s, 1, block)
<1> DEFINE t == s[1]
           c == [q \in 1 .. Len(t) |-> 1]
<1>1. /\ Len(t) \in Nat
      /\ \A q \in 1 .. Len(t) : t[q] \in ToSet(t)
      /\ \A x \in ToSet(t) : \E q \in 1 .. Len(t) : t[q] = x
  BY Elements
<1>2. Blocks(t, s, 1, c)
  BY <1>1 DEF Blocks
<1> QED
  BY <1>2

\* One more sequence.
LEMMA NextBlock ==
    ASSUME NEW T, NEW s, NEW n \in Nat, NEW F \in Seq(T), s[n + 1] \in Seq(T),
           NEW b, Blocks(F, s, n, b)
    PROVE  F \o s[n + 1] \in Seq(T) /\ \E block : Blocks(F \o s[n + 1], s, n + 1, block)
<1> DEFINE t == s[n + 1]
           G == F \o t
           c == [q \in 1 .. Len(G) |-> IF q <= Len(F) THEN b[q] ELSE n + 1]
<1>1. /\ Len(F) \in Nat /\ Len(t) \in Nat
      /\ \A q \in 1 .. Len(t) : t[q] \in ToSet(t)
      /\ \A x \in ToSet(t) : \E q \in 1 .. Len(t) : t[q] = x
  BY Elements
<1> HIDE DEF t
<1>2. /\ G \in Seq(T) /\ Len(G) = Len(F) + Len(t)
      /\ \A q \in 1 .. Len(F) + Len(t) :
             G[q] = IF q <= Len(F) THEN F[q] ELSE t[q - Len(F)]
  BY ConcatProperties DEF t
<1> HIDE DEF G
<1>3. \A q \in 1 .. Len(G) :
        \/ q \in 1 .. Len(F) /\ c[q] = b[q] /\ G[q] = F[q]
        \/ /\ q \notin 1 .. Len(F) /\ c[q] = n + 1
           /\ q - Len(F) \in 1 .. Len(t) /\ G[q] = t[q - Len(F)]
  BY <1>1, <1>2
<1>4. /\ \A q \in 1 .. Len(F) : q \in 1 .. Len(G)
      /\ \A q \in 1 .. Len(t) : q + Len(F) \in 1 .. Len(G) /\ q + Len(F) \notin 1 .. Len(F)
                                /\ (q + Len(F)) - Len(F) = q
  BY <1>1, <1>2
<1>5. /\ b \in [1 .. Len(F) -> 1 .. n]
      /\ \A p, q \in 1 .. Len(F) : p <= q => b[p] <= b[q]
      /\ \A q \in 1 .. Len(F) : F[q] \in ToSet(s[b[q]])
      /\ \A i \in 1 .. n : \A x \in ToSet(s[i]) :
             \E q \in 1 .. Len(F) : b[q] = i /\ F[q] = x
  BY DEF Blocks
<1>6. c \in [1 .. Len(G) -> 1 .. n + 1]
  BY <1>3, <1>5
<1> HIDE DEF c
<1>7. ASSUME NEW p \in 1 .. Len(G), NEW q \in 1 .. Len(G), p <= q
      PROVE  c[p] <= c[q]
  <2>1. CASE q \in 1 .. Len(F)
    <3>1. p \in 1 .. Len(F)
      BY <1>1, <1>2, <1>7, <2>1
    <3> QED
      BY <1>3, <1>5, <1>7, <2>1, <3>1
  <2>2. CASE q \notin 1 .. Len(F)
    BY <1>3, <1>6, <2>2
  <2> QED
    BY <2>1, <2>2
<1>8. ASSUME NEW q \in 1 .. Len(G) PROVE G[q] \in ToSet(s[c[q]])
  <2>1. CASE q \in 1 .. Len(F)
    BY <1>3, <1>5, <2>1
  <2>2. CASE q \notin 1 .. Len(F)
    BY <1>1, <1>3, <2>2 DEF t
  <2> QED
    BY <2>1, <2>2
<1>9. ASSUME NEW i \in 1 .. n + 1, NEW x \in ToSet(s[i])
      PROVE  \E q \in 1 .. Len(G) : c[q] = i /\ G[q] = x
  <2>1. CASE i \in 1 .. n
    <3>1. PICK q \in 1 .. Len(F) : b[q] = i /\ F[q] = x
      BY <1>5, <2>1
    <3> QED
      BY <1>3, <1>4, <3>1
  <2>2. CASE i = n + 1
    <3>1. PICK q \in 1 .. Len(t) : t[q] = x
      BY <1>1, <2>2 DEF t
    <3> QED
      BY <1>3, <1>4, <2>2, <3>1
  <2> QED
    BY <2>1, <2>2
<1>10. Blocks(G, s, n + 1, c)
  BY <1>6, <1>7, <1>8, <1>9 DEF Blocks
<1> QED
  BY <1>2, <1>10 DEF G, t

\* FlattenSeq puts the sequences behind one another, in their order.
LEMMA FlattenIsBlocks ==
    ASSUME NEW T, NEW s \in Seq(Seq(T))
    PROVE  /\ FlattenSeq(s) \in Seq(T)
           /\ \E block : Blocks(FlattenSeq(s), s, Len(s), block)
<1> DEFINE n == Len(s)
<1>1. n \in Nat /\ \A i \in 1 .. n : s[i] \in Seq(T)
  BY LenProperties, ElementOfSeq
<1>2. CASE n = 0
  <2>1. FlattenSeq(s) = s /\ s = <<>>
    BY <1>2, EmptySeq DEF FlattenSeq
  <2>2. Blocks(<<>>, s, 0, [q \in 1 .. 0 |-> 0])
    BY EmptySeq DEF Blocks
  <2> QED
    BY <1>2, <2>1, <2>2, EmptySeq
<1>3. CASE n # 0
  <2>1. PICK f : Flattens(f, s, n) /\ FlattenSeq(s) = f[n]
    BY <1>1, <1>3, FlattenUnfolds
  <2>2. \A i \in 1 .. n : f[i] = IF i = 1 THEN s[i] ELSE f[i - 1] \o s[i]
    BY <2>1, Zenon DEF Flattens
  <2> DEFINE S == {m \in Nat : m + 1 \in 1 .. n =>
                      f[m + 1] \in Seq(T) /\ \E block : Blocks(f[m + 1], s, m + 1, block)}
  <2> HIDE DEF n
  <2>3. 0 \in S
    <3>1. f[1] = s[1] /\ s[1] \in Seq(T)
      BY <1>1, <1>3, <2>2
    <3>2. \E block : Blocks(f[1], s, 1, block)
      BY <3>1, FirstBlock
    <3> QED
      BY <3>1, <3>2
  <2>4. ASSUME NEW m \in Nat, m \in S PROVE m + 1 \in S
    <3> SUFFICES ASSUME (m + 1) + 1 \in 1 .. n
                 PROVE  /\ f[(m + 1) + 1] \in Seq(T)
                        /\ \E block : Blocks(f[(m + 1) + 1], s, (m + 1) + 1, block)
      OBVIOUS
    <3>1. m + 1 \in 1 .. n /\ (m + 1) + 1 # 1 /\ ((m + 1) + 1) - 1 = m + 1
      BY <1>1
    <3>2. f[(m + 1) + 1] = f[m + 1] \o s[(m + 1) + 1]
      BY <2>2, <3>1
    <3>3. f[m + 1] \in Seq(T) /\ \E block : Blocks(f[m + 1], s, m + 1, block)
      BY <2>4, <3>1
    <3>4. s[(m + 1) + 1] \in Seq(T) /\ m + 1 \in Nat
      BY <1>1
    <3> QED
      BY <3>2, <3>3, <3>4, NextBlock
  <2>5. n - 1 \in Nat /\ (n - 1) + 1 = n /\ n \in 1 .. n
    BY <1>1, <1>3
  <2> HIDE DEF S
  <2>6. n - 1 \in S
    BY <2>3, <2>4, <2>5, Induction
  <2> USE DEF S
  <2>7. f[n] \in Seq(T) /\ \E block : Blocks(f[n], s, n, block)
    BY <2>5, <2>6
  <2> QED
    BY <2>1, <2>7 DEF n
<1> QED
  BY <1>2, <1>3

Named == Urls \cup {None}

\* Where each entry of Listed comes from: the messages are gone through from the
\* newest to the oldest, and none of their entries is left out.
NewestFirst(from) ==
    /\ from \in [1 .. Len(Listed) -> DOMAIN messages]
    /\ \A p, q \in 1 .. Len(Listed) : p <= q => from[q] <= from[p]
    /\ \A q \in 1 .. Len(Listed) : Listed[q] \in ToSet(messages[from[q]].urls)
    /\ \A i \in DOMAIN messages : \A x \in ToSet(messages[i].urls) :
           \E q \in 1 .. Len(Listed) : from[q] = i /\ Listed[q] = x

\* The list of a message holds URLs and entries without one.
LEMMA EntriesAreNamed == \A message \in Message : message.urls \in Seq(Named)
<1> SUFFICES ASSUME NEW message \in Message PROVE message.urls \in Seq(Named)
  OBVIOUS
<1>1. message.urls \in Entries
  BY DEF Message
<1>2. PICK n \in 0 .. MaxEntries : message.urls \in [1 .. n -> Named]
  BY <1>1 DEF Entries, Named
<1>3. n \in Nat
  BY ImagesAssumption
<1> QED
  BY <1>2, <1>3, SeqDef

\* Listed is a list of such entries, and it is in that order.
LEMMA ListedIsNewestFirst ==
    ASSUME messages \in Seq(Message)
    PROVE  Listed \in Seq(Named) /\ \E from : NewestFirst(from)
<1> DEFINE L == Len(messages)
           lists == [i \in DOMAIN messages |-> messages[i].urls]
           rev == Reverse(lists)
<1>1. /\ L \in Nat /\ DOMAIN messages = 1 .. L
      /\ \A i \in 1 .. L : messages[i] \in Message
  BY LenProperties, ElementOfSeq
<1>2. \A i \in 1 .. L : messages[i].urls \in Seq(Named)
  BY <1>1, EntriesAreNamed
<1> HIDE DEF L
<1>3. /\ lists = [i \in 1 .. L |-> messages[i].urls]
      /\ \A i \in 1 .. L : lists[i] = messages[i].urls
  BY <1>1
<1>4. Len(lists) = L
  BY <1>1, <1>3
<1> HIDE DEF lists
<1>5. rev = [i \in 1 .. L |-> lists[(L - i) + 1]]
  BY <1>4 DEF Reverse
<1>6. \A i \in 1 .. L : (L - i) + 1 \in 1 .. L /\ (L - ((L - i) + 1)) + 1 = i
  BY <1>1
<1>7. \A i \in 1 .. L : rev[i] = messages[(L - i) + 1].urls
  BY <1>3, <1>5, <1>6, Zenon
<1>8. rev \in Seq(Seq(Named)) /\ Len(rev) = L
  <2>1. rev \in [1 .. L -> Seq(Named)]
    BY <1>2, <1>3, <1>5, <1>6
  <2> QED
    BY <1>1, <2>1, SeqDef
<1> HIDE DEF rev
<1>9. Listed = FlattenSeq(rev)
  BY DEF Listed, rev, lists
<1>10. Listed \in Seq(Named) /\ \E block : Blocks(Listed, rev, L, block)
  BY <1>8, <1>9, FlattenIsBlocks
<1>11. PICK block : Blocks(Listed, rev, L, block)
  BY <1>10
<1>12. /\ block \in [1 .. Len(Listed) -> 1 .. L]
       /\ \A p, q \in 1 .. Len(Listed) : p <= q => block[p] <= block[q]
       /\ \A q \in 1 .. Len(Listed) : Listed[q] \in ToSet(rev[block[q]])
       /\ \A i \in 1 .. L : \A x \in ToSet(rev[i]) :
              \E q \in 1 .. Len(Listed) : block[q] = i /\ Listed[q] = x
  BY <1>11 DEF Blocks
<1> DEFINE from == [q \in 1 .. Len(Listed) |-> (L - block[q]) + 1]
<1>13. from \in [1 .. Len(Listed) -> DOMAIN messages]
  BY <1>1, <1>6, <1>12
<1>14. \A q \in 1 .. Len(Listed) : from[q] = (L - block[q]) + 1 /\ block[q] \in 1 .. L
  BY <1>12
<1> HIDE DEF from
<1>15. \A p, q \in 1 .. Len(Listed) : p <= q => from[q] <= from[p]
  BY <1>1, <1>12, <1>14
<1>16. \A q \in 1 .. Len(Listed) : Listed[q] \in ToSet(messages[from[q]].urls)
  BY <1>7, <1>12, <1>14
<1>17. ASSUME NEW i \in DOMAIN messages, NEW x \in ToSet(messages[i].urls)
       PROVE  \E q \in 1 .. Len(Listed) : from[q] = i /\ Listed[q] = x
  <2>1. /\ (L - i) + 1 \in 1 .. L /\ (L - ((L - i) + 1)) + 1 = i
    BY <1>1, <1>6
  <2>2. rev[(L - i) + 1] = messages[i].urls
    BY <1>7, <2>1
  <2>3. PICK q \in 1 .. Len(Listed) : block[q] = (L - i) + 1 /\ Listed[q] = x
    BY <1>12, <2>1, <2>2
  <2> QED
    BY <1>14, <2>1, <2>3
<1>18. NewestFirst(from)
  BY <1>13, <1>15, <1>16, <1>17 DEF NewestFirst
<1> QED
  BY <1>10, <1>18

\* Every variable of the hook has its type.
LEMMA TypeKept == TypeOK /\ [Next]_vars => TypeOK'
<1> SUFFICES ASSUME TypeOK, [Next]_vars PROVE TypeOK'
  OBVIOUS
<1> USE ImagesAssumption DEF TypeOK
<1>1. CASE UNCHANGED vars
  BY <1>1 DEF vars
<1>2. ASSUME NEW message \in Message, Say(message) PROVE TypeOK'
  BY <1>2, AppendProperties DEF Say
<1>3. CASE Scan
  <2>1. Listed \in Seq(Named)
    BY ListedIsNewestFirst
  <2>2. new_images' = <<>> /\ new_images' \in Seq(Urls) /\ Len(new_images') = 0
    BY <1>3, EmptySeq DEF Scan
  <2> QED
    BY <1>3, <2>1, <2>2 DEF Scan, Named
<1>4. CASE Skip \/ Download \/ DownloadFails
  <2> DEFINE x == Head(all_image_urls)
  <2>1. /\ Take /\ all_image_urls \in Seq(Named) /\ all_image_urls # <<>>
        /\ Len(new_images) < MAX_IMAGES
    BY <1>4 DEF Skip, Download, DownloadFails, Take, Named
  <2>2. x \in Named /\ Tail(all_image_urls) \in Seq(Named)
    BY <2>1, HeadTailProperties
  <2> HIDE DEF x
  <2>3. Download \/ DownloadFails => x \in Urls
    BY <2>2 DEF Download, DownloadFails, Named, x
  <2>4. new_images' \in Seq(Urls) /\ Len(new_images') <= MAX_IMAGES
    <3>1. CASE Download
      <4>1. /\ new_images' = Append(new_images, x) /\ x \in Urls
            /\ Len(new_images) \in Nat
        BY <2>3, <3>1, LenProperties DEF Download, x
      <4>2. new_images' \in Seq(Urls) /\ Len(new_images') = Len(new_images) + 1
        BY <4>1, AppendProperties
      <4> QED
        BY <2>1, <4>1, <4>2
    <3>2. CASE Skip \/ DownloadFails
      BY <3>2 DEF Skip, DownloadFails
    <3> QED
      BY <1>4, <3>1, <3>2
  <2>5. tried' \subseteq Urls
    BY <1>4, <2>3 DEF Skip, Download, DownloadFails, x
  <2> QED
    BY <2>1, <2>2, <2>4, <2>5 DEF Take, Named
<1>5. CASE Return
  <2>1. image_urls \o new_images \in Seq(Urls)
    BY <1>5, ConcatProperties DEF Return
  <2>2. all_image_urls' \in Seq(Urls \cup {None})
    BY <1>5, EmptySeq DEF Return
  <2> QED
    BY <1>5, <2>1, <2>2 DEF Return
<1> QED
  BY <1>1, <1>2, <1>3, <1>4, <1>5 DEF Next

\* How far the hook is in its list: the first p entries have been looked at.  Each of
\* them was nothing, is known or could not be downloaded, and what is new is among them.
LookedAt(p) ==
    /\ p \in 0 .. Len(Listed)
    /\ Len(all_image_urls) = Len(Listed) - p
    /\ \A q \in 1 .. Len(all_image_urls) : all_image_urls[q] = Listed[p + q]
    /\ \A q \in 1 .. p : \/ Listed[q] = None \/ Known(Listed[q])
                         \/ Listed[q] \in tried
    /\ \A x \in ToSet(new_images) : \E q \in 1 .. p : Listed[q] = x

InOrder == at = "fetch" => \E p : LookedAt(p)

\* Nothing has been looked at when the scan ends.
LEMMA ScanInOrder == TypeOK /\ Scan => InOrder'
<1> SUFFICES ASSUME TypeOK, Scan, at' = "fetch" PROVE LookedAt(0)'
  BY DEF InOrder
<1>1. /\ all_image_urls' = Listed /\ new_images' = <<>> /\ UNCHANGED messages
  BY DEF Scan
<1>2. Listed' = Listed
  BY <1>1 DEF Listed
<1>3. Len(Listed) \in Nat
  BY ListedIsNewestFirst, LenProperties DEF TypeOK
<1>4. ToSet(<<>>) = {}
  BY NothingYet
<1> QED
  BY <1>1, <1>2, <1>3, <1>4 DEF LookedAt

\* One more entry has been looked at.
LEMMA TakeInOrder == TypeOK /\ InOrder /\ (Skip \/ Download \/ DownloadFails) => InOrder'
<1> SUFFICES ASSUME TypeOK, InOrder, Skip \/ Download \/ DownloadFails PROVE InOrder'
  OBVIOUS
<1> DEFINE x == Head(all_image_urls)
<1>1. /\ at = "fetch" /\ all_image_urls # <<>> /\ all_image_urls' = Tail(all_image_urls)
      /\ UNCHANGED <<messages, image_urls, at>>
  BY DEF Skip, Download, DownloadFails, Take
<1>2. Listed' = Listed /\ Len(Listed) \in Nat
  BY <1>1, ListedIsNewestFirst, LenProperties DEF Listed, TypeOK
<1>3. PICK p : LookedAt(p)
  BY <1>1 DEF InOrder
<1>4. /\ p \in 0 .. Len(Listed) /\ Len(all_image_urls) = Len(Listed) - p
      /\ \A q \in 1 .. Len(all_image_urls) : all_image_urls[q] = Listed[p + q]
  BY <1>3 DEF LookedAt
<1>5. all_image_urls \in Seq(Named)
  BY DEF TypeOK, Named
<1>6. /\ Len(all_image_urls) \in Nat \ {0} /\ x = all_image_urls[1]
      /\ Len(all_image_urls') = Len(all_image_urls) - 1
      /\ \A q \in 1 .. Len(all_image_urls') : all_image_urls'[q] = all_image_urls[q + 1]
  BY <1>1, <1>5, EmptySeq, HeadTailProperties
<1>7. /\ p + 1 \in 0 .. Len(Listed) /\ x = Listed[p + 1]
      /\ Len(all_image_urls') = Len(Listed) - (p + 1)
  BY <1>2, <1>4, <1>6
<1>8. \A q \in 1 .. Len(all_image_urls') : all_image_urls'[q] = Listed[(p + 1) + q]
  <2> SUFFICES ASSUME NEW q \in 1 .. Len(all_image_urls')
               PROVE  all_image_urls'[q] = Listed[(p + 1) + q]
    OBVIOUS
  <2>1. q + 1 \in 1 .. Len(all_image_urls) /\ p + (q + 1) = (p + 1) + q
    BY <1>4, <1>6
  <2> QED
    BY <1>4, <1>6, <2>1
<1> HIDE DEF x
<1>9. /\ ToSet(new_images') \subseteq ToSet(new_images) \cup {x}
      /\ ToSet(new_images) \subseteq ToSet(new_images')
      /\ tried \subseteq tried'
      /\ x = None \/ x \in ToSet(image_urls) \cup ToSet(new_images') \/ x \in tried'
  <2>1. CASE Skip
    BY <2>1 DEF Skip, Known, x
  <2>2. CASE Download
    <3>1. new_images' = Append(new_images, x) /\ tried' = tried
      BY <2>2 DEF Download, x
    <3>2. ToSet(new_images') = ToSet(new_images) \cup {x}
      BY <3>1, AppendToSet DEF TypeOK
    <3> QED
      BY <3>1, <3>2
  <2>3. CASE DownloadFails
    BY <2>3 DEF DownloadFails, x
  <2> QED
    BY <2>1, <2>2, <2>3
<1>10. \A q : q \in 1 .. p + 1 <=> q \in 1 .. p \/ q = p + 1
  BY <1>2, <1>4
<1>11. \A q \in 1 .. p + 1 : \/ Listed[q] = None \/ Listed[q] \in tried'
                             \/ Listed[q] \in ToSet(image_urls) \cup ToSet(new_images')
  BY <1>1, <1>3, <1>7, <1>9, <1>10 DEF LookedAt, Known
<1>12. \A y \in ToSet(new_images') : \E q \in 1 .. p + 1 : Listed[q] = y
  BY <1>3, <1>7, <1>9, <1>10 DEF LookedAt
<1>13. LookedAt(p + 1)'
  BY <1>1, <1>2, <1>7, <1>8, <1>11, <1>12 DEF LookedAt, Known
<1> QED
  BY <1>13 DEF InOrder

\* What a call leaves out comes later in the list than what it has taken.
LEMMA ReturnsNewest ==
    ASSUME TypeOK, InOrder, Return, NEW url \in Missed
    PROVE  /\ Len(new_images) = MAX_IMAGES
           /\ \A other \in ToSet(new_images) :
                  \A i \in Listing(url) : \E j \in Listing(other) : i <= j
<1>1. PICK p : LookedAt(p)
  BY DEF InOrder, Return
<1>2. PICK from : NewestFirst(from)
  BY ListedIsNewestFirst DEF TypeOK
<1>3. Listed \in Seq(Named) /\ Len(Listed) \in Nat /\ p \in 0 .. Len(Listed)
  BY <1>1, ListedIsNewestFirst, LenProperties DEF TypeOK, LookedAt
<1>4. url # None /\ ~Known(url) /\ url \notin tried /\ Listing(url) # {}
  BY ImagesAssumption DEF Missed
<1>5. ASSUME NEW i \in Listing(url)
      PROVE  \E q \in 1 .. Len(Listed) : from[q] = i /\ q > p
  <2>1. i \in DOMAIN messages /\ url \in ToSet(messages[i].urls)
    BY DEF Listing
  <2>2. PICK q \in 1 .. Len(Listed) : from[q] = i /\ Listed[q] = url
    BY <1>2, <2>1 DEF NewestFirst
  <2>3. q \notin 1 .. p
    BY <1>1, <1>4, <2>2 DEF LookedAt
  <2> QED
    BY <1>3, <2>2, <2>3
<1>6. Len(new_images) = MAX_IMAGES
  <2>1. Len(Listed) - p > 0
    BY <1>3, <1>4, <1>5
  <2>2. all_image_urls # <<>>
    BY <1>1, <2>1, EmptySeq DEF LookedAt
  <2>3. Len(new_images) >= MAX_IMAGES /\ Len(new_images) <= MAX_IMAGES
        /\ Len(new_images) \in Nat /\ MAX_IMAGES \in Nat
    BY <2>2, LenProperties, ImagesAssumption DEF Return, TypeOK
  <2> QED
    BY <2>3
<1>7. ASSUME NEW other \in ToSet(new_images), NEW i \in Listing(url)
      PROVE  \E j \in Listing(other) : i <= j
  <2>1. PICK q \in 1 .. p : Listed[q] = other
    BY <1>1 DEF LookedAt
  <2>2. PICK r \in 1 .. Len(Listed) : from[r] = i /\ r > p
    BY <1>5
  <2>3. q \in 1 .. Len(Listed) /\ q <= r
    BY <1>3, <2>2
  <2>4. from[r] <= from[q]
    BY <1>2, <2>3 DEF NewestFirst
  <2>5. from[q] \in DOMAIN messages /\ other \in ToSet(messages[from[q]].urls)
    BY <1>2, <2>1, <2>3 DEF NewestFirst
  <2>6. from[q] \in Listing(other)
    BY <2>5 DEF Listing
  <2> QED
    BY <2>2, <2>4, <2>6
<1> QED
  BY <1>6, <1>7

\* The hook's variables have their types, and a call downloads at most MAX_IMAGES.
THEOREM Typing == Spec => []TypeOK
<1>1. Init => TypeOK
  BY EmptySeq, ImagesAssumption DEF Init, TypeOK
<1> QED
  BY <1>1, TypeKept, PTL DEF Spec

\* A call leaves out only what comes later in the list than all it has taken, and it
\* has then taken as many different images as the limit allows.
THEOREM NewestComeFirst == Spec => NewestImagesFirst
<1>1. Init => TypeOK /\ InOrder /\ Apart
  BY EmptySeq, ImagesAssumption DEF Init, TypeOK, InOrder, Apart
<1>2. TypeOK /\ InOrder /\ Apart /\ [Next]_vars => TypeOK' /\ InOrder' /\ Apart'
  <2> SUFFICES ASSUME TypeOK, InOrder, [Next]_vars PROVE InOrder'
    BY TypeKept, StaysApart
  <2>1. CASE UNCHANGED vars
    <3>1. Listed' = Listed
      BY <2>1 DEF vars, Listed
    <3> QED
      BY <2>1, <3>1 DEF vars, InOrder, LookedAt, Known
  <2>2. CASE (\E message \in Message : Say(message)) \/ Return
    BY <2>2 DEF Say, Return, InOrder
  <2> QED
    BY <2>1, <2>2, ScanInOrder, TakeInOrder DEF Next
<1>3. TypeOK /\ InOrder /\ Apart /\ Return => IsInjective(new_images)
  BY DEF Apart, Return
<1>4. TypeOK /\ InOrder /\ Apart /\ [Next]_vars =>
        [Return => \A url \in Missed :
           /\ Len(new_images) = MAX_IMAGES /\ IsInjective(new_images)
           /\ \A other \in ToSet(new_images) :
                  \A i \in Listing(url) : \E j \in Listing(other) : i <= j]_vars
  BY <1>3, ReturnsNewest
<1> QED
  BY <1>1, <1>2, <1>4, PTL DEF Spec, NewestImagesFirst

===============================================================================
