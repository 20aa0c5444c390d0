--------------------------- MODULE ArtifactsProofs ---------------------------
(* Theorems about Artifacts for replies of every length.                   *)
EXTENDS Artifacts, FiniteSetTheorems, TLAPS

LEMMA TypeStep == TypeOK /\ [Next]_vars => TypeOK'
<1> SUFFICES ASSUME TypeOK, [Next]_vars PROVE TypeOK'
    OBVIOUS
<1> USE LinesOK DEF TypeOK, Artifact
<1>1. CASE Call
  <2>1. PICK n \in 0 .. MaxLines : response' \in [1 .. n -> Lines]
        BY <1>1 DEF Call, Replies
  <2>2. response' \in Seq(Lines) /\ Len(response') = n
        BY <2>1
  <2> QED BY <1>1, <2>1, <2>2 DEF Call
<1>2. CASE SkipShort
      BY <1>2 DEF SkipShort, BehindMatch, Positions
<1>3. CASE Push
  <2>1. PICK i, j \in Positions : /\ lastIndex' = BehindMatch(j)
                                  /\ index' = index + 1
                                  /\ artifacts' = Append(artifacts,
                                       [number |-> index + 1, opening |-> i, closing |-> j])
        BY <1>3 DEF Push
  <2>2. [number |-> index + 1, opening |-> i, closing |-> j] \in Artifact
        BY DEF Positions
  <2>3. artifacts' \in Seq(Artifact) /\ index' = Len(artifacts')
        BY <2>1, <2>2
  <2> QED BY <1>3, <2>1, <2>3 DEF Push, BehindMatch, Positions
<1>4. CASE Return
      BY <1>4 DEF Return
<1>6. CASE Take
  <2>1. <<>> \in Seq(Lines) /\ <<>> \in Seq(Artifact) /\ Len(<<>>) = 0
        OBVIOUS
  <2> QED BY <1>6, <2>1 DEF Take
<1>5. CASE UNCHANGED vars
      BY <1>5 DEF vars
<1> QED BY <1>1, <1>2, <1>3, <1>4, <1>5, <1>6 DEF Next

(* Only Push adds a file, and it starts behind the last one's end.         *)
LEMMA ApartStep == Apart /\ [Next]_vars => Apart'
<1> SUFFICES ASSUME Apart, [Next]_vars PROVE Apart'
    OBVIOUS
<1>0. TypeOK'
      BY TypeStep DEF Apart
<1> USE DEF Apart, TypeOK, ArtifactsAreApart, WalkInv
<1>1. CASE Push
  <2> DEFINE n == Len(artifacts)
  <2>1. PICK i \in Positions, j \in Positions :
            /\ IsMatch(i, j) /\ ~ TooShort(i, j)
            /\ lastIndex' = BehindMatch(j)
            /\ artifacts' = Append(artifacts,
                  [number |-> index + 1, opening |-> i, closing |-> j])
        BY <1>1 DEF Push
  <2>2. /\ lastIndex < i /\ i < j /\ j <= Len(response)
        /\ \A l \in i + 1 .. j - 1 : ~ IsFence(l)
        BY <2>1 DEF IsMatch, Positions
  <2>3. /\ n \in Nat /\ DOMAIN artifacts = 1 .. n /\ DOMAIN artifacts' = 1 .. n + 1
        /\ Len(artifacts') = n + 1
        /\ \A k \in 1 .. n : artifacts'[k] = artifacts[k]
        /\ artifacts'[n + 1] = [number |-> n + 1, opening |-> i, closing |-> j]
        BY <2>1
  <2>4. response' = response
        BY <1>1 DEF Push
  <2>5. \A k \in 1 .. n : artifacts[k].closing < i
    <3>1. ASSUME NEW k \in 1 .. n PROVE artifacts[k].closing < i
      <4>1. artifacts[k] \in Artifact
            BY <2>3
      <4>2. artifacts[k].closing \in Nat /\ lastIndex \in Nat /\ i \in Nat
            BY <4>1 DEF Artifact, Positions
      <4>3. artifacts[k].closing <= lastIndex
            BY <1>1, <2>3 DEF Push
      <4> QED BY <2>2, <4>2, <4>3
    <3> QED BY <3>1
  <2>6. ArtifactsAreApart'
    <3> SUFFICES ASSUME NEW k \in 1 .. n + 1
                 PROVE  LET a == artifacts'[k]
                        IN  /\ a.number = k
                            /\ a.opening < a.closing /\ a.closing <= Len(response)
                            /\ \A l \in a.opening + 1 .. a.closing - 1 : ~ IsFence(l)
                            /\ ~ TooShort(a.opening, a.closing)
                            /\ \A m \in k + 1 .. n + 1 : a.closing < artifacts'[m].opening
        BY <2>3, <2>4 DEF IsFence, TooShort
    <3>1. CASE k = n + 1
          BY <2>1, <2>2, <2>3, <3>1
    <3>2. CASE k # n + 1
      <4>1. k \in 1 .. n /\ artifacts'[k] = artifacts[k]
            BY <2>3, <3>2
      <4>2. ASSUME NEW m \in k + 1 .. n + 1
            PROVE  artifacts[k].closing < artifacts'[m].opening
        <5>1. CASE m = n + 1
              BY <2>3, <2>5, <4>1, <5>1
        <5>2. CASE m # n + 1
              BY <2>3, <4>1, <5>2
        <5> QED BY <5>1, <5>2
      <4> QED BY <2>3, <4>1, <4>2
    <3> QED BY <3>1, <3>2
  <2>7. WalkInv'
    <3> SUFFICES ASSUME NEW k \in 1 .. n + 1 PROVE artifacts'[k].closing <= j
        BY <2>1, <2>3 DEF BehindMatch
    <3>1. CASE k = n + 1
          BY <2>3, <3>1 DEF Positions
    <3>2. CASE k # n + 1
      <4>1. k \in 1 .. n /\ artifacts'[k] = artifacts[k] /\ artifacts[k] \in Artifact
            BY <2>3, <3>2
      <4>2. artifacts[k].closing \in Nat /\ artifacts[k].closing < i
            BY <2>5, <4>1 DEF Artifact
      <4> QED BY <2>2, <4>1, <4>2 DEF Positions
    <3> QED BY <3>1, <3>2
  <2> QED BY <1>0, <2>6, <2>7
<1>2. CASE SkipShort
  <2>1. PICK i, j \in Positions : IsMatch(i, j) /\ lastIndex' = j
        BY <1>2 DEF SkipShort, BehindMatch
  <2>2. lastIndex < j
        BY <2>1 DEF IsMatch, Positions
  <2>3. UNCHANGED <<pc, response, index, artifacts>> /\ pc = "exec"
        BY <1>2 DEF SkipShort
  <2>4. ArtifactsAreApart'
        BY <2>3 DEF IsFence, TooShort
  <2>5. ASSUME NEW k \in DOMAIN artifacts PROVE artifacts[k].closing <= j
    <3>1. artifacts[k] \in Artifact /\ artifacts[k].closing <= lastIndex
          BY <2>3
    <3> QED BY <2>1, <2>2, <3>1 DEF Artifact, Positions
  <2> QED BY <1>0, <2>1, <2>3, <2>4, <2>5
<1>3. CASE Call \/ Return \/ Take
      BY <1>0, <1>3 DEF Call, Return, Take, IsFence, TooShort
<1>4. CASE UNCHANGED vars
      BY <1>0, <1>4 DEF vars, IsFence, TooShort
<1> QED BY <1>1, <1>2, <1>3, <1>4 DEF Next

-----------------------------------------------------------------------------
(* The blocks of a reply, line by line.                                    *)

\* A set of numbers has a least one.
LEMMA Least ==
    ASSUME NEW T, T \subseteq Nat, T # {}
    PROVE  \E x \in T : \A y \in T : x <= y
<1> DEFINE R == OpToRel(<, Nat)
<1>1. IsWellFoundedOn(R, Nat)
      BY NatLessThanWellFounded
<1>2. \A x, y \in Nat : <<y, x>> \in R <=> y < x
      BY DEF OpToRel
<1> HIDE DEF R
<1>3. PICK x \in T : \A y \in T : ~ (<<y, x>> \in R)
      BY <1>1, WFMin
<1>4. ASSUME NEW y \in T PROVE x <= y
  <2>1. x \in Nat /\ y \in Nat /\ ~ (<<y, x>> \in R)
        BY <1>3
  <2>2. ~ (y < x)
        BY <1>2, <2>1
  <2> QED BY <2>1, <2>2
<1> QED BY <1>4

\* f has the value c from a to b / keeps it from one place to the next.
Has(f, c, a, b) == \A i \in a .. b : f[i] = c
Keeps(f, c, a, b) == \A i \in a + 1 .. b : f[i - 1] = c => f[i] = c

LEMMA Stays ==
    ASSUME NEW f, NEW c, NEW a \in Nat, NEW b \in Nat,
           f[a] = c, Keeps(f, c, a, b)
    PROVE  Has(f, c, a, b)
<1> USE DEF Has, Keeps
<1> DEFINE Off == {i \in a .. b : f[i] # c}
<1> SUFFICES ASSUME Off # {} PROVE FALSE
    OBVIOUS
<1>1. PICK x \in Off : \A y \in Off : x <= y
  <2>1. Off \subseteq Nat
        OBVIOUS
  <2> HIDE DEF Off
  <2> QED BY <2>1, Least
<1>2. x \in a .. b /\ f[x] # c /\ x # a
      BY <1>1
<1>3. x - 1 \in a .. b /\ ~ (x <= x - 1) /\ x \in a + 1 .. b
      BY <1>2
<1>4. f[x - 1] = c
      BY <1>1, <1>3
<1> QED BY <1>2, <1>3, <1>4

\* The opening behind line i, given the one behind the line before.
Follows(reply, i, before) ==
    IF i = 0 THEN 0
    ELSE IF before = 0 /\ reply[i].fence # "none" THEN i
    ELSE IF reply[i].fence = "bare" THEN 0
    ELSE before

\* The recursion of OpenedAt has a solution, so OpenedAt is one.
LEMMA OpenedAtEquation ==
    ASSUME NEW reply \in Seq(Lines)
    PROVE  OpenedAt(reply) = [i \in 0 .. Len(reply) |->
                                Follows(reply, i, OpenedAt(reply)[i - 1])]
<1> DEFINE n == Len(reply)
           Solves(g, m) == \A i \in 0 .. m : g[i] = Follows(reply, i, g[i - 1])
           Far == {m \in 0 .. n : ~ \E g \in [0 .. n -> Nat] : Solves(g, m)}
<1>0. n \in Nat
      OBVIOUS
<1>1. Far = {}
  <2> SUFFICES ASSUME Far # {} PROVE FALSE
      OBVIOUS
  <2>1. PICK m \in Far : \A k \in Far : m <= k
    <3>1. Far \subseteq Nat
          BY <1>0
    <3> HIDE DEF Far
    <3> QED BY <3>1, Least
  <2>2. CASE m = 0
    <3> DEFINE g == [i \in 0 .. n |-> 0]
    <3>1. g \in [0 .. n -> Nat] /\ Solves(g, m)
          BY <1>0, <2>2 DEF Follows
    <3> QED BY <2>1, <3>1
  <2>3. CASE m # 0
    <3>1. m - 1 \in 0 .. n /\ m \in 1 .. n /\ ~ (m <= m - 1)
          BY <1>0, <2>1, <2>3
    <3>2. PICK g \in [0 .. n -> Nat] : Solves(g, m - 1)
      <4>1. m - 1 \notin Far
        <5> HIDE DEF Far
        <5> QED BY <2>1, <3>1
      <4> HIDE DEF Solves
      <4> QED BY <3>1, <4>1
    <3>a. g[m - 1] \in Nat
          BY <3>1, <3>2
    <3> DEFINE v == Follows(reply, m, g[m - 1])
               h == [i \in 0 .. n |-> IF i = m THEN v ELSE g[i]]
    <3>3. v \in Nat
          BY <3>1, <3>a DEF Follows
    <3>4. h \in [0 .. n -> Nat]
          BY <3>2, <3>3
    <3>5. ASSUME NEW i \in 0 .. m PROVE h[i] = Follows(reply, i, h[i - 1])
      <4>1. CASE i = m
            BY <3>1, <4>1
      <4>2. CASE i # m /\ i # 0
        <5>1. i \in 0 .. m - 1 /\ i \in 0 .. n /\ i - 1 \in 0 .. n /\ i - 1 # m
              BY <1>0, <3>1, <4>2
        <5> QED BY <3>2, <4>2, <5>1
      <4>3. CASE i # m /\ i = 0
            BY <1>0, <3>1, <3>2, <4>3 DEF Follows
      <4> QED BY <4>1, <4>2, <4>3
    <3> QED BY <2>1, <3>4, <3>5
  <2> QED BY <2>2, <2>3
<1>2. PICK g \in [0 .. n -> Nat] : Solves(g, n)
      BY <1>0, <1>1
<1>3. g = [i \in 0 .. n |-> Follows(reply, i, g[i - 1])]
      BY <1>2
<1> QED BY <1>3 DEF OpenedAt, Follows

LEMMA OpenedAtLine ==
    ASSUME NEW reply \in Seq(Lines)
    PROVE  /\ OpenedAt(reply)[0] = 0
           /\ \A i \in 1 .. Len(reply) :
                 OpenedAt(reply)[i] = Follows(reply, i, OpenedAt(reply)[i - 1])
<1> DEFINE O == OpenedAt(reply)
<1>1. O = [i \in 0 .. Len(reply) |-> Follows(reply, i, O[i - 1])]
      BY OpenedAtEquation
<1> HIDE DEF O
<1>2. O[0] = 0 /\ \A i \in 1 .. Len(reply) : O[i] = Follows(reply, i, O[i - 1])
      BY <1>1 DEF Follows
<1> QED BY <1>2 DEF O

\* A plain reply up to its next opening fence, from between two blocks.
LEMMA PlainUntilOpening ==
    ASSUME response \in Seq(Lines), Plain,
           NEW from \in Nat, OpenedAt(response)[from] = 0,
           NEW to \in Nat, to <= Len(response),
           \A l \in from + 1 .. to : ~ Opens(l)
    PROVE  \A l \in from .. to : OpenedAt(response)[l] = 0
<1> DEFINE O == OpenedAt(response)
<1>1. ASSUME NEW l \in from + 1 .. to, O[l - 1] = 0 PROVE O[l] = 0
  <2>1. l \in Positions /\ l \in 1 .. Len(response) /\ ~ Opens(l)
        BY DEF Positions
  <2>2. response[l].fence = "none"
        BY <2>1, LinesOK DEF Plain, Opens
  <2>3. O[l] = Follows(response, l, O[l - 1])
        BY <2>1, OpenedAtLine
  <2> QED BY <1>1, <2>1, <2>2, <2>3 DEF Follows
<1> HIDE DEF O
<1>2. \A l \in from .. to : O[l] = 0
  <2>1. O[from] = 0
        BY DEF O
  <2>2. Keeps(O, 0, from, to)
        BY <1>1 DEF Keeps
  <2>3. Has(O, 0, from, to)
        BY <2>1, <2>2, Stays
  <2> QED BY <2>3 DEF Has
<1> QED BY <1>2 DEF O

\* An opening fence, and the block behind it up to the next fence.
LEMMA BlockStaysOpen ==
    ASSUME response \in Seq(Lines),
           NEW i \in Positions, Opens(i), OpenedAt(response)[i - 1] = 0,
           NEW to \in Nat, to <= Len(response),
           \A l \in i + 1 .. to : ~ IsFence(l)
    PROVE  \A l \in i .. to : OpenedAt(response)[l] = i
<1> DEFINE O == OpenedAt(response)
<1>1. O[i] = i /\ i \in Nat
      BY OpenedAtLine DEF Follows, Opens, Positions
<1>2. ASSUME NEW l \in i + 1 .. to, O[l - 1] = i PROVE O[l] = i
  <2>1. l \in 1 .. Len(response) /\ i # 0 /\ response[l].fence = "none" /\ l # 0
        BY DEF Positions, IsFence
  <2>2. O[l] = Follows(response, l, O[l - 1])
        BY <2>1, OpenedAtLine
  <2> QED BY <1>2, <2>1, <2>2 DEF Follows
<1> HIDE DEF O
<1>3. \A l \in i .. to : O[l] = i
  <2>1. Keeps(O, i, i, to)
        BY <1>2 DEF Keeps
  <2>2. Has(O, i, i, to)
        BY <1>1, <2>1, Stays
  <2> QED BY <2>2 DEF Has
<1> QED BY <1>3 DEF O

-----------------------------------------------------------------------------
(* The files of a plain reply.                                             *)

\* A step that finds a block: the only one between the two positions.
LEMMA NextBlock ==
    ASSUME TypeOK, Plain, OpenedAt(response)[lastIndex] = 0,
           NEW i \in Positions, NEW j \in Positions, IsMatch(i, j)
    PROVE  /\ OpenedAt(response)[j] = 0 /\ lastIndex < j
           /\ \A b \in CodeBlocks : b[2] <= j <=> b[2] <= lastIndex \/ b = <<i, j>>
           /\ <<i, j>> \in CodeBlocks
<1> DEFINE O == OpenedAt(response)
<1>1. /\ lastIndex \in Nat /\ lastIndex < i /\ i < j /\ j <= Len(response)
      /\ i \in Nat /\ j \in Nat /\ i # 0 /\ Len(response) \in Nat
      /\ Opens(i) /\ IsFence(j) /\ response \in Seq(Lines)
      /\ \A l \in lastIndex + 1 .. i - 1 : ~ Opens(l)
      /\ \A l \in i + 1 .. j - 1 : ~ IsFence(l)
      BY DEF TypeOK, IsMatch, Positions
<1>2. \A l \in lastIndex .. i - 1 : O[l] = 0
  <2>1. i - 1 \in Nat /\ i - 1 <= Len(response)
        BY <1>1
  <2> QED BY <1>1, <2>1, PlainUntilOpening
<1>3. O[i - 1] = 0
      BY <1>1, <1>2
<1>4. \A l \in i .. j - 1 : O[l] = i
  <2>1. j - 1 \in Nat /\ j - 1 <= Len(response)
        BY <1>1
  <2> QED BY <1>1, <1>3, <2>1, BlockStaysOpen
<1>5. O[j - 1] = i
      BY <1>1, <1>4
<1>6. response[j].fence = "bare"
      BY <1>1, <1>5, LinesOK DEF Plain, IsFence, Positions
<1>7. O[j] = 0
  <2>1. O[j] = Follows(response, j, O[j - 1])
        BY <1>1, OpenedAtLine
  <2> QED BY <1>1, <1>5, <1>6, <2>1 DEF Follows
<1> HIDE DEF O
<1>8. CodeBlocks = {b \in Positions \X Positions :
                       b[1] < b[2] /\ O[b[2] - 1] = b[1] /\ O[b[2]] = 0}
      BY DEF CodeBlocks, O
<1>9. <<i, j>> \in CodeBlocks
      BY <1>1, <1>5, <1>7, <1>8
<1>10. ASSUME NEW b \in CodeBlocks, b[2] <= j, ~ (b[2] <= lastIndex)
       PROVE  b = <<i, j>>
  <2>1. /\ b = <<b[1], b[2]>> /\ b[1] \in Nat /\ b[1] # 0 /\ b[2] \in Nat
        /\ O[b[2] - 1] = b[1] /\ O[b[2]] = 0
        BY <1>8 DEF Positions
  <2>2. ~ (b[2] - 1 \in lastIndex .. i - 1)
        BY <1>2, <2>1
  <2>3. ~ (b[2] \in i .. j - 1)
        BY <1>1, <1>4, <2>1
  <2>4. b[2] = j
        BY <1>1, <1>10, <2>1, <2>2, <2>3
  <2> QED BY <1>5, <2>1, <2>4
<1>11. ASSUME NEW b \in CodeBlocks, b[2] <= lastIndex PROVE b[2] <= j
       BY <1>1, <1>8, <1>11 DEF Positions
<1> QED BY <1>1, <1>7, <1>9, <1>10, <1>11 DEF O

\* When nothing matches any more, no block ends behind the position.
LEMMA NoBlockLeft ==
    ASSUME TypeOK, Plain, OpenedAt(response)[lastIndex] = 0,
           \A i, j \in Positions : ~ IsMatch(i, j)
    PROVE  \A b \in CodeBlocks : b[2] <= lastIndex
<1> DEFINE O == OpenedAt(response)
           n == Len(response)
           Openings == {l \in lastIndex + 1 .. n : Opens(l)}
<1>1. lastIndex \in Nat /\ n \in Nat /\ lastIndex <= n /\ response \in Seq(Lines)
      BY DEF TypeOK
<1> SUFFICES ASSUME NEW b \in CodeBlocks, ~ (b[2] <= lastIndex) PROVE FALSE
    OBVIOUS
<1>2. /\ b[1] \in 1 .. n /\ b[2] \in lastIndex + 1 .. n
      /\ O[b[2] - 1] = b[1] /\ O[b[2]] = 0
      BY <1>1 DEF CodeBlocks, Positions
<1>3. CASE Openings = {}
  <2>1. \A l \in lastIndex .. n : O[l] = 0
        BY <1>1, <1>3, PlainUntilOpening
  <2>2. b[2] - 1 \in lastIndex .. n
        BY <1>1, <1>2
  <2> HIDE DEF O
  <2> QED BY <1>2, <2>1, <2>2
<1>4. CASE Openings # {}
  <2>1. PICK i \in Openings : \A l \in Openings : i <= l
    <3>1. Openings \subseteq Nat
          BY <1>1
    <3> HIDE DEF Openings
    <3> QED BY <1>4, <3>1, Least
  <2>2. /\ i \in Positions /\ i \in Nat /\ lastIndex < i /\ i <= n /\ Opens(i)
        /\ \A l \in lastIndex + 1 .. i - 1 : ~ Opens(l)
        BY <1>1, <2>1 DEF Positions
  <2>3. \A l \in lastIndex .. i - 1 : O[l] = 0
    <3>1. i - 1 \in Nat /\ i - 1 <= Len(response)
          BY <1>1, <2>2
    <3> QED BY <1>1, <2>2, <3>1, PlainUntilOpening
  <2>4. O[i - 1] = 0
        BY <1>1, <2>2, <2>3
  <2> DEFINE Closings == {l \in i + 1 .. n : IsFence(l)}
  <2>5. CASE Closings = {}
    <3>1. \A l \in i .. n : O[l] = i
          BY <1>1, <2>2, <2>4, <2>5, BlockStaysOpen
    <3> HIDE DEF O
    <3>2. ~ (b[2] - 1 \in lastIndex .. i - 1)
          BY <1>1, <1>2, <2>3
    <3>3. ~ (b[2] \in i .. n)
          BY <1>1, <1>2, <2>2, <3>1
    <3> QED BY <1>1, <1>2, <2>2, <3>2, <3>3
  <2>6. CASE Closings # {}
    <3>1. PICK j \in Closings : \A l \in Closings : j <= l
      <4>1. Closings \subseteq Nat
            BY <1>1, <2>2
      <4> HIDE DEF Closings
      <4> QED BY <2>6, <4>1, Least
    <3>2. /\ j \in Positions /\ i < j /\ IsFence(j)
          /\ \A l \in i + 1 .. j - 1 : ~ IsFence(l)
          BY <1>1, <2>2, <3>1 DEF Positions
    <3> QED BY <2>2, <3>2 DEF IsMatch
  <2> QED BY <2>5, <2>6
<1> QED BY <1>3, <1>4

LEMMA PlainStep == IInv /\ [Next]_vars => PlainInv'
<1> SUFFICES ASSUME IInv, [Next]_vars PROVE PlainInv'
    OBVIOUS
<1> DEFINE Blocks(k) == {b \in LongBlocks : b[2] <= k}
<1>0. TypeOK /\ PlainInv
      BY DEF IInv, Apart
<1>1. response' = response => /\ Plain' = Plain /\ LongBlocks' = LongBlocks
                              /\ OpenedAt(response)' = OpenedAt(response)
      BY DEF Plain, LongBlocks, CodeBlocks, Positions, TooShort
<1>2. artifacts' = artifacts => Filed' = Filed
      BY DEF Filed
<1>3. CASE pc = "exec" /\ ~ Plain /\ response' = response
      BY <1>1, <1>3 DEF PlainInv, PlainRepliesAreFiled
<1>4. ASSUME Plain, NEW i \in Positions, NEW j \in Positions, IsMatch(i, j),
             pc = "exec"
      PROVE  /\ OpenedAt(response)[j] = 0 /\ <<i, j>> \in CodeBlocks
             /\ \A b \in CodeBlocks : b[2] <= j <=> b[2] <= lastIndex \/ b = <<i, j>>
             /\ Filed = Blocks(lastIndex)
      BY <1>0, <1>4, NextBlock DEF PlainInv
<1>5. CASE Push /\ Plain
  <2>1. PICK i \in Positions, j \in Positions :
            /\ IsMatch(i, j) /\ ~ TooShort(i, j)
            /\ lastIndex' = j
            /\ artifacts' = Append(artifacts,
                  [number |-> index + 1, opening |-> i, closing |-> j])
        BY <1>5 DEF Push, BehindMatch
  <2>2. Filed' = Filed \cup {<<i, j>>}
    <3> DEFINE n == Len(artifacts)
    <3>1. /\ n \in Nat /\ DOMAIN artifacts = 1 .. n /\ DOMAIN artifacts' = 1 .. n + 1
          /\ \A k \in 1 .. n : artifacts'[k] = artifacts[k]
          /\ artifacts'[n + 1] = [number |-> index + 1, opening |-> i, closing |-> j]
          BY <1>0, <2>1 DEF TypeOK
    <3>2. 1 .. n + 1 = 1 .. n \cup {n + 1}
          BY <3>1
    <3> HIDE DEF n
    <3> QED BY <3>1, <3>2 DEF Filed
  <2>3. pc = "exec" /\ pc' = "exec" /\ response' = response
        BY <1>5 DEF Push
  <2>4. <<i, j>> \in LongBlocks
        BY <1>4, <1>5, <2>1, <2>3 DEF LongBlocks
  <2>5. Blocks(j) = Blocks(lastIndex) \cup {<<i, j>>}
        BY <1>4, <1>5, <2>1, <2>3, <2>4 DEF LongBlocks
  <2>6. Filed' = Blocks(j) /\ OpenedAt(response)[j] = 0
        BY <1>4, <1>5, <2>1, <2>2, <2>3, <2>5
  <2> QED BY <1>1, <2>1, <2>3, <2>6 DEF PlainInv, PlainRepliesAreFiled
<1>6. CASE SkipShort /\ Plain
  <2>1. PICK i \in Positions, j \in Positions :
            /\ IsMatch(i, j) /\ TooShort(i, j)
            /\ lastIndex' = j
        BY <1>6 DEF SkipShort, BehindMatch
  <2>2. pc = "exec" /\ pc' = "exec" /\ response' = response /\ artifacts' = artifacts
        BY <1>6 DEF SkipShort
  <2>3. <<i, j>> \notin LongBlocks
        BY <2>1 DEF LongBlocks
  <2>4. Blocks(j) = Blocks(lastIndex)
        BY <1>4, <1>6, <2>1, <2>2, <2>3 DEF LongBlocks
  <2>5. Filed' = Blocks(j) /\ OpenedAt(response)[j] = 0
        BY <1>2, <1>4, <1>6, <2>1, <2>2, <2>4
  <2> QED BY <1>1, <2>1, <2>2, <2>5 DEF PlainInv, PlainRepliesAreFiled
<1>7. CASE Return /\ Plain
  <2>1. \A b \in CodeBlocks : b[2] <= lastIndex
        BY <1>0, <1>7, NoBlockLeft DEF Return, PlainInv
  <2>2. Blocks(lastIndex) = LongBlocks
        BY <2>1 DEF LongBlocks
  <2>3. Filed = LongBlocks
        BY <1>0, <1>7, <2>2 DEF Return, PlainInv
  <2> QED BY <1>1, <1>2, <1>7, <2>3 DEF Return, PlainInv, PlainRepliesAreFiled
<1>8. CASE Call
  <2>1. TypeOK' /\ pc' = "exec" /\ lastIndex' = 0 /\ artifacts' = <<>>
        BY <1>0, <1>8, TypeStep DEF Call
  <2>2. OpenedAt(response')[0] = 0
        BY <2>1, OpenedAtLine DEF TypeOK
  <2>3. Filed' = {}
        BY <2>1 DEF Filed
  <2>4. ASSUME NEW b \in LongBlocks' PROVE ~ (b[2] <= 0)
        BY <2>4 DEF LongBlocks, CodeBlocks, Positions
  <2> QED BY <2>1, <2>2, <2>3, <2>4 DEF PlainInv, PlainRepliesAreFiled
<1>9. CASE Take
      BY <1>9 DEF Take, PlainInv, PlainRepliesAreFiled
<1>10. CASE UNCHANGED vars
       BY <1>0, <1>1, <1>2, <1>10 DEF vars, PlainInv, PlainRepliesAreFiled
<1> QED BY <1>3, <1>5, <1>6, <1>7, <1>8, <1>9, <1>10
    DEF Next, Push, SkipShort, Return

THEOREM Invariance == Spec => []IInv
<1>1. Init => TypeOK /\ ArtifactsAreApart /\ WalkInv
      BY LinesOK DEF Init, TypeOK, ArtifactsAreApart, WalkInv
<1>2. Init => PlainInv
      BY DEF Init, PlainInv, PlainRepliesAreFiled
<1>3. IInv /\ [Next]_vars => IInv'
      BY ApartStep, PlainStep DEF IInv
<1> QED BY <1>1, <1>2, <1>3, PTL DEF Spec, IInv, Apart

(* Type correctness.                                                       *)
THEOREM TypeCorrect == Spec => []TypeOK
<1>1. IInv => TypeOK
      BY DEF IInv, Apart
<1> QED BY <1>1, Invariance, PTL

(* The files of any reply are numbered in its order and do not overlap.    *)
THEOREM FilesAreApart == Spec => []ArtifactsAreApart
<1>1. IInv => ArtifactsAreApart
      BY DEF IInv, Apart
<1> QED BY <1>1, Invariance, PTL

(* The files of a plain reply of any length are its code blocks.           *)
THEOREM PlainFilesAreBlocks == Spec => []PlainRepliesAreFiled
<1>1. IInv => PlainRepliesAreFiled
      BY DEF IInv, PlainInv
<1> QED BY <1>1, Invariance, PTL
=============================================================================
