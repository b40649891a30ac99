---------------------------- MODULE ChunkedProofs ----------------------------
(***************************************************************************)
(* Proofs about the decoding of chunked responses, for every response      *)
(* whose size lines are right, every way of cutting it into packets, and   *)
(* any number of packets.                                                  *)
(*                                                                         *)
(* The response is built by recursion over its chunks.  What the recursive *)
(* functions compute is proved from the well-foundedness of < on Nat, with *)
(* sets and functions in the place of the predicates and operators that    *)
(* the induction theorems of the library take.                             *)
(***************************************************************************)
EXTENDS ChunkedBody, SequenceTheorems, WellFoundedInduction, TLAPS

-----------------------------------------------------------------------------
(* Induction and recursion. *)

(* What holds of 0 and of every next number up to n holds up to n. *)
LEMMA UpTo ==
  ASSUME NEW n \in Nat, NEW T, 0 \in T, \A j \in 1 .. n : j - 1 \in T => j \in T
  PROVE  \A j \in 0 .. n : j \in T
<1>. DEFINE R == OpToRel(<, Nat)
            U == (0 .. n) \ T
<1>. SUFFICES ASSUME U # {} PROVE FALSE
  OBVIOUS
<1>1. PICK x \in U : \A y \in U : ~(<<y, x>> \in R)
  <2>1. IsWellFoundedOn(R, Nat)
    BY NatLessThanWellFounded, Zenon
  <2>2. U \subseteq Nat
    OBVIOUS
  <2>. HIDE DEF R, U
  <2>. QED  BY <2>1, <2>2, WFMin
<1>2. \A k, m \in Nat : k < m => <<k, m>> \in R
  BY Zenon DEF OpToRel
<1>. HIDE DEF R
<1>3. x \in 1 .. n /\ x - 1 \in Nat /\ x - 1 < x /\ x - 1 \in 0 .. n /\ x \in Nat
  OBVIOUS
<1>4. x - 1 \in T
  BY <1>1, <1>2, <1>3
<1>. QED  BY <1>3, <1>4

(* A function may be defined by its first value and the step to the next.  *)
GoesBy(f, n, e, step) == f[0] = e /\ \A j \in 1 .. n : f[j] = step[j][f[j - 1]]

LEMMA Recursion ==
  ASSUME NEW n \in Nat, NEW V, NEW e \in V, NEW step \in [1 .. n -> [V -> V]]
  PROVE  \E f \in [0 .. n -> V] : GoesBy(f, n, e, step)
<1>. DEFINE IsUpTo(f, m) == f[0] = e /\ \A j \in 1 .. m : f[j] = step[j][f[j - 1]]
            T == {m \in 0 .. n : \E f \in [0 .. m -> V] : IsUpTo(f, m)}
<1>1. 0 \in T
  <2>. DEFINE f == [j \in 0 .. 0 |-> e]
  <2>1. f \in [0 .. 0 -> V] /\ IsUpTo(f, 0)
    OBVIOUS
  <2>. HIDE DEF f, IsUpTo
  <2>. QED  BY <2>1
<1>2. ASSUME NEW m \in 1 .. n, m - 1 \in T PROVE m \in T
  <2>1. PICK f \in [0 .. m - 1 -> V] : IsUpTo(f, m - 1)
    BY <1>2
  <2>. DEFINE g == [j \in 0 .. m |-> IF j = m THEN step[m][f[m - 1]] ELSE f[j]]
  <2>2. g \in [0 .. m -> V]
    OBVIOUS
  <2>3. IsUpTo(g, m)
    <3>1. g[0] = e
      BY <2>1
    <3>2. ASSUME NEW j \in 1 .. m PROVE g[j] = step[j][g[j - 1]]
      <4>1. g[j - 1] = f[j - 1]
        OBVIOUS
      <4>2. CASE j = m
        BY <4>1, <4>2
      <4>3. CASE j # m
        <5>1. j \in 1 .. m - 1 /\ g[j] = f[j]
          BY <4>3
        <5>. QED  BY <2>1, <4>1, <5>1
      <4>. QED  BY <4>2, <4>3
    <3>. QED  BY <3>1, <3>2
  <2>. HIDE DEF g, IsUpTo
  <2>. QED  BY <2>2, <2>3
<1>. HIDE DEF T
<1>3. n \in T
  <2>1. \A m \in 1 .. n : m - 1 \in T => m \in T
    BY <1>2
  <2>2. n \in 0 .. n
    OBVIOUS
  <2>. QED  BY <1>1, <2>1, <2>2, UpTo
<1>. QED  BY <1>3 DEF T, GoesBy

-----------------------------------------------------------------------------
(* The numbers in the model of the response. *)

ChunkType == [digits : Seq(Nat), ext : BOOLEAN, n : Nat, crlf : BOOLEAN]

LEMMA ChunkFields ==
  ASSUME NEW chunks \in Seq(ChunkType)
  PROVE  /\ Len(chunks) \in Nat
         /\ \A i \in 1 .. Len(chunks) :
              /\ chunks[i].digits \in Seq(Nat) /\ chunks[i].n \in Nat
              /\ chunks[i].ext \in BOOLEAN /\ chunks[i].crlf \in BOOLEAN
<1>1. Len(chunks) \in Nat /\ \A i \in 1 .. Len(chunks) : chunks[i] \in ChunkType
  BY ElementOfSeq, LenProperties
<1>2. \A c \in ChunkType : /\ c.digits \in Seq(Nat) /\ c.n \in Nat
                          /\ c.ext \in BOOLEAN /\ c.crlf \in BOOLEAN
  BY DEF ChunkType
<1>. QED  BY <1>1, <1>2, Zenon

(* The value of a size line grows by a digit at a time. *)
LEMMA ValueSteps ==
  ASSUME NEW digits \in Seq(Nat), DigitBase \in Nat
  PROVE  /\ Value(digits, 0) = 0
         /\ \A i \in 0 .. Len(digits) : Value(digits, i) \in Nat
         /\ \A i \in 1 .. Len(digits) :
              Value(digits, i) = Value(digits, i - 1) * DigitBase + digits[i]
<1>. DEFINE n == Len(digits)
            Add(v, d) == v * DigitBase + d
            Def(g) == g = [j \in 0 .. n |-> IF j = 0 THEN 0 ELSE Add(g[j - 1], digits[j])]
            value == CHOOSE g : Def(g)
            step == [j \in 1 .. n |-> [v \in Nat |-> Add(v, digits[j])]]
<1>1. n \in Nat /\ \A j \in 1 .. n : digits[j] \in Nat
  OBVIOUS
<1>2. \A v, d \in Nat : Add(v, d) \in Nat
  OBVIOUS
<1>3. \A i : Value(digits, i) = value[i]
  BY Zenon DEF Value
<1>. HIDE DEF n, Add
<1>4. step \in [1 .. n -> [Nat -> Nat]]
  BY <1>1, <1>2
<1>5. PICK f \in [0 .. n -> Nat] : GoesBy(f, n, 0, step)
  <2>. HIDE DEF step
  <2>1. 0 \in Nat /\ n \in Nat
    BY <1>1
  <2>. QED  BY <1>4, <2>1, Recursion
<1>6. \A j \in 1 .. n : f[j] = Add(f[j - 1], digits[j])
  <2>. SUFFICES ASSUME NEW j \in 1 .. n PROVE f[j] = Add(f[j - 1], digits[j])
    OBVIOUS
  <2>1. f[j - 1] \in Nat
    BY <1>1
  <2>. QED  BY <1>5, <2>1 DEF GoesBy
<1>7. Def(f)
  <2>1. \A j \in 0 .. n : j = 0 \/ j \in 1 .. n
    BY <1>1
  <2>. QED  BY <1>5, <1>6, <2>1 DEF GoesBy
<1>8. Def(value)
  <2>. HIDE DEF Def
  <2>. QED  BY <1>7
<1>. HIDE DEF value
<1>9. value[0] = 0 /\ \A j \in 1 .. n : value[j] = Add(value[j - 1], digits[j])
  BY <1>1, <1>8
<1>10. \A j \in 0 .. n : value[j] \in Nat
  <2>. DEFINE T == {j \in 0 .. n : value[j] \in Nat}
  <2>1. 0 \in T
    BY <1>1, <1>9
  <2>2. ASSUME NEW j \in 1 .. n, j - 1 \in T PROVE j \in T
    <3>1. j \in 0 .. n /\ digits[j] \in Nat
      BY <1>1
    <3>2. value[j - 1] \in Nat
      BY <2>2
    <3>3. value[j] = Add(value[j - 1], digits[j])
      BY <1>9
    <3>. QED  BY <1>2, <3>1, <3>2, <3>3
  <2>. HIDE DEF T
  <2>3. \A j \in 0 .. n : j \in T
    BY <1>1, <2>1, <2>2, UpTo
  <2>. QED  BY <2>3 DEF T
<1>. QED  BY <1>3, <1>9, <1>10 DEF n, Add

(* Sums of numbers, each from the one before it.                           *)
IsSum(g, n, a) == g = [j \in 0 .. n |-> IF j = 0 THEN 0 ELSE g[j - 1] + a[j]]

LEMMA Sums ==
  ASSUME NEW n \in Nat, NEW a \in [1 .. n -> Nat]
  PROVE  /\ \E g : IsSum(g, n, a)
         /\ \A g : IsSum(g, n, a) =>
              /\ g[0] = 0
              /\ \A j \in 0 .. n : g[j] \in Nat
              /\ \A j \in 1 .. n : g[j] = g[j - 1] + a[j]
              /\ \A j \in 0 .. n : \A k \in 0 .. j : g[k] <= g[j]
<1>1. \E g : IsSum(g, n, a)
  <2>. DEFINE step == [j \in 1 .. n |-> [v \in Nat |-> v + a[j]]]
  <2>1. step \in [1 .. n -> [Nat -> Nat]] /\ 0 \in Nat
    OBVIOUS
  <2>2. PICK f \in [0 .. n -> Nat] : GoesBy(f, n, 0, step)
    <3>. HIDE DEF step
    <3>. QED  BY <2>1, Recursion
  <2>3. ASSUME NEW j \in 1 .. n PROVE f[j] = f[j - 1] + a[j]
    <3>1. f[j - 1] \in Nat
      OBVIOUS
    <3>. QED  BY <2>2, <3>1 DEF GoesBy
  <2>4. \A j \in 0 .. n : j = 0 \/ j \in 1 .. n
    OBVIOUS
  <2>5. IsSum(f, n, a)
    BY <2>2, <2>3, <2>4 DEF GoesBy, IsSum
  <2>. QED  BY <2>5
<1>2. ASSUME NEW g, IsSum(g, n, a)
      PROVE  /\ g[0] = 0
             /\ \A j \in 0 .. n : g[j] \in Nat
             /\ \A j \in 1 .. n : g[j] = g[j - 1] + a[j]
             /\ \A j \in 0 .. n : \A k \in 0 .. j : g[k] <= g[j]
  <2>1. g[0] = 0 /\ \A j \in 1 .. n : g[j] = g[j - 1] + a[j]
    BY <1>2 DEF IsSum
  <2>. DEFINE T == {j \in 0 .. n : g[j] \in Nat}
  <2>2. 0 \in T
    BY <2>1
  <2>3. ASSUME NEW j \in 1 .. n, j - 1 \in T PROVE j \in T
    <3>1. j \in 0 .. n /\ a[j] \in Nat /\ g[j - 1] \in Nat
      BY <2>3
    <3>. QED  BY <2>1, <3>1
  <2>. HIDE DEF T
  <2>4. \A j \in 0 .. n : j \in T
    BY <2>2, <2>3, UpTo
  <2>5. \A j \in 0 .. n : g[j] \in Nat
    BY <2>4 DEF T
  <2>. DEFINE M == {j \in 0 .. n : \A k \in 0 .. j : g[k] <= g[j]}
  <2>6. 0 \in M
    BY <2>1
  <2>7. ASSUME NEW j \in 1 .. n, j - 1 \in M PROVE j \in M
    <3>1. j \in 0 .. n /\ j - 1 \in 0 .. n
      OBVIOUS
    <3>2. a[j] \in Nat /\ g[j - 1] \in Nat /\ g[j] = g[j - 1] + a[j] /\ g[j] \in Nat
      BY <2>1, <2>5, <3>1
    <3>3. ASSUME NEW k \in 0 .. j PROVE g[k] <= g[j]
      <4>1. CASE k = j
        BY <3>2, <4>1
      <4>2. CASE k \in 0 .. j - 1
        <5>1. g[k] <= g[j - 1] /\ g[k] \in Nat
          BY <2>5, <2>7, <4>2
        <5>. QED  BY <3>2, <5>1
      <4>. QED  BY <4>1, <4>2
    <3>. QED  BY <3>1, <3>3
  <2>. HIDE DEF M
  <2>8. \A j \in 0 .. n : j \in M
    BY <2>6, <2>7, UpTo
  <2>. QED  BY <2>1, <2>5, <2>8 DEF M
<1>. QED  BY <1>1, <1>2, Zenon

(* The bytes before a chunk are those before the one before it and its.    *)
LEMMA DataSteps ==
  ASSUME NEW chunks \in Seq(ChunkType)
  PROVE  /\ DataBefore(chunks, 1) = 0
         /\ \A i \in 1 .. Len(chunks) + 1 : DataBefore(chunks, i) \in Nat
         /\ \A i \in 1 .. Len(chunks) :
              DataBefore(chunks, i + 1) = DataBefore(chunks, i) + chunks[i].n
         /\ \A i \in 1 .. Len(chunks) + 1 : \A k \in 1 .. i :
              DataBefore(chunks, k) <= DataBefore(chunks, i)
<1>. DEFINE n == Len(chunks)
            a == [j \in 1 .. n |-> chunks[j].n]
            Def(g) == g = [j \in 0 .. n |-> IF j = 0 THEN 0 ELSE g[j - 1] + chunks[j].n]
            sum == CHOOSE g : Def(g)
<1>1. n \in Nat /\ a \in [1 .. n -> Nat]
  BY ChunkFields
<1>2. \A i : DataBefore(chunks, i) = sum[i - 1]
  BY Zenon DEF DataBefore
<1>3. ASSUME NEW g PROVE Def(g) <=> IsSum(g, n, a)
  <2>1. \A j \in 0 .. n : j # 0 => j \in 1 .. n
    BY <1>1
  <2>2. ASSUME NEW j \in 0 .. n, j # 0 PROVE g[j - 1] + a[j] = g[j - 1] + chunks[j].n
    BY <2>1, <2>2
  <2>. HIDE DEF a
  <2>3.   [j \in 0 .. n |-> IF j = 0 THEN 0 ELSE g[j - 1] + a[j]]
        = [j \in 0 .. n |-> IF j = 0 THEN 0 ELSE g[j - 1] + chunks[j].n]
    BY <2>2
  <2>. QED  BY <2>3, Zenon DEF IsSum
<1>4. \A j \in 1 .. n : a[j] = chunks[j].n
  OBVIOUS
<1>. HIDE DEF n, a, Def
<1>5. IsSum(sum, n, a)
  BY <1>1, <1>3, Sums
<1>. HIDE DEF sum
<1>6. /\ sum[0] = 0
      /\ \A j \in 0 .. n : sum[j] \in Nat
      /\ \A j \in 1 .. n : sum[j] = sum[j - 1] + a[j]
      /\ \A j \in 0 .. n : \A k \in 0 .. j : sum[k] <= sum[j]
  BY <1>1, <1>5, Sums
<1>7. DataBefore(chunks, 1) = 0
  <2>1. 1 - 1 = 0
    OBVIOUS
  <2>. QED  BY <1>2, <1>6, <2>1
<1>8. ASSUME NEW i \in 1 .. n + 1 PROVE DataBefore(chunks, i) \in Nat
  <2>1. i - 1 \in 0 .. n
    BY <1>1
  <2>. QED  BY <1>2, <1>6, <2>1, Zenon
<1>9. ASSUME NEW i \in 1 .. n
      PROVE  DataBefore(chunks, i + 1) = DataBefore(chunks, i) + chunks[i].n
  <2>1. (i + 1) - 1 = i
    BY <1>1
  <2>. QED  BY <1>2, <1>4, <1>6, <2>1
<1>10. ASSUME NEW i \in 1 .. n + 1, NEW k \in 1 .. i
       PROVE  DataBefore(chunks, k) <= DataBefore(chunks, i)
  <2>1. i - 1 \in 0 .. n /\ k - 1 \in 0 .. i - 1
    BY <1>1
  <2>2. sum[k - 1] <= sum[i - 1]
    BY <1>6, <2>1
  <2>. QED  BY <1>2, <2>2
<1>. QED  BY <1>7, <1>8, <1>9, <1>10 DEF n

-----------------------------------------------------------------------------
(* The bytes of the response, by their places. *)

Tokens == [t : {"digit", "semicolon", "cr", "lf", "data"}, v : Nat]

(* Bytes of the size line of a chunk, and of all of it.                    *)
Header(chunk) == Len(chunk.digits) + (IF chunk.ext THEN 2 ELSE 0) + 2
Whole(chunk) == Header(chunk) + chunk.n + (IF chunk.crlf THEN 2 ELSE 0)

(* Bytes of the response before chunk i.                                   *)
StartOf(chunks, i) ==
  LET start[j \in 0 .. Len(chunks)] == IF j = 0 THEN 0 ELSE start[j - 1] + Whole(chunks[j])
  IN  start[i - 1]

IsJoin(u, s, t) ==
  /\ Len(u) = Len(s) + Len(t)
  /\ \A i \in 1 .. Len(s) : u[i] = s[i]
  /\ \A i \in 1 .. Len(t) : u[Len(s) + i] = t[i]

LEMMA Joined ==
  ASSUME NEW S, NEW s \in Seq(S), NEW t \in Seq(S)
  PROVE  s \o t \in Seq(S) /\ IsJoin(s \o t, s, t)
  BY DEF IsJoin

IsLine(l, digits, ext, h) ==
  /\ Len(l) = h /\ h \in Nat /\ h = Len(digits) + (IF ext THEN 4 ELSE 2)
  /\ \A x \in 1 .. Len(digits) : l[x] = Digit(digits[x])
  /\ ext => l[Len(digits) + 1] = Semicolon /\ l[Len(digits) + 2] = Digit(1)
  /\ l[h - 1] = CR /\ l[h] = LF

LEMMA LineAt ==
  ASSUME NEW digits \in Seq(Nat), NEW ext \in BOOLEAN, NEW chunk,
         chunk.digits = digits, chunk.ext = ext
  PROVE  Line(chunk) \in Seq(Tokens) /\ IsLine(Line(chunk), digits, ext, Header(chunk))
<1>. DEFINE d == Len(digits)
            a == [i \in DOMAIN digits |-> Digit(digits[i])]
            b == IF ext THEN <<Semicolon, Digit(1)>> ELSE <<>>
            c == <<CR, LF>>
            e == IF ext THEN 2 ELSE 0
<1>1. /\ d \in Nat /\ DOMAIN digits = 1 .. d /\ \A x \in 1 .. d : digits[x] \in Nat
      /\ e \in Nat
  OBVIOUS
<1>2. /\ CR \in Tokens /\ LF \in Tokens /\ Semicolon \in Tokens
      /\ \A v \in Nat : Digit(v) \in Tokens
  BY DEF CR, LF, Semicolon, Digit, Tokens
<1>. HIDE DEF d
<1>3. a \in Seq(Tokens) /\ Len(a) = d /\ \A x \in 1 .. d : a[x] = Digit(digits[x])
  <2>1. \A x \in 1 .. d : Digit(digits[x]) \in Tokens
    BY <1>1, <1>2
  <2>2. a = [x \in 1 .. d |-> Digit(digits[x])]
    BY <1>1
  <2>. HIDE DEF a
  <2>. QED  BY <1>1, <2>1, <2>2
<1>4. /\ b \in Seq(Tokens) /\ Len(b) = e
      /\ ext => b[1] = Semicolon /\ b[2] = Digit(1)
  <2>1. 1 \in Nat
    OBVIOUS
  <2>2. Digit(1) \in Tokens
    BY <1>2, <2>1
  <2>3. CASE ext
    <3>1. b = <<Semicolon, Digit(1)>> /\ e = 2
      BY <2>3
    <3>. HIDE DEF b, e
    <3>. QED  BY <1>2, <2>2, <3>1
  <2>4. CASE ~ext
    <3>1. b = <<>> /\ e = 0
      BY <2>4
    <3>. HIDE DEF b, e
    <3>. QED  BY <2>4, <3>1
  <2>. HIDE DEF b, e
  <2>. QED  BY <2>3, <2>4
<1>5. c \in Seq(Tokens) /\ Len(c) = 2 /\ c[1] = CR /\ c[2] = LF
  BY <1>2
<1>6. Line(chunk) = (a \o b) \o c /\ Header(chunk) = d + e + 2
  BY DEF Line, Header, d
<1>. HIDE DEF a, b, c
<1>7. /\ a \o b \in Seq(Tokens) /\ Len(a \o b) = d + e /\ d + e \in Nat
      /\ \A i \in 1 .. d : (a \o b)[i] = a[i]
      /\ \A i \in 1 .. e : (a \o b)[d + i] = b[i]
  <2>. HIDE DEF e
  <2>1. a \o b \in Seq(Tokens) /\ IsJoin(a \o b, a, b)
    BY <1>3, <1>4, Joined
  <2>. QED  BY <1>1, <1>3, <1>4, <2>1 DEF IsJoin
<1>8. /\ Line(chunk) \in Seq(Tokens) /\ Len(Line(chunk)) = d + e + 2
      /\ \A i \in 1 .. d + e : Line(chunk)[i] = (a \o b)[i]
      /\ Line(chunk)[d + e + 1] = c[1] /\ Line(chunk)[d + e + 2] = c[2]
  <2>1. Line(chunk) \in Seq(Tokens) /\ IsJoin(Line(chunk), a \o b, c)
    BY <1>5, <1>6, <1>7, Joined
  <2>. HIDE DEF e
  <2>. QED  BY <1>1, <1>5, <1>7, <2>1 DEF IsJoin
<1>9. ASSUME NEW x \in 1 .. d PROVE Line(chunk)[x] = Digit(digits[x])
  <2>1. x \in 1 .. d + e
    BY <1>1
  <2>2. Line(chunk)[x] = (a \o b)[x] /\ (a \o b)[x] = a[x] /\ a[x] = Digit(digits[x])
    BY <1>3, <1>7, <1>8, <2>1
  <2>. QED  BY <2>2
<1>10. ASSUME ext
       PROVE  Line(chunk)[d + 1] = Semicolon /\ Line(chunk)[d + 2] = Digit(1)
  <2>1. 1 \in 1 .. e /\ 2 \in 1 .. e /\ d + 1 \in 1 .. d + e /\ d + 2 \in 1 .. d + e
    BY <1>1, <1>10
  <2>. QED  BY <1>4, <1>7, <1>8, <1>10, <2>1
<1>11. Line(chunk)[Header(chunk) - 1] = CR /\ Line(chunk)[Header(chunk)] = LF
  <2>1. Header(chunk) - 1 = d + e + 1
    BY <1>1, <1>6
  <2>. QED  BY <1>5, <1>6, <1>8, <2>1
<1>12. Header(chunk) \in Nat /\ Header(chunk) = d + (IF ext THEN 4 ELSE 2)
  BY <1>1, <1>6
<1>. QED  BY <1>6, <1>8, <1>9, <1>10, <1>11, <1>12 DEF d, IsLine

IsChunk(t, c, before) ==
  /\ Len(t) = Whole(c) /\ Whole(c) \in Nat /\ Header(c) \in Nat
  /\ Whole(c) = Header(c) + c.n + (IF c.crlf THEN 2 ELSE 0)
  /\ Header(c) = Len(c.digits) + (IF c.ext THEN 4 ELSE 2)
  /\ \A x \in 1 .. Len(c.digits) : t[x] = Digit(c.digits[x])
  /\ c.ext => t[Len(c.digits) + 1] = Semicolon /\ t[Len(c.digits) + 2] = Digit(1)
  /\ t[Header(c) - 1] = CR /\ t[Header(c)] = LF
  /\ \A x \in 1 .. c.n : t[Header(c) + x] = Data(before + x)
  /\ c.crlf => t[Header(c) + c.n + 1] = CR /\ t[Header(c) + c.n + 2] = LF

LEMMA ChunkAt ==
  ASSUME NEW chunks \in Seq(ChunkType), NEW i \in 1 .. Len(chunks)
  PROVE  /\ Chunk(chunks, i) \in Seq(Tokens)
         /\ IsChunk(Chunk(chunks, i), chunks[i], DataBefore(chunks, i))
<1>. DEFINE c == chunks[i]
            l == Line(c)
            before == DataBefore(chunks, i)
            b == [j \in 1 .. c.n |-> Data(before + j)]
            e == IF c.crlf THEN <<CR, LF>> ELSE <<>>
            k == IF c.crlf THEN 2 ELSE 0
            h == Header(c)
            d == Len(c.digits)
<1>1. /\ c.digits \in Seq(Nat) /\ c.n \in Nat /\ c.ext \in BOOLEAN /\ c.crlf \in BOOLEAN
      /\ before \in Nat /\ k \in Nat /\ d \in Nat
  BY ChunkFields, DataSteps
<1>2. /\ CR \in Tokens /\ LF \in Tokens /\ \A v \in Nat : Data(v) \in Tokens
  BY DEF CR, LF, Data, Tokens
<1>3. /\ l \in Seq(Tokens) /\ Len(l) = h /\ h \in Nat /\ h = d + (IF c.ext THEN 4 ELSE 2)
      /\ \A x \in 1 .. d : l[x] = Digit(c.digits[x])
      /\ c.ext => l[d + 1] = Semicolon /\ l[d + 2] = Digit(1)
      /\ l[h - 1] = CR /\ l[h] = LF
  <2>1. l \in Seq(Tokens) /\ IsLine(l, c.digits, c.ext, h)
    BY <1>1, LineAt, Zenon
  <2>. QED  BY <2>1, Zenon DEF IsLine
<1>4. b \in Seq(Tokens) /\ Len(b) = c.n /\ \A x \in 1 .. c.n : b[x] = Data(before + x)
  <2>. HIDE DEF before
  <2>1. \A x \in 1 .. c.n : Data(before + x) \in Tokens
    BY <1>1, <1>2
  <2>. DEFINE n == c.n
  <2>2. n \in Nat
    BY <1>1
  <2>. HIDE DEF n
  <2>3. \A x \in 1 .. n : Data(before + x) \in Tokens
    BY <2>1 DEF n
  <2>4. /\ [j \in 1 .. n |-> Data(before + j)] \in Seq(Tokens)
        /\ Len([j \in 1 .. n |-> Data(before + j)]) = n
    BY <2>2, <2>3
  <2>. QED  BY <2>4 DEF n
<1>5. /\ e \in Seq(Tokens) /\ Len(e) = k
      /\ c.crlf => e[1] = CR /\ e[2] = LF
  <2>1. CASE c.crlf
    <3>1. e = <<CR, LF>> /\ k = 2
      BY <2>1
    <3>. HIDE DEF e, k
    <3>. QED  BY <1>2, <3>1
  <2>2. CASE ~c.crlf
    <3>1. e = <<>> /\ k = 0
      BY <2>2
    <3>. HIDE DEF e, k
    <3>. QED  BY <2>2, <3>1
  <2>. HIDE DEF e, k
  <2>. QED  BY <1>1, <2>1, <2>2
<1>6. Chunk(chunks, i) = (l \o b) \o e /\ Whole(c) = h + c.n + k
  BY DEF Chunk, Whole
<1>. DEFINE t == Chunk(chunks, i)
            n == c.n
<1>. HIDE DEF l, b, e, k, h, before, d, t
<1>7. l \o b \in Seq(Tokens) /\ IsJoin(l \o b, l, b)
  BY <1>3, <1>4, Joined
<1>8. t \in Seq(Tokens) /\ IsJoin(t, l \o b, e)
  BY <1>5, <1>6, <1>7, Joined DEF t
<1>9. /\ Len(l \o b) = h + n
      /\ \A x \in 1 .. h : (l \o b)[x] = l[x]
      /\ \A x \in 1 .. n : (l \o b)[h + x] = b[x]
  BY <1>1, <1>3, <1>4, <1>7 DEF IsJoin
<1>10. /\ Len(t) = h + n + k
       /\ \A x \in 1 .. h + n : t[x] = (l \o b)[x]
       /\ \A x \in 1 .. k : t[h + n + x] = e[x]
  BY <1>1, <1>3, <1>5, <1>8, <1>9 DEF IsJoin
<1>11. \A x \in 1 .. h : t[x] = l[x]
  <2>. SUFFICES ASSUME NEW x \in 1 .. h PROVE t[x] = l[x]
    OBVIOUS
  <2>1. x \in 1 .. h + n
    BY <1>1, <1>3
  <2>. QED  BY <1>9, <1>10, <2>1
<1>12. ASSUME NEW x \in 1 .. n PROVE t[h + x] = Data(before + x)
  <2>1. h + x \in 1 .. h + n
    BY <1>1, <1>3
  <2>2. t[h + x] = (l \o b)[h + x] /\ (l \o b)[h + x] = b[x]
    BY <1>9, <1>10, <2>1
  <2>. QED  BY <1>4, <2>2
<1>13. ASSUME c.crlf PROVE t[h + n + 1] = CR /\ t[h + n + 2] = LF
  <2>1. 1 \in 1 .. k /\ 2 \in 1 .. k
    BY <1>13 DEF k
  <2>. QED  BY <1>5, <1>10, <1>13, <2>1
<1>14. ASSUME NEW x \in 1 .. d PROVE t[x] = Digit(c.digits[x])
  <2>1. x \in 1 .. h
    BY <1>1, <1>3
  <2>. QED  BY <1>3, <1>11, <2>1
<1>15. ASSUME c.ext PROVE t[d + 1] = Semicolon /\ t[d + 2] = Digit(1)
  <2>1. d + 1 \in 1 .. h /\ d + 2 \in 1 .. h
    BY <1>1, <1>3, <1>15
  <2>. QED  BY <1>3, <1>11, <1>15, <2>1
<1>16. t[h - 1] = CR /\ t[h] = LF
  <2>1. h - 1 \in 1 .. h /\ h \in 1 .. h
    BY <1>1, <1>3
  <2>. QED  BY <1>3, <1>11, <2>1
<1>17. h \in Nat /\ Whole(c) \in Nat /\ Len(t) = Whole(c)
  BY <1>1, <1>3, <1>6, <1>10
<1>. QED
  BY <1>3, <1>6, <1>8, <1>12, <1>13, <1>14, <1>15, <1>16, <1>17, Zenon
  DEF t, h, before, d, k, IsChunk

LEMMA StartSteps ==
  ASSUME NEW chunks \in Seq(ChunkType)
  PROVE  /\ StartOf(chunks, 1) = 0
         /\ \A i \in 1 .. Len(chunks) + 1 : StartOf(chunks, i) \in Nat
         /\ \A i \in 1 .. Len(chunks) :
              StartOf(chunks, i + 1) = StartOf(chunks, i) + Whole(chunks[i])
         /\ \A i \in 1 .. Len(chunks) + 1 : \A k \in 1 .. i :
              StartOf(chunks, k) <= StartOf(chunks, i)
<1>. DEFINE n == Len(chunks)
            a == [j \in 1 .. n |-> Whole(chunks[j])]
            Def(g) == g = [j \in 0 .. n |-> IF j = 0 THEN 0 ELSE g[j - 1] + Whole(chunks[j])]
            sum == CHOOSE g : Def(g)
<1>1. n \in Nat /\ a \in [1 .. n -> Nat]
  <2>1. \A j \in 1 .. n : Whole(chunks[j]) \in Nat
    BY ChunkAt DEF IsChunk
  <2>. QED  BY ChunkFields, <2>1
<1>2. \A i : StartOf(chunks, i) = sum[i - 1]
  BY Zenon DEF StartOf
<1>3. ASSUME NEW g PROVE Def(g) <=> IsSum(g, n, a)
  <2>1. \A j \in 0 .. n : j # 0 => j \in 1 .. n
    BY <1>1
  <2>2. ASSUME NEW j \in 0 .. n, j # 0 PROVE g[j - 1] + a[j] = g[j - 1] + Whole(chunks[j])
    BY <2>1, <2>2
  <2>. HIDE DEF a
  <2>3.   [j \in 0 .. n |-> IF j = 0 THEN 0 ELSE g[j - 1] + a[j]]
        = [j \in 0 .. n |-> IF j = 0 THEN 0 ELSE g[j - 1] + Whole(chunks[j])]
    BY <2>2
  <2>. QED  BY <2>3, Zenon DEF IsSum
<1>4. \A j \in 1 .. n : a[j] = Whole(chunks[j])
  OBVIOUS
<1>. HIDE DEF n, a, Def
<1>5. IsSum(sum, n, a)
  BY <1>1, <1>3, Sums
<1>. HIDE DEF sum
<1>6. /\ sum[0] = 0
      /\ \A j \in 0 .. n : sum[j] \in Nat
      /\ \A j \in 1 .. n : sum[j] = sum[j - 1] + a[j]
      /\ \A j \in 0 .. n : \A k \in 0 .. j : sum[k] <= sum[j]
  BY <1>1, <1>5, Sums
<1>7. StartOf(chunks, 1) = 0
  <2>1. 1 - 1 = 0
    OBVIOUS
  <2>. QED  BY <1>2, <1>6, <2>1
<1>8. ASSUME NEW i \in 1 .. n + 1 PROVE StartOf(chunks, i) \in Nat
  <2>1. i - 1 \in 0 .. n
    BY <1>1
  <2>. QED  BY <1>2, <1>6, <2>1, Zenon
<1>9. ASSUME NEW i \in 1 .. n
      PROVE  StartOf(chunks, i + 1) = StartOf(chunks, i) + Whole(chunks[i])
  <2>1. (i + 1) - 1 = i
    BY <1>1
  <2>. QED  BY <1>2, <1>4, <1>6, <2>1
<1>10. ASSUME NEW i \in 1 .. n + 1, NEW k \in 1 .. i
       PROVE  StartOf(chunks, k) <= StartOf(chunks, i)
  <2>1. i - 1 \in 0 .. n /\ k - 1 \in 0 .. i - 1
    BY <1>1
  <2>2. sum[k - 1] <= sum[i - 1]
    BY <1>6, <2>1
  <2>. QED  BY <1>2, <2>2
<1>. QED  BY <1>7, <1>8, <1>9, <1>10 DEF n

(* Each chunk is where StartOf says.                                       *)
IsEncoding(u, chunks, n) ==
  /\ Len(u) = StartOf(chunks, n + 1)
  /\ \A i \in 1 .. n : \A x \in 1 .. Whole(chunks[i]) :
       u[StartOf(chunks, i) + x] = Chunk(chunks, i)[x]

(* A chunk more.                                                           *)
LEMMA EncodedMore ==
  ASSUME NEW chunks \in Seq(ChunkType), NEW n \in 1 .. Len(chunks),
         NEW u \in Seq(Tokens), IsEncoding(u, chunks, n - 1)
  PROVE  /\ u \o Chunk(chunks, n) \in Seq(Tokens)
         /\ IsEncoding(u \o Chunk(chunks, n), chunks, n)
<1>. DEFINE c == Chunk(chunks, n)
            v == u \o c
            S(i) == StartOf(chunks, i)
            W(i) == Whole(chunks[i])
<1>1. Len(chunks) \in Nat
  BY ChunkFields
<1>2. c \in Seq(Tokens) /\ Len(c) = W(n) /\ W(n) \in Nat
  BY ChunkAt DEF IsChunk
<1>3. v \in Seq(Tokens) /\ IsJoin(v, u, c)
  <2>. HIDE DEF c
  <2>. QED  BY <1>2, Joined
<1>4. \A i \in 1 .. n : W(i) \in Nat /\ S(i) \in Nat /\ S(i + 1) = S(i) + W(i)
  <2>. SUFFICES ASSUME NEW i \in 1 .. n
                PROVE  W(i) \in Nat /\ S(i) \in Nat /\ S(i + 1) = S(i) + W(i)
    OBVIOUS
  <2>1. i \in 1 .. Len(chunks) /\ i \in 1 .. Len(chunks) + 1
    BY <1>1
  <2>. QED  BY <2>1, ChunkAt, StartSteps DEF IsChunk
<1>5. Len(u) = S(n)
  <2>1. (n - 1) + 1 = n
    OBVIOUS
  <2>. QED  BY <2>1 DEF IsEncoding
<1>. HIDE DEF c, v, S, W
<1>6. Len(v) = S(n + 1)
  BY <1>2, <1>3, <1>4, <1>5 DEF IsJoin
<1>7. ASSUME NEW i \in 1 .. n, NEW x \in 1 .. W(i)
      PROVE  v[S(i) + x] = Chunk(chunks, i)[x]
  <2>1. CASE i = n
    <3>1. v[Len(u) + x] = c[x]
      BY <1>2, <1>3, <2>1 DEF IsJoin
    <3>. QED  BY <1>5, <2>1, <3>1 DEF c
  <2>2. CASE i # n
    <3>1. i \in 1 .. n - 1
      BY <2>2
    <3>2. u[S(i) + x] = Chunk(chunks, i)[x]
      BY <3>1 DEF IsEncoding, S, W
    <3>3. S(i + 1) <= S(n)
      BY <1>1, <3>1, StartSteps DEF S
    <3>4. S(i) + x \in 1 .. Len(u)
      <4>1. /\ S(i) \in Nat /\ W(i) \in Nat /\ S(n) \in Nat /\ S(i + 1) = S(i) + W(i)
            /\ Len(u) = S(n)
        BY <1>4, <1>5, <3>1
      <4>2. x \in Nat /\ x >= 1 /\ x <= W(i)
        BY <4>1
      <4>. QED  BY <3>3, <4>1, <4>2
    <3>. QED  BY <1>3, <3>2, <3>4 DEF IsJoin
  <2>. QED  BY <2>1, <2>2
<1>. QED  BY <1>3, <1>6, <1>7 DEF IsEncoding, S, W, v, c

LEMMA EncodedAt ==
  ASSUME NEW chunks \in Seq(ChunkType)
  PROVE  /\ Encoded(chunks) \in Seq(Tokens)
         /\ IsEncoding(Encoded(chunks), chunks, Len(chunks))
<1>. DEFINE n == Len(chunks)
            seqs == [i \in DOMAIN chunks |-> Chunk(chunks, i)]
            Def(g) == g = [i \in 1 .. Len(seqs) |->
                             IF i = 1 THEN seqs[i] ELSE g[i - 1] \o seqs[i]]
            flatten == CHOOSE g : Def(g)
            step == [j \in 1 .. n |-> [u \in Seq(Tokens) |-> u \o seqs[j]]]
<1>1. n \in Nat /\ DOMAIN chunks = 1 .. n /\ \A j \in 1 .. n : seqs[j] = Chunk(chunks, j)
  BY ChunkFields
<1>2. Len(seqs) = n /\ \A j \in 1 .. n : seqs[j] \in Seq(Tokens)
  <2>1. \A j \in 1 .. n : Chunk(chunks, j) \in Seq(Tokens)
    BY ChunkAt
  <2>2. seqs \in Seq(Seq(Tokens)) /\ Len(seqs) = n
    BY <1>1, <2>1
  <2>. QED  BY <1>1, <2>1, <2>2
<1>3. CASE n = 0
  <2>1. Encoded(chunks) = seqs
    BY <1>2, <1>3 DEF Encoded, FlattenSeq
  <2>2. seqs = <<>>
    BY <1>1, <1>3
  <2>3. StartOf(chunks, n + 1) = 0
    <3>1. n + 1 = 1
      BY <1>3
    <3>. HIDE DEF n
    <3>. QED  BY <3>1, StartSteps
  <2>4. <<>> \in Seq(Tokens) /\ Len(<<>>) = 0
    OBVIOUS
  <2>5. \A i \in 1 .. n : FALSE
    BY <1>3
  <2>. HIDE DEF n, seqs
  <2>. QED  BY <2>1, <2>2, <2>3, <2>4, <2>5 DEF IsEncoding, n
<1>4. CASE n # 0
  <2>1. Encoded(chunks) = flatten[n]
    <3>. HIDE DEF n
    <3>1. Len(seqs) # 0
      BY <1>2, <1>4
    <3>2. Encoded(chunks) = flatten[Len(seqs)]
      BY <3>1, Zenon DEF Encoded, FlattenSeq
    <3>. QED  BY <1>2, <3>2
  <2>2. step \in [1 .. n -> [Seq(Tokens) -> Seq(Tokens)]]
    <3>1. \A j \in 1 .. n : \A u \in Seq(Tokens) : u \o seqs[j] \in Seq(Tokens)
      <4>. HIDE DEF n, seqs
      <4>. QED  BY <1>2, Joined
    <3>. HIDE DEF n, seqs
    <3>. QED  BY <3>1
  <2>3. PICK f \in [0 .. n -> Seq(Tokens)] : GoesBy(f, n, <<>>, step)
    <3>. HIDE DEF step, n
    <3>1. <<>> \in Seq(Tokens)
      OBVIOUS
    <3>. QED  BY <1>1, <2>2, <3>1, Recursion
  <2>. HIDE DEF n, seqs
  <2>4. ASSUME NEW j \in 1 .. n PROVE f[j] = f[j - 1] \o seqs[j]
    <3>1. f[j - 1] \in Seq(Tokens)
      BY <1>1
    <3>. QED  BY <2>3, <3>1 DEF GoesBy
  <2>. DEFINE g == [i \in 1 .. n |-> f[i]]
  <2>5. g[1] = seqs[1]
    <3>1. 1 \in 1 .. n /\ 1 - 1 = 0 /\ f[0] = <<>>
      BY <1>1, <1>4, <2>3 DEF GoesBy
    <3>2. f[1] = <<>> \o seqs[1]
      BY <2>4, <3>1
    <3>. QED  BY <1>2, <3>1, <3>2, ConcatEmptySeq
  <2>6. Def(g)
    <3>1. ASSUME NEW i \in 1 .. n
          PROVE  g[i] = IF i = 1 THEN seqs[i] ELSE g[i - 1] \o seqs[i]
      <4>1. CASE i = 1
        BY <2>5, <4>1
      <4>2. CASE i # 1
        <5>1. i - 1 \in 1 .. n
          BY <1>1, <4>2
        <5>. QED  BY <2>4, <4>2, <5>1
      <4>. QED  BY <4>1, <4>2
    <3>2. g = [i \in 1 .. n |-> g[i]]
      OBVIOUS
    <3>. HIDE DEF g
    <3>3. g = [i \in 1 .. n |-> IF i = 1 THEN seqs[i] ELSE g[i - 1] \o seqs[i]]
      BY <3>1, <3>2
    <3>. QED  BY <1>2, <3>3
  <2>7. Def(flatten)
    <3>. HIDE DEF Def, g
    <3>. QED  BY <2>6
  <2>. HIDE DEF flatten
  <2>8. ASSUME NEW i \in 1 .. n
        PROVE  flatten[i] = IF i = 1 THEN seqs[i] ELSE flatten[i - 1] \o seqs[i]
    BY <1>2, <2>7
  <2>. DEFINE T == {j \in 0 .. n : j # 0 => /\ flatten[j] \in Seq(Tokens)
                                           /\ IsEncoding(flatten[j], chunks, j)}
  <2>9. 0 \in T
    BY <1>1
  <2>10. ASSUME NEW j \in 1 .. n, j - 1 \in T PROVE j \in T
    <3>1. j \in 1 .. Len(chunks) /\ j \in 0 .. n
      BY <1>1 DEF n
    <3>2. CASE j = 1
      <4>1. flatten[j] = seqs[j] /\ seqs[j] = Chunk(chunks, j) /\ seqs[j] \in Seq(Tokens)
        BY <1>1, <1>2, <2>8, <3>2
      <4>2. /\ <<>> \in Seq(Tokens)
            /\ <<>> \o seqs[j] = seqs[j]
        BY <4>1, ConcatEmptySeq
      <4>3. IsEncoding(<<>>, chunks, j - 1)
        <5>1. (j - 1) + 1 = 1 /\ StartOf(chunks, 1) = 0 /\ Len(<<>>) = 0
          BY <3>2, StartSteps
        <5>2. \A i \in 1 .. j - 1 : FALSE
          BY <3>2
        <5>. QED  BY <5>1, <5>2 DEF IsEncoding
      <4>4. IsEncoding(<<>> \o Chunk(chunks, j), chunks, j)
        BY <3>1, <4>2, <4>3, EncodedMore
      <4>. QED  BY <3>1, <4>1, <4>2, <4>4
    <3>3. CASE j # 1
      <4>1. flatten[j] = flatten[j - 1] \o Chunk(chunks, j)
        BY <1>1, <2>8, <3>3
      <4>2. flatten[j - 1] \in Seq(Tokens) /\ IsEncoding(flatten[j - 1], chunks, j - 1)
        BY <2>10, <3>3
      <4>. QED  BY <3>1, <4>1, <4>2, EncodedMore
    <3>. QED  BY <3>2, <3>3
  <2>. HIDE DEF T
  <2>11. \A j \in 0 .. n : j \in T
    BY <1>1, <2>9, <2>10, UpTo
  <2>12. n \in T
    BY <1>1, <2>11
  <2>. QED  BY <1>4, <2>1, <2>12 DEF T, n
<1>. QED  BY <1>3, <1>4

-----------------------------------------------------------------------------
(* The invariants. *)

SeqTypes ==
  /\ response \in Responses
  /\ wire \in Seq(Tokens) /\ unread \in Seq(Tokens) /\ remaining = Len(unread)
  /\ data \in Seq(Tokens) /\ delivered \in Seq(Tokens) /\ length = Len(data)

NumTypes == size \in Nat /\ total_bytes \in Nat /\ actual_bytes \in Nat

PacketTypes ==
  /\ response_packet \in Packets \cup {NoPacket} /\ packet \in Packets \cup {NoPacket}
  /\ in_use \subseteq Packets /\ released_twice \in BOOLEAN

ControlTypes ==
  /\ extension \in BOOLEAN
  /\ pc \in {"size", "size LF", "data CR", "data LF", "end CR", "end LF",
             "call", "chunk", "keep", "return", "finish", "end"}
  /\ calls \in {"none", "first", "later"}
  /\ stream \in {"open", "done", "failed"}
  /\ reason \in {"none", "lost", "malformed", "no packet"}

TypeInv == SeqTypes /\ NumTypes /\ PacketTypes /\ ControlTypes

Total == Len(Encoded(response))

(* Bytes of the response read, bytes of the body taken out of it.          *)
Place == Total - Len(wire) - Len(unread)
Taken == Len(delivered) + Len(data)

(* What is still to be read is the rest of the response.                   *)
RestInv ==
  /\ Len(wire) + Len(unread) <= Total
  /\ \A x \in 1 .. Len(unread) : unread[x] = Encoded(response)[Place + x]
  /\ \A x \in 1 .. Len(wire) : wire[x] = Encoded(response)[Total - Len(wire) + x]

(* What was taken out of it is the beginning of the body.                  *)
BytesInv ==
  /\ \A x \in 1 .. Len(delivered) : delivered[x] = Data(x)
  /\ \A x \in 1 .. Len(data) : data[x] = Data(Len(delivered) + x)
  /\ Taken <= DataBefore(response, Len(response) + 1)

(* Chunk i is next.                                                        *)
Between(i) ==
  /\ i \in 1 .. Len(response) + 1
  /\ Place = StartOf(response, i)
  /\ Taken = DataBefore(response, i)

(* x bytes of chunk i are read, among them y of its data.                  *)
Within(i, x, y) ==
  /\ i \in 1 .. Len(response)
  /\ Place = StartOf(response, i) + x
  /\ Taken = DataBefore(response, i) + y

(* So many bytes of the data of chunk i are still to come.                 *)
ToCome(i, left) ==
  /\ i \in 1 .. Len(response)
  /\ left \in 0 .. response[i].n
  /\ Within(i, Header(response[i]) + (response[i].n - left), response[i].n - left)

(* x bytes of the size line of chunk i are read: the size so far is what   *)
(* its digits write.                                                       *)
LineRead(i, x) ==
  LET c == response[i]
  IN  /\ Place = StartOf(response, i) + x
      /\ Taken = DataBefore(response, i)
      /\ IF extension
         THEN c.ext /\ x \in {Len(c.digits) + 1, Len(c.digits) + 2} /\ size = c.n
         ELSE x \in 0 .. Len(c.digits) /\ size = Value(c.digits, x)

InSize(i) == i \in 1 .. Len(response) /\ \E x \in Nat : LineRead(i, x)

At(i) ==
  /\ pc = "call" => IF actual_bytes < total_bytes THEN ToCome(i, total_bytes - actual_bytes)
                                                  ELSE Between(i)
  /\ pc = "size" => \/ InSize(i)
                    \/ Between(i) /\ i = Len(response) + 1 /\ size = 0 /\ ~extension
  /\ pc = "size LF" => Within(i, Header(response[i]) - 1, 0) /\ size = response[i].n
  /\ pc = "chunk" => ToCome(i, size) /\ (size = 0 => response[i].n = 0)
  /\ pc = "data CR" => ToCome(i, 0) /\ size = length
  /\ pc = "data LF" =>
       /\ Within(i, Header(response[i]) + response[i].n + 1, response[i].n)
       /\ response[i].crlf /\ size = length
  /\ pc = "keep" => Between(i) /\ size = length
  /\ pc = "return" => IF length < size THEN ToCome(i, size - length)
                                       ELSE Between(i) /\ length = size
  /\ pc = "end CR" => ToCome(i, 0) /\ response[i].n = 0
  /\ pc = "end LF" =>
       Within(i, Header(response[i]) + 1, 0) /\ response[i].crlf /\ response[i].n = 0
  /\ pc = "finish" => Taken = DataBefore(response, Len(response) + 1)

(* What is held while a chunk is returned is returned with it.             *)
HeldInv ==
  /\ pc \notin {"data CR", "data LF", "keep", "return", "end"} => data = <<>>
  /\ pc = "call" /\ calls = "none" => total_bytes = 0 /\ actual_bytes = 0 /\ unread = <<>>

PlaceInv ==
  /\ BytesInv
  /\ pc # "end" => HeldInv /\ RestInv /\ \E i \in 1 .. Len(response) + 1 : At(i)
  /\ reason = "malformed" => \E i \in DOMAIN response : ~response[i].crlf
  /\ stream = "open" <=> pc # "end"
  /\ stream = "open" => reason = "none"
  /\ stream = "done" => Len(delivered) = DataBefore(response, Len(response) + 1)

Holding == {"data CR", "data LF", "keep", "return"}

PoolInv ==
  /\ calls = "none" => pc = "call" /\ in_use = {}
  /\ in_use \subseteq {packet, response_packet} \cap Packets
  /\ response_packet \in in_use \cup {NoPacket}
  /\ pc \in Holding => packet \in in_use /\ packet # response_packet
  /\ pc \notin Holding => in_use \subseteq {response_packet}
  /\ pc = "end" => in_use = {}
  /\ pc # "end" => stream = "open" /\ ~released_twice
  /\ released_twice => stream = "failed"
  /\ remaining > 0 /\ pc \notin {"data CR", "data LF", "keep"} => response_packet # NoPacket

-----------------------------------------------------------------------------
(* Type correctness. *)

LEMMA ResponseFields ==
  ASSUME NEW r \in Responses
  PROVE  /\ r \in Seq(ChunkType) /\ Len(r) \in Nat /\ DOMAIN r = 1 .. Len(r)
         /\ \A i \in 1 .. Len(r) :
              /\ r[i].digits \in Seq(Nat) /\ r[i].n \in Nat
              /\ r[i].ext \in BOOLEAN /\ r[i].crlf \in BOOLEAN
              /\ Len(r[i].digits) \in Nat \ {0}
              /\ Value(r[i].digits, Len(r[i].digits)) = r[i].n
              /\ r[i].n = 0 => i = Len(r)
<1>1. r \in Seq(ChunkType)
  BY ChunkedAssumption DEF ChunkType
<1>2. Len(r) \in Nat /\ DOMAIN r = 1 .. Len(r)
  BY <1>1
<1>3. ASSUME NEW i \in 1 .. Len(r)
      PROVE  /\ r[i].digits \in Seq(Nat) /\ r[i].n \in Nat
             /\ r[i].ext \in BOOLEAN /\ r[i].crlf \in BOOLEAN
  BY <1>1, ChunkFields
<1>4. ASSUME NEW i \in 1 .. Len(r)
      PROVE  /\ r[i].digits # <<>>
             /\ Value(r[i].digits, Len(r[i].digits)) = r[i].n
             /\ r[i].n = 0 => i = Len(r)
  BY <1>2, ChunkedAssumption
<1>5. ASSUME NEW i \in 1 .. Len(r) PROVE Len(r[i].digits) \in Nat \ {0}
  BY <1>3, <1>4, EmptySeq
<1>. QED  BY <1>1, <1>2, <1>3, <1>4, <1>5

LEMMA TypeInit == Init => TypeInv
<1>. SUFFICES ASSUME Init PROVE TypeInv
  OBVIOUS
<1>1. response \in Responses /\ wire \in Seq(Tokens)
  BY ResponseFields, EncodedAt DEF Init
<1>2. <<>> \in Seq(Tokens) /\ Len(<<>>) = 0
  OBVIOUS
<1>3. SeqTypes
  BY <1>1, <1>2 DEF Init, SeqTypes
<1>4. NumTypes /\ PacketTypes /\ ControlTypes
  BY DEF Init, NumTypes, PacketTypes, ControlTypes
<1>. QED  BY <1>3, <1>4 DEF TypeInv

(* What the actions do to the sequences.                                   *)
LEMMA Cuts ==
  ASSUME NEW s \in Seq(Tokens), NEW k \in 0 .. Len(s)
  PROVE  /\ SubSeq(s, k + 1, Len(s)) \in Seq(Tokens)
         /\ Len(SubSeq(s, k + 1, Len(s))) = Len(s) - k
         /\ \A x \in 1 .. Len(s) - k : SubSeq(s, k + 1, Len(s))[x] = s[k + x]
         /\ SubSeq(s, 1, k) \in Seq(Tokens) /\ Len(SubSeq(s, 1, k)) = k
         /\ \A x \in 1 .. k : SubSeq(s, 1, k)[x] = s[x]
  OBVIOUS

LEMMA Reading1 ==
  ASSUME NEW s \in Seq(Tokens), Len(s) > 0
  PROVE  /\ Head(s) = s[1] /\ Head(s) \in Tokens
         /\ Tail(s) \in Seq(Tokens) /\ Len(Tail(s)) = Len(s) - 1
         /\ \A x \in 1 .. Len(s) - 1 : Tail(s)[x] = s[x + 1]
  OBVIOUS
(* Reads and the actions that return or give up, by what they change.      *)
ReadsOne ==
  /\ remaining > 0 /\ unread' = Tail(unread) /\ remaining' = remaining - 1
  /\ UNCHANGED <<response, wire, data, delivered, length, total_bytes, actual_bytes>>

LEMMA ReadersRead ==
  ReadDigit \/ StartExtension \/ SkipExtension \/ EndSizeLine \/ ReadChunkEnd => ReadsOne
  BY DEF ReadDigit, StartExtension, SkipExtension, EndSizeLine, ReadChunkEnd, Read, Reads,
         ReadsOne, localVars, endVars

LEMMA SeqNext == SeqTypes /\ NumTypes /\ [Next]_vars => SeqTypes'
<1>. SUFFICES ASSUME SeqTypes, NumTypes, [Next]_vars PROVE SeqTypes'
  OBVIOUS
<1>1. /\ wire \in Seq(Tokens) /\ unread \in Seq(Tokens) /\ remaining = Len(unread)
      /\ data \in Seq(Tokens) /\ delivered \in Seq(Tokens) /\ response \in Responses
  BY DEF SeqTypes
<1>2. Len(wire) \in Nat /\ Len(unread) \in Nat /\ size \in Nat
  BY <1>1 DEF NumTypes
<1>3. <<>> \in Seq(Tokens) /\ Len(<<>>) = 0
  OBVIOUS
<1>4. ASSUME NEW k \in 0 .. Len(wire), ReceiveHeader(k) \/ Receive(k) PROVE SeqTypes'
  <2>1. /\ SubSeq(wire, k + 1, Len(wire)) \in Seq(Tokens)
        /\ SubSeq(wire, 1, k) \in Seq(Tokens) /\ Len(SubSeq(wire, 1, k)) = k
    BY <1>1, <1>2, Cuts
  <2>2. /\ wire' = SubSeq(wire, k + 1, Len(wire)) /\ unread' = SubSeq(wire, 1, k)
        /\ remaining' = k /\ UNCHANGED <<response, data, delivered, length>>
    BY <1>4 DEF ReceiveHeader, Receive, Received, localVars, endVars
  <2>. QED  BY <2>1, <2>2 DEF SeqTypes
<1>5. CASE ReadDigit \/ StartExtension \/ SkipExtension \/ EndSizeLine \/ ReadChunkEnd
  <2>1. ReadsOne
    BY <1>5, ReadersRead
  <2>2. Tail(unread) \in Seq(Tokens) /\ Len(Tail(unread)) = Len(unread) - 1
    BY <1>1, <2>1, Reading1 DEF ReadsOne
  <2>. QED  BY <1>1, <2>1, <2>2 DEF ReadsOne, SeqTypes
<1>6. CASE TakeChunk
  <2>. DEFINE n == IF TakeAll THEN size ELSE remaining
  <2>1. n \in 0 .. Len(unread)
    BY <1>1, <1>2 DEF TakeAll
  <2>. HIDE DEF n
  <2>2. /\ length' = n /\ data' = SubSeq(unread, 1, n)
        /\ unread' = SubSeq(unread, n + 1, Len(unread)) /\ remaining' = remaining - n
        /\ UNCHANGED <<response, wire, delivered>>
    BY <1>6 DEF TakeChunk, n, endVars
  <2>3. /\ data' \in Seq(Tokens) /\ Len(data') = n
        /\ unread' \in Seq(Tokens) /\ remaining' = Len(unread')
    BY <1>1, <2>1, <2>2, Cuts
  <2>. QED  BY <1>1, <2>2, <2>3 DEF SeqTypes
<1>7. CASE ReturnChunk
  <2>1. delivered \o data \in Seq(Tokens)
    BY <1>1, Joined
  <2>2. /\ delivered' = delivered \o data /\ data' = <<>> /\ length' = 0
        /\ UNCHANGED <<response, wire, unread, remaining>>
    BY <1>7 DEF ReturnChunk
  <2>. QED  BY <1>1, <1>3, <2>1, <2>2 DEF SeqTypes
<1>8. CASE ReceiveFails \/ Unexpected \/ KeepRestFails \/ Finish
  <2>1. /\ unread' = <<>> /\ remaining' = 0
        /\ UNCHANGED <<response, wire, data, delivered, length>>
    BY <1>8 DEF ReceiveFails, Unexpected, KeepRestFails, GivesUp, Finish, localVars
  <2>. QED  BY <1>3, <2>1 DEF SeqTypes
<1>9. CASE CallAgain \/ EndOfBody \/ KeepRest \/ UNCHANGED vars
  <2>1. UNCHANGED <<response, wire, unread, remaining, data, delivered, length>>
    BY <1>9 DEF CallAgain, EndOfBody, KeepRest, vars, clientVars, localVars, endVars
  <2>. QED  BY <2>1 DEF SeqTypes
<1>. QED  BY <1>4, <1>5, <1>6, <1>7, <1>8, <1>9 DEF Next

LEMMA NumNext == SeqTypes /\ NumTypes /\ [Next]_vars => NumTypes'
<1>. SUFFICES ASSUME SeqTypes, NumTypes, [Next]_vars PROVE NumTypes'
  OBVIOUS
<1>1. /\ size \in Nat /\ total_bytes \in Nat /\ actual_bytes \in Nat /\ length \in Nat
      /\ unread \in Seq(Tokens) /\ remaining = Len(unread)
  BY DEF SeqTypes, NumTypes
<1>2. ASSUME NEW k \in 0 .. Len(wire), ReceiveHeader(k) \/ Receive(k) PROVE NumTypes'
  BY <1>2 DEF ReceiveHeader, Receive, localVars, NumTypes
<1>3. CASE CallAgain
  <2>1. SizeAsked \in Nat
    BY <1>1 DEF SizeAsked
  <2>. QED  BY <1>3, <2>1 DEF CallAgain, clientVars, NumTypes
<1>4. CASE ReadDigit
  <2>1. Head(unread) \in Tokens
    BY <1>1, <1>4, Reading1 DEF ReadDigit, Read
  <2>2. Head(unread).v \in Nat /\ DigitBase \in Nat
    BY <2>1, ChunkedAssumption DEF Tokens
  <2>3. \A m, b, v \in Nat : m * b + v \in Nat
    OBVIOUS
  <2>4. size * DigitBase + Head(unread).v \in Nat
    BY <1>1, <2>2, <2>3
  <2>. QED  BY <1>4, <2>4 DEF ReadDigit, Reads, NumTypes
<1>5. CASE ReturnChunk
  BY <1>1, <1>5 DEF ReturnChunk, Counts, NumTypes
<1>6. CASE \/ ReceiveFails \/ StartExtension \/ SkipExtension \/ EndSizeLine \/ Unexpected
           \/ TakeChunk \/ EndOfBody \/ ReadChunkEnd \/ KeepRest \/ KeepRestFails
           \/ Finish \/ UNCHANGED vars
  <2>1. UNCHANGED <<size, total_bytes, actual_bytes>>
    BY <1>6 DEF ReceiveFails, StartExtension, SkipExtension, EndSizeLine, Unexpected,
                TakeChunk, EndOfBody, ReadChunkEnd, KeepRest, KeepRestFails, Finish, vars,
                GivesUp, Reads, clientVars, localVars
  <2>. QED  BY <2>1 DEF NumTypes
<1>. QED  BY <1>2, <1>3, <1>4, <1>5, <1>6 DEF Next

LEMMA PacketNext == PacketTypes /\ [Next]_vars => PacketTypes'
<1>. SUFFICES ASSUME PacketTypes, [Next]_vars PROVE PacketTypes'
  OBVIOUS
<1>. USE DEF PacketTypes
<1>1. ASSUME NEW k \in 0 .. Len(wire), ReceiveHeader(k) \/ Receive(k) PROVE PacketTypes'
  BY <1>1 DEF ReceiveHeader, Receive
<1>2. CASE ReceiveFails \/ Unexpected \/ KeepRestFails
  BY <1>2 DEF ReceiveFails, Unexpected, KeepRestFails, GivesUp
<1>3. CASE ReturnChunk \/ Finish
  BY <1>3 DEF ReturnChunk, Finish, Released
<1>4. CASE TakeChunk
  BY <1>4 DEF TakeChunk, poolVars
<1>5. CASE KeepRest
  BY <1>5 DEF KeepRest
<1>6. CASE \/ CallAgain \/ ReadDigit \/ StartExtension \/ SkipExtension \/ EndSizeLine
           \/ EndOfBody \/ ReadChunkEnd \/ UNCHANGED vars
  BY <1>6 DEF CallAgain, ReadDigit, StartExtension, SkipExtension, EndSizeLine, EndOfBody,
              ReadChunkEnd, vars, Reads, clientVars, poolVars
<1>. QED  BY <1>1, <1>2, <1>3, <1>4, <1>5, <1>6 DEF Next

LEMMA ControlNext == ControlTypes /\ [Next]_vars => ControlTypes'
<1>. SUFFICES ASSUME ControlTypes, [Next]_vars PROVE ControlTypes'
  OBVIOUS
<1>. USE DEF ControlTypes
<1>1. ASSUME NEW k \in 0 .. Len(wire), ReceiveHeader(k) \/ Receive(k) PROVE ControlTypes'
  <2>1. CASE ReceiveHeader(k)
    BY <2>1 DEF ReceiveHeader, endVars
  <2>2. CASE Receive(k)
    BY <2>2 DEF Receive, localVars, endVars
  <2>. QED  BY <1>1, <2>1, <2>2
<1>2. CASE CallAgain
  BY <1>2 DEF CallAgain, Awaits, endVars
<1>3. CASE ReceiveFails \/ Unexpected \/ KeepRestFails
  BY <1>3 DEF ReceiveFails, Unexpected, KeepRestFails, GivesUp, localVars
<1>4. CASE ReadDigit \/ StartExtension \/ SkipExtension
  BY <1>4 DEF ReadDigit, StartExtension, SkipExtension, Reads, localVars, endVars
<1>5. CASE EndSizeLine \/ ReadChunkEnd
  BY <1>5 DEF EndSizeLine, ReadChunkEnd, Reads, localVars, endVars
<1>6. CASE TakeChunk \/ EndOfBody \/ KeepRest
  BY <1>6 DEF TakeChunk, EndOfBody, KeepRest, localVars, endVars
<1>7. CASE ReturnChunk \/ Finish
  BY <1>7 DEF ReturnChunk, Finish, localVars
<1>8. CASE UNCHANGED vars
  BY <1>8 DEF vars, localVars, endVars
<1>. QED  BY <1>1, <1>2, <1>3, <1>4, <1>5, <1>6, <1>7, <1>8 DEF Next

LEMMA TypeNext == TypeInv /\ [Next]_vars => TypeInv'
  BY SeqNext, NumNext, PacketNext, ControlNext DEF TypeInv

(* The variables of the decoder have their types, and the remaining size   *)
(* is always that of what is unread.                                       *)
THEOREM TypeCorrect == Spec => []TypeOK
<1>1. TypeInv => TypeOK
  <2>. SUFFICES ASSUME TypeInv PROVE TypeOK
    OBVIOUS
  <2>1. length \in Nat /\ remaining = Len(unread)
    BY DEF TypeInv, SeqTypes
  <2>2. {size, length, total_bytes, actual_bytes} \subseteq Nat
    BY <2>1 DEF TypeInv, NumTypes
  <2>3. /\ {response_packet, packet} \subseteq Packets \cup {NoPacket}
        /\ in_use \subseteq Packets /\ released_twice \in BOOLEAN
    BY DEF TypeInv, PacketTypes
  <2>4. /\ extension \in BOOLEAN
        /\ pc \in Reading \cup {"call", "chunk", "keep", "return", "finish", "end"}
        /\ calls \in {"none", "first", "later"}
        /\ stream \in {"open", "done", "failed"}
        /\ reason \in {"none", "lost", "malformed", "no packet"}
    BY DEF TypeInv, ControlTypes, Reading
  <2>. QED  BY <2>1, <2>2, <2>3, <2>4, Zenon DEF TypeOK
<1>. QED  BY <1>1, TypeInit, TypeNext, PTL DEF Spec

-----------------------------------------------------------------------------
(* The packets.  While a chunk is returned its packet is allocated, and    *)
(* not that of the client; otherwise no packet but that one is allocated.  *)

LEMMA PoolInit == Init => PoolInv
  BY DEF Init, PoolInv, Holding

LEMMA PoolNext == TypeInv /\ PoolInv /\ [Next]_vars => PoolInv'
<1>. SUFFICES ASSUME TypeInv, PoolInv, [Next]_vars PROVE PoolInv'
  OBVIOUS
<1>1. /\ remaining \in Nat /\ PacketTypes /\ NoPacket \notin Packets
      /\ wire \in Seq(Tokens) /\ Len(wire) \in Nat
  BY ChunkedAssumption DEF TypeInv, SeqTypes
<1>2. ASSUME NEW why, GivesUp(why), calls # "none" PROVE PoolInv'
  <2>1. in_use' = {} /\ response_packet' = NoPacket /\ stream' = "failed"
    BY <1>2 DEF GivesUp, PoolInv
  <2>2. pc' = "end" /\ pc' \notin Holding /\ ~(remaining' > 0) /\ calls' # "none"
    BY <1>2 DEF GivesUp, Holding
  <2>. QED  BY <2>1, <2>2 DEF PoolInv
<1>14. pc # "call" => calls # "none"
  BY DEF PoolInv
<1>3. ASSUME NEW k \in 0 .. Len(wire), ReceiveHeader(k) PROVE PoolInv'
  <2>1. PICK p \in Packets \ in_use :
          response_packet' = p /\ packet' = p /\ in_use' = in_use \cup {p}
    BY <1>3 DEF ReceiveHeader
  <2>2. /\ pc = "call" /\ pc \notin Holding /\ pc' = "size" /\ pc' \notin Holding
        /\ calls' # "none"
    BY <1>3 DEF ReceiveHeader, Holding
  <2>3. stream' = stream /\ released_twice' = released_twice
    BY <1>3 DEF ReceiveHeader, endVars
  <2>4. in_use \subseteq {response_packet} /\ response_packet \in in_use \cup {NoPacket}
    BY <2>2 DEF PoolInv
  <2>5. in_use = {}
    BY <1>3 DEF ReceiveHeader, PoolInv
  <2>. QED  BY <1>1, <2>1, <2>2, <2>3, <2>5 DEF PoolInv
<1>4. ASSUME NEW k \in 0 .. Len(wire), Receive(k) PROVE PoolInv'
  <2>1. PICK p \in Packets \ (in_use \ {response_packet}) :
          response_packet' = p /\ in_use' = (in_use \ {response_packet}) \cup {p}
    BY <1>4 DEF Receive
  <2>2. /\ pc' = pc /\ packet' = packet /\ stream' = stream
        /\ released_twice' = (released_twice \/ response_packet \notin in_use \cup {NoPacket})
        /\ pc \in Reading \cup {"chunk"} /\ remaining = 0 /\ calls' = calls
    BY <1>4 DEF Receive, localVars, endVars, WaitsForBytes
  <2>3. CASE pc \in Holding
    <3>1. packet \in in_use \ {response_packet} /\ packet # p
      BY <2>1, <2>3 DEF PoolInv
    <3>2. in_use \ {response_packet} \subseteq {packet}
      BY DEF PoolInv
    <3>. QED  BY <1>1, <2>1, <2>2, <2>3, <3>1, <3>2 DEF PoolInv, Holding, Reading, PacketTypes
  <2>4. CASE pc \notin Holding
    <3>1. in_use \ {response_packet} = {}
      BY <2>4 DEF PoolInv
    <3>. QED  BY <1>1, <2>1, <2>2, <2>4, <3>1 DEF PoolInv, Holding, Reading, PacketTypes
  <2>. QED  BY <2>3, <2>4
<1>5. CASE ReceiveFails \/ Unexpected \/ KeepRestFails
  <2>1. calls # "none"
    BY <1>5, <1>14 DEF ReceiveFails, WaitsForBytes, Unexpected, KeepRestFails, Reading
  <2>. QED  BY <1>2, <1>5, <2>1 DEF ReceiveFails, Unexpected, KeepRestFails
<1>6. CASE \/ ReadDigit \/ StartExtension \/ SkipExtension \/ EndSizeLine
           \/ CallAgain \/ EndOfBody
  <2>1. UNCHANGED <<packet, response_packet, in_use, released_twice, stream>>
    BY <1>6 DEF ReadDigit, StartExtension, SkipExtension, EndSizeLine, CallAgain, EndOfBody,
                Reads, clientVars, endVars, poolVars
  <2>2. remaining' = remaining \/ (remaining > 0 /\ remaining' = remaining - 1)
    BY <1>6 DEF ReadDigit, StartExtension, SkipExtension, EndSizeLine, CallAgain, EndOfBody,
                Read, clientVars
  <2>3. remaining' > 0 => remaining > 0
    BY <1>1, <2>2
  <2>4. /\ pc \in {"size", "size LF", "call", "chunk"}
        /\ pc' \in {"size", "size LF", "chunk", "end CR"}
    BY <1>6 DEF ReadDigit, StartExtension, SkipExtension, EndSizeLine, CallAgain, EndOfBody,
                Read, Awaits
  <2>5. pc \notin Holding \cup {"end"} /\ pc' \notin Holding \cup {"end"}
    BY <2>4 DEF Holding
  <2>6. calls' # "none"
    BY <1>6, <1>14 DEF ReadDigit, StartExtension, SkipExtension, EndSizeLine, CallAgain,
                       EndOfBody, Read, Reads
  <2>. QED  BY <2>1, <2>3, <2>5, <2>6 DEF PoolInv, Holding
<1>8. CASE TakeChunk
  <2>1. /\ packet' = response_packet /\ response_packet' = NoPacket
        /\ UNCHANGED <<in_use, released_twice, stream>>
    BY <1>8 DEF TakeChunk, endVars, poolVars
  <2>2. pc = "chunk" /\ pc \notin Holding /\ remaining > 0
    BY <1>8 DEF TakeChunk, Holding
  <2>3. packet' \in in_use /\ packet' # NoPacket /\ in_use \subseteq {packet'}
    BY <1>1, <2>1, <2>2 DEF PoolInv, PacketTypes
  <2>4. pc' = "data CR" \/ (pc' = "return" /\ ~(remaining' > 0))
    <3>1. CASE TakeAll
      BY <1>8, <3>1 DEF TakeChunk
    <3>2. CASE ~TakeAll
      <4>1. pc' = "return" /\ remaining' = remaining - remaining
        BY <1>8, <3>2 DEF TakeChunk
      <4>. QED  BY <1>1, <4>1
    <3>. QED  BY <3>1, <3>2
  <2>5. pc' \in Holding /\ pc' # "end" /\ calls' # "none"
    BY <1>8, <1>14, <2>4 DEF Holding, TakeChunk
  <2>. QED  BY <2>1, <2>2, <2>3, <2>4, <2>5 DEF PoolInv
<1>9. CASE ReadChunkEnd
  BY <1>1, <1>9, <1>14 DEF ReadChunkEnd, Read, Reads, PoolInv, Holding, localVars, endVars, poolVars
<1>10. CASE KeepRest
  BY <1>1, <1>10, <1>14 DEF KeepRest, NeedsPacket, PoolInv, Holding, endVars, PacketTypes
<1>11. CASE ReturnChunk
  <2>1. packet \in in_use /\ in_use \ {packet} \subseteq {response_packet}
    BY <1>11 DEF ReturnChunk, PoolInv, Holding
  <2>. QED  BY <1>1, <1>11, <1>14, <2>1 DEF ReturnChunk, Released, PoolInv, Holding, PacketTypes
<1>12. CASE Finish
  BY <1>1, <1>12, <1>14 DEF Finish, Released, PoolInv, Holding, PacketTypes
<1>13. CASE UNCHANGED vars
  BY <1>13 DEF vars, clientVars, endVars, poolVars, PoolInv
<1>. QED
  BY <1>3, <1>4, <1>5, <1>6, <1>8, <1>9, <1>10, <1>11, <1>12, <1>13 DEF Next

(* However the response ends no packet stays allocated, and none is        *)
(* released twice unless body_get fails while it has a packet to return.   *)
THEOREM PoolIsBalanced == Spec => []PoolBalanced
<1>1. Init => TypeInv /\ PoolInv
  BY TypeInit, PoolInit
<1>2. TypeInv /\ PoolInv /\ [Next]_vars => TypeInv' /\ PoolInv'
  BY TypeNext, PoolNext
<1>3. PoolInv => PoolBalanced
  BY DEF PoolInv, PoolBalanced
<1>. QED  BY <1>1, <1>2, <1>3, PTL DEF Spec

-----------------------------------------------------------------------------
(* The place in the response. *)

(* What receiving, reading and taking bytes do to it.                      *)
LEMMA RestReceived ==
  ASSUME SeqTypes, RestInv, NEW k \in 0 .. Len(wire), Len(unread) = 0,
         Len(wire') = Len(wire) - k, \A x \in 1 .. Len(wire) - k : wire'[x] = wire[k + x],
         Len(unread') = k, \A x \in 1 .. k : unread'[x] = wire[x],
         response' = response
  PROVE  RestInv' /\ Place' = Place
<1>1. Len(wire) \in Nat /\ k \in Nat /\ Len(wire') \in Nat
  BY DEF SeqTypes
<1>2. Total \in Nat /\ Total' = Total /\ Encoded(response') = Encoded(response)
  BY ResponseFields, EncodedAt DEF SeqTypes, Total
<1>4. \A x \in 1 .. Len(wire) : wire[x] = Encoded(response)[Total - Len(wire) + x]
  BY DEF RestInv
<1>5. Len(wire) <= Total
  BY <1>1 DEF RestInv
<1>6. Place = Total - Len(wire) /\ Place' = Place
  BY <1>1, <1>2 DEF Place
<1>7. ASSUME NEW x \in 1 .. Len(unread') PROVE unread'[x] = Encoded(response')[Place' + x]
  <2>1. x \in 1 .. k
    OBVIOUS
  <2>2. unread'[x] = wire[x]
    BY <2>1
  <2>3. x \in 1 .. Len(wire)
    BY <1>1, <2>1
  <2>4. wire[x] = Encoded(response)[Total - Len(wire) + x]
    BY <1>4, <2>3
  <2>. QED  BY <1>2, <1>6, <2>2, <2>4
<1>8. ASSUME NEW x \in 1 .. Len(wire')
      PROVE  wire'[x] = Encoded(response')[Total' - Len(wire') + x]
  <2>1. x \in 1 .. Len(wire) - k /\ k + x \in 1 .. Len(wire)
    BY <1>1
  <2>2. Total' - Len(wire') + x = Total - Len(wire) + (k + x)
    BY <1>1, <1>2
  <2>. QED  BY <1>2, <1>4, <2>1, <2>2
<1>9. Len(wire') + Len(unread') <= Total'
  BY <1>1, <1>2, <1>5
<1>. QED  BY <1>6, <1>7, <1>8, <1>9 DEF RestInv

LEMMA RestTaken ==
  ASSUME SeqTypes, RestInv, NEW n \in 0 .. Len(unread),
         unread' \in Seq(Tokens), Len(unread') = Len(unread) - n,
         \A x \in 1 .. Len(unread) - n : unread'[x] = unread[n + x],
         wire' = wire, response' = response
  PROVE  RestInv' /\ Place' = Place + n /\ Place \in Nat
<1>1. Len(wire) \in Nat /\ Len(unread) \in Nat /\ n \in Nat
  BY DEF SeqTypes
<1>2. Total \in Nat /\ Total' = Total /\ Encoded(response') = Encoded(response)
  BY ResponseFields, EncodedAt DEF SeqTypes, Total
<1>3. Place' = Place + n /\ Place \in Nat
  BY <1>1, <1>2 DEF Place, RestInv
<1>4. ASSUME NEW x \in 1 .. Len(unread') PROVE unread'[x] = Encoded(response')[Place' + x]
  <2>1. x \in 1 .. Len(unread) - n /\ n + x \in 1 .. Len(unread) /\ Place' + x = Place + (n + x)
    BY <1>1, <1>3
  <2>2. unread[n + x] = Encoded(response)[Place + (n + x)]
    BY <2>1 DEF RestInv
  <2>. QED  BY <1>2, <2>1, <2>2
<1>5. ASSUME NEW x \in 1 .. Len(wire')
      PROVE  wire'[x] = Encoded(response')[Total' - Len(wire') + x]
  BY <1>2 DEF RestInv
<1>6. Len(wire') + Len(unread') <= Total'
  BY <1>1, <1>2 DEF RestInv
<1>. QED  BY <1>3, <1>4, <1>5, <1>6 DEF RestInv

LEMMA RestRead ==
  ASSUME SeqTypes, RestInv, ReadsOne
  PROVE  RestInv' /\ Place' = Place + 1 /\ Taken' = Taken
<1>1. /\ unread \in Seq(Tokens) /\ Len(unread) > 0 /\ unread' = Tail(unread)
      /\ UNCHANGED <<response, wire, data, delivered>>
  BY DEF SeqTypes, ReadsOne
<1>2. /\ unread' \in Seq(Tokens) /\ Len(unread') = Len(unread) - 1
      /\ \A x \in 1 .. Len(unread) - 1 : unread'[x] = unread[x + 1]
  BY <1>1, Reading1
<1>3. 1 \in 0 .. Len(unread) /\ \A x \in 1 .. Len(unread) - 1 : x + 1 = 1 + x
  BY <1>1
<1>4. \A x \in 1 .. Len(unread) - 1 : unread'[x] = unread[1 + x]
  BY <1>2, <1>3
<1>5. RestInv' /\ Place' = Place + 1
  BY <1>1, <1>2, <1>3, <1>4, RestTaken
<1>. QED  BY <1>1, <1>5 DEF Taken

(* The numbers of a chunk.                                                 *)
LEMMA ChunkNumbers ==
  ASSUME SeqTypes, NEW i \in 1 .. Len(response)
  PROVE  /\ Header(response[i]) \in Nat /\ Whole(response[i]) \in Nat
         /\ response[i].n \in Nat /\ Len(response[i].digits) \in Nat \ {0}
         /\ response[i].ext \in BOOLEAN /\ response[i].crlf \in BOOLEAN
         /\ Header(response[i]) = Len(response[i].digits) + (IF response[i].ext THEN 4 ELSE 2)
         /\ Whole(response[i]) = Header(response[i]) + response[i].n
                                   + (IF response[i].crlf THEN 2 ELSE 0)
         /\ StartOf(response, i) \in Nat /\ DataBefore(response, i) \in Nat
         /\ StartOf(response, i + 1) = StartOf(response, i) + Whole(response[i])
         /\ DataBefore(response, i + 1) = DataBefore(response, i) + response[i].n
         /\ DataBefore(response, i + 1) <= DataBefore(response, Len(response) + 1)
         /\ DataBefore(response, Len(response) + 1) \in Nat
         /\ Len(response) \in Nat
<1>1. response \in Responses
  BY DEF SeqTypes
<1>2. response \in Seq(ChunkType) /\ Len(response) \in Nat
  BY <1>1, ResponseFields
<1>3. /\ response[i].n \in Nat /\ Len(response[i].digits) \in Nat \ {0}
      /\ response[i].ext \in BOOLEAN /\ response[i].crlf \in BOOLEAN
  BY <1>1, ResponseFields
<1>4. i \in 1 .. Len(response) + 1 /\ i + 1 \in 1 .. Len(response) + 1
      /\ Len(response) + 1 \in 1 .. Len(response) + 1 /\ i + 1 \in 1 .. (Len(response) + 1)
  BY <1>2
<1>5. /\ Header(response[i]) \in Nat /\ Whole(response[i]) \in Nat
      /\ Header(response[i]) = Len(response[i].digits) + (IF response[i].ext THEN 4 ELSE 2)
      /\ Whole(response[i]) = Header(response[i]) + response[i].n
                                + (IF response[i].crlf THEN 2 ELSE 0)
  BY <1>2, ChunkAt, Zenon DEF IsChunk
<1>6. /\ StartOf(response, i) \in Nat
      /\ StartOf(response, i + 1) = StartOf(response, i) + Whole(response[i])
  BY <1>2, <1>4, StartSteps
<1>7. /\ DataBefore(response, i) \in Nat /\ DataBefore(response, Len(response) + 1) \in Nat
      /\ DataBefore(response, i + 1) = DataBefore(response, i) + response[i].n
      /\ DataBefore(response, i + 1) <= DataBefore(response, Len(response) + 1)
  BY <1>2, <1>4, DataSteps
<1>. QED  BY <1>2, <1>3, <1>5, <1>6, <1>7

(* Byte x of chunk i is where the reader is when x - 1 of them are read.   *)
LEMMA TokenAt ==
  ASSUME SeqTypes, NEW i \in 1 .. Len(response), NEW x \in 1 .. Whole(response[i])
  PROVE  Encoded(response)[StartOf(response, i) + x] = Chunk(response, i)[x]
<1>1. response \in Seq(ChunkType)
  BY ResponseFields DEF SeqTypes
<1>. QED  BY <1>1, EncodedAt DEF IsEncoding

LEMMA HeadIs ==
  ASSUME SeqTypes, RestInv, remaining > 0
  PROVE  Head(unread) = Encoded(response)[Place + 1]
<1>1. unread \in Seq(Tokens) /\ Len(unread) > 0
  BY DEF SeqTypes
<1>2. Head(unread) = unread[1] /\ 1 \in 1 .. Len(unread)
  BY <1>1, Reading1
<1>. QED  BY <1>2 DEF RestInv

LEMMA NotAtEnd ==
  ASSUME SeqTypes, RestInv, remaining > 0
  PROVE  Place # StartOf(response, Len(response) + 1)
<1>1. /\ Total = StartOf(response, Len(response) + 1) /\ Total \in Nat
  BY ResponseFields, EncodedAt DEF SeqTypes, IsEncoding, Total
<1>2. Place = Total - Len(wire) - Len(unread) /\ Len(wire) \in Nat /\ Len(unread) \in Nat \ {0}
  BY DEF Place, SeqTypes
<1>3. Place # Total
  BY <1>1, <1>2
<1>. QED  BY <1>1, <1>3

LEMMA FirstIsDigit ==
  ASSUME SeqTypes, NEW i \in 1 .. Len(response)
  PROVE  Encoded(response)[StartOf(response, i) + 1].t = "digit"
<1>. DEFINE w == Whole(response[i])
            d == Len(response[i].digits)
<1>1. /\ d \in Nat \ {0} /\ Header(response[i]) \in Nat /\ response[i].n \in Nat
      /\ Header(response[i]) = d + (IF response[i].ext THEN 4 ELSE 2)
      /\ w = Header(response[i]) + response[i].n + (IF response[i].crlf THEN 2 ELSE 0)
  BY ChunkNumbers
<1>2. IsChunk(Chunk(response, i), response[i], DataBefore(response, i))
  BY ResponseFields, ChunkAt DEF SeqTypes
<1>. HIDE DEF w, d
<1>3. 1 \in 1 .. w /\ 1 \in 1 .. d
  BY <1>1
<1>4. Chunk(response, i)[1] = Digit(response[i].digits[1])
  BY <1>2, <1>3 DEF IsChunk, d
<1>5. Encoded(response)[StartOf(response, i) + 1] = Chunk(response, i)[1]
  BY <1>3, TokenAt DEF w
<1>. QED  BY <1>4, <1>5 DEF Digit

(* Which byte comes next within chunk i.                                   *)
NextWithin(i, x, t) ==
  LET c == response[i]
      d == Len(c.digits)
      h == Header(c)
  IN  /\ x \in 0 .. d - 1 => t = Digit(c.digits[x + 1]) /\ c.digits[x + 1] \in Nat
      /\ c.ext /\ x = d => t = Semicolon
      /\ c.ext /\ x = d + 1 => t = Digit(1)
      /\ x = h - 2 => t = CR
      /\ x = h - 1 => t = LF
      /\ c.crlf /\ x = h + c.n => t = CR
      /\ c.crlf /\ x = h + c.n + 1 => t = LF
      /\ ~c.crlf /\ x = h + c.n => t.t = "digit"

LEMMA NextToken ==
  ASSUME SeqTypes, RestInv, remaining > 0,
         NEW i \in 1 .. Len(response), NEW x \in Nat, Place = StartOf(response, i) + x
  PROVE  NextWithin(i, x, Head(unread))
<1>. DEFINE c == response[i]
            d == Len(c.digits)
            h == Header(c)
            n == c.n
            w == Whole(c)
            s == StartOf(response, i)
            t == Head(unread)
            u == Chunk(response, i)
<1>1. /\ h \in Nat /\ n \in Nat /\ d \in Nat \ {0} /\ s \in Nat /\ w \in Nat
      /\ c.ext \in BOOLEAN /\ c.crlf \in BOOLEAN
      /\ h = d + (IF c.ext THEN 4 ELSE 2) /\ w = h + n + (IF c.crlf THEN 2 ELSE 0)
      /\ StartOf(response, i + 1) = s + w
  BY ChunkNumbers
<1>2. IsChunk(u, c, DataBefore(response, i))
  BY ResponseFields, ChunkAt DEF SeqTypes
<1>3. /\ \A y \in 1 .. d : u[y] = Digit(c.digits[y])
      /\ c.ext => u[d + 1] = Semicolon /\ u[d + 2] = Digit(1)
      /\ u[h - 1] = CR /\ u[h] = LF
      /\ c.crlf => u[h + n + 1] = CR /\ u[h + n + 2] = LF
  BY <1>2, Zenon DEF IsChunk
<1>4. \A y \in 1 .. d : c.digits[y] \in Nat
  <2>1. c.digits \in Seq(Nat)
    BY ResponseFields DEF SeqTypes
  <2>. HIDE DEF c
  <2>. QED  BY <2>1, ElementOfSeq
<1>5. t = Encoded(response)[s + (x + 1)]
  <2>. HIDE DEF s
  <2>1. Place + 1 = s + (x + 1)
    BY <1>1 DEF s
  <2>. QED  BY <2>1, HeadIs
<1>6. x + 1 \in 1 .. w => t = u[x + 1]
  BY <1>5, TokenAt
<1>7. ASSUME ~c.crlf, x = h + n PROVE t.t = "digit"
  <2>1. Place = StartOf(response, i + 1)
    <3>1. Place = s + x
      OBVIOUS
    <3>. HIDE DEF c, d, h, n, w, s
    <3>. QED  BY <1>1, <1>7, <3>1
  <2>2. CASE i = Len(response)
    BY <2>1, <2>2, NotAtEnd
  <2>3. CASE i # Len(response)
    <3>1. i + 1 \in 1 .. Len(response)
      BY <2>3, ChunkNumbers
    <3>. QED  BY <2>1, <3>1, HeadIs, FirstIsDigit
  <2>. QED  BY <2>2, <2>3
<1>. HIDE DEF c, d, h, n, w, s, t, u
<1>8. x \in 0 .. d - 1 => t = Digit(c.digits[x + 1]) /\ c.digits[x + 1] \in Nat
  <2>. SUFFICES ASSUME x \in 0 .. d - 1
                PROVE  t = Digit(c.digits[x + 1]) /\ c.digits[x + 1] \in Nat
    OBVIOUS
  <2>1. x + 1 \in 1 .. d /\ x + 1 \in 1 .. w
    BY <1>1
  <2>. QED  BY <1>3, <1>4, <1>6, <2>1
<1>9. c.ext /\ x = d => t = Semicolon
  BY <1>1, <1>3, <1>6
<1>10. c.ext /\ x = d + 1 => t = Digit(1)
  <2>. SUFFICES ASSUME c.ext, x = d + 1 PROVE t = Digit(1)
    OBVIOUS
  <2>1. x + 1 = d + 2 /\ x + 1 \in 1 .. w
    BY <1>1
  <2>. QED  BY <1>3, <1>6, <2>1
<1>11. x = h - 2 => t = CR
  <2>. SUFFICES ASSUME x = h - 2 PROVE t = CR
    OBVIOUS
  <2>1. x + 1 = h - 1 /\ x + 1 \in 1 .. w
    BY <1>1
  <2>. QED  BY <1>3, <1>6, <2>1
<1>12. x = h - 1 => t = LF
  <2>. SUFFICES ASSUME x = h - 1 PROVE t = LF
    OBVIOUS
  <2>1. x + 1 = h /\ x + 1 \in 1 .. w
    BY <1>1
  <2>. QED  BY <1>3, <1>6, <2>1
<1>13. c.crlf /\ x = h + n => t = CR
  BY <1>1, <1>3, <1>6
<1>14. c.crlf /\ x = h + n + 1 => t = LF
  <2>. SUFFICES ASSUME c.crlf, x = h + n + 1 PROVE t = LF
    OBVIOUS
  <2>1. x + 1 = h + n + 2 /\ x + 1 \in 1 .. w
    BY <1>1
  <2>. QED  BY <1>3, <1>6, <2>1
<1>. QED  BY <1>7, <1>8, <1>9, <1>10, <1>11, <1>12, <1>13, <1>14 DEF NextWithin, c, d, h, n, t

(* The data of chunk i, from byte q of it on.                              *)
LEMMA DataAt ==
  ASSUME SeqTypes, RestInv, NEW i \in 1 .. Len(response), NEW q \in Nat, NEW m \in Nat,
         m <= Len(unread), q + m <= response[i].n,
         Place = StartOf(response, i) + (Header(response[i]) + q)
  PROVE  \A x \in 1 .. m : unread[x] = Data(DataBefore(response, i) + q + x)
<1>. SUFFICES ASSUME NEW x \in 1 .. m PROVE unread[x] = Data(DataBefore(response, i) + q + x)
  OBVIOUS
<1>. DEFINE h == Header(response[i])
            n == response[i].n
            w == Whole(response[i])
            s == StartOf(response, i)
            b == DataBefore(response, i)
<1>1. /\ h \in Nat /\ n \in Nat /\ s \in Nat /\ w \in Nat /\ b \in Nat
      /\ response[i].crlf \in BOOLEAN /\ w = h + n + (IF response[i].crlf THEN 2 ELSE 0)
  BY ChunkNumbers
<1>2. Len(unread) \in Nat
  BY DEF SeqTypes
<1>3. IsChunk(Chunk(response, i), response[i], b)
  BY ResponseFields, ChunkAt DEF SeqTypes
<1>4. \A y \in 1 .. n : Chunk(response, i)[h + y] = Data(b + y)
  BY <1>3, Zenon DEF IsChunk
<1>8. Place = s + (h + q) /\ q + m <= n
  OBVIOUS
<1>. HIDE DEF h, n, w, s, b
<1>5. /\ x \in 1 .. Len(unread) /\ q + x \in 1 .. n /\ h + (q + x) \in 1 .. w
      /\ Place + x = s + (h + (q + x)) /\ b + q + x = b + (q + x)
  <2>1. x \in Nat /\ x >= 1 /\ x <= m /\ m \in Nat /\ q \in Nat
    OBVIOUS
  <2>2. x <= Len(unread) /\ q + x <= n
    <3>1. m <= Len(unread) /\ Len(unread) \in Nat
      BY <1>2
    <3>2. x <= Len(unread)
      BY <2>1, <3>1
    <3>3. q + m <= n /\ n \in Nat
      BY <1>1, <1>8
    <3>4. q + x <= n
      BY <2>1, <3>3
    <3>. QED  BY <3>2, <3>4
  <2>3. x \in 1 .. Len(unread) /\ q + x \in 1 .. n
    BY <1>1, <1>2, <2>1, <2>2
  <2>4. w >= h + n
    BY <1>1
  <2>5. h + (q + x) \in 1 .. w
    BY <1>1, <2>1, <2>2, <2>4
  <2>6. Place + x = s + (h + (q + x)) /\ b + q + x = b + (q + x)
    BY <1>1, <1>8, <2>1
  <2>. QED  BY <2>3, <2>5, <2>6
<1>6. unread[x] = Encoded(response)[s + (h + (q + x))]
  BY <1>5 DEF RestInv
<1>7. Encoded(response)[s + (h + (q + x))] = Chunk(response, i)[h + (q + x)]
  BY <1>5, TokenAt DEF s, w
<1>. QED  BY <1>4, <1>5, <1>6, <1>7 DEF b

LEMMA Kinds ==
  /\ \A v \in Nat : Digit(v).t = "digit" /\ Digit(v).v = v
  /\ Semicolon.t = "semicolon" /\ CR.t = "cr" /\ LF.t = "lf"
  BY DEF Digit, Semicolon, CR, LF

(* A reader in a size line is in that of some chunk, and which byte comes  *)
(* next is known.                                                          *)
LEMMA InLine ==
  ASSUME SeqTypes, RestInv, remaining > 0, pc = "size",
         NEW i \in 1 .. Len(response) + 1, At(i)
  PROVE  /\ i \in 1 .. Len(response)
         /\ \E x \in Nat : LineRead(i, x) /\ NextWithin(i, x, Head(unread))
<1>1. InSize(i)
  BY NotAtEnd DEF At, Between
<1>2. i \in 1 .. Len(response)
  BY <1>1 DEF InSize
<1>3. PICK x \in Nat : LineRead(i, x)
  BY <1>1 DEF InSize
<1>4. NextWithin(i, x, Head(unread))
  BY <1>2, <1>3, NextToken DEF LineRead
<1>. QED  BY <1>2, <1>3, <1>4

(* What the readers leave of the invariant.                                *)
LEMMA ReaderPlace ==
  ASSUME SeqTypes, PlaceInv, ReadsOne, UNCHANGED <<stream, reason>>,
         pc \notin {"call", "end"}, pc' \notin {"call", "end"},
         pc' \notin Holding => pc \notin Holding,
         \E i \in 1 .. Len(response) + 1 : At(i)'
  PROVE  PlaceInv'
<1>1. HeldInv /\ RestInv
  BY DEF PlaceInv
<1>2. RestInv' /\ Taken' = Taken
  BY <1>1, RestRead
<1>3. UNCHANGED <<response, delivered, data>>
  BY DEF ReadsOne
<1>4. HeldInv'
  BY <1>1, <1>3 DEF HeldInv, Holding
<1>5. BytesInv'
  BY <1>2, <1>3 DEF PlaceInv, BytesInv
<1>. QED  BY <1>2, <1>3, <1>4, <1>5 DEF PlaceInv

LEMMA PlaceReadLine ==
  TypeInv /\ PlaceInv /\ pc = "size"
    /\ (ReadDigit \/ StartExtension \/ SkipExtension \/ EndSizeLine) => PlaceInv'
<1>. SUFFICES ASSUME TypeInv, PlaceInv, pc = "size",
                     ReadDigit \/ StartExtension \/ SkipExtension \/ EndSizeLine
              PROVE  PlaceInv'
  OBVIOUS
<1>1. /\ SeqTypes /\ RestInv /\ remaining > 0 /\ ReadsOne /\ UNCHANGED <<stream, reason>>
      /\ extension \in BOOLEAN
  BY ReadersRead DEF TypeInv, ControlTypes, PlaceInv, ReadsOne, ReadDigit, StartExtension,
                     SkipExtension, EndSizeLine, Reads, endVars
<1>2. PICK i \in 1 .. Len(response) + 1 : At(i)
  BY DEF PlaceInv
<1>3. PICK x \in Nat : LineRead(i, x) /\ NextWithin(i, x, Head(unread))
  BY <1>1, <1>2, InLine
<1>4. i \in 1 .. Len(response)
  BY <1>1, <1>2, InLine
<1>5. RestInv' /\ Place' = Place + 1 /\ Taken' = Taken /\ response' = response
  BY <1>1, RestRead DEF ReadsOne
<1>. DEFINE c == response[i]
            d == Len(c.digits)
            h == Header(c)
            t == Head(unread)
<1>6. /\ d \in Nat \ {0} /\ c.digits \in Seq(Nat) /\ c.ext \in BOOLEAN /\ c.n \in Nat
      /\ h = d + (IF c.ext THEN 4 ELSE 2) /\ StartOf(response, i) \in Nat
      /\ DataBefore(response, i) \in Nat
      /\ Value(c.digits, d) = c.n
  BY <1>1, <1>4, ChunkNumbers, ResponseFields DEF SeqTypes
<1>7. /\ Place = StartOf(response, i) + x /\ Taken = DataBefore(response, i)
      /\ extension => c.ext /\ x \in {d + 1, d + 2} /\ size = c.n
      /\ ~extension => x \in 0 .. d /\ size = Value(c.digits, x)
  BY <1>3 DEF LineRead
<1>8. /\ x \in 0 .. d - 1 => t = Digit(c.digits[x + 1]) /\ c.digits[x + 1] \in Nat
      /\ c.ext /\ x = d => t = Semicolon
      /\ c.ext /\ x = d + 1 => t = Digit(1)
      /\ x = h - 2 => t = CR
  BY <1>3 DEF NextWithin
<1>9. /\ Place' = StartOf(response', i) + (x + 1) /\ Taken' = DataBefore(response', i)
      /\ x + 1 \in Nat /\ i \in 1 .. Len(response') /\ i \in 1 .. Len(response) + 1
  BY <1>4, <1>5, <1>6, <1>7
<1>. HIDE DEF d, h, t
<1>15. /\ x \in 0 .. d - 1 => t.t = "digit"
       /\ c.ext /\ x = d => t.t = "semicolon"
       /\ c.ext /\ x = d + 1 => t.t = "digit"
       /\ x = h - 2 => t.t = "cr"
  BY <1>8, Kinds
<1>10. ASSUME LineRead(i, x + 1)', pc' = "size" PROVE PlaceInv'
  <2>1. At(i)'
    BY <1>9, <1>10 DEF At, InSize
  <2>. QED  BY <1>1, <1>10, <2>1, ReaderPlace DEF Holding
<1>11. CASE ReadDigit
  <2>1. ~extension /\ ~extension' /\ t.t = "digit" /\ size' = size * DigitBase + t.v /\ pc' = "size"
    BY <1>11 DEF ReadDigit, Read, t
  <2>2. x # d
    <3>. HIDE DEF c
    <3>. QED  BY <1>6, <1>8, <2>1, Kinds
  <2>3. x \in 0 .. d - 1 /\ x + 1 \in 1 .. d /\ x + 1 \in 0 .. d
    BY <1>6, <1>7, <2>1, <2>2
  <2>4. size' = Value(c.digits, x + 1)
    <3>1. Value(c.digits, x + 1) = Value(c.digits, (x + 1) - 1) * DigitBase + c.digits[x + 1]
      <4>. HIDE DEF c
      <4>. QED  BY <1>6, <2>3, ValueSteps, ChunkedAssumption DEF d
    <3>2. (x + 1) - 1 = x
      OBVIOUS
    <3>3. t.v = c.digits[x + 1]
      BY <1>8, <2>3, Kinds
    <3>. QED  BY <1>7, <2>1, <3>1, <3>2, <3>3
  <2>5. LineRead(i, x + 1)'
    BY <1>5, <1>9, <2>1, <2>3, <2>4 DEF LineRead, d
  <2>. QED  BY <1>10, <2>1, <2>5
<1>12. CASE StartExtension
  <2>1. /\ ~extension /\ extension' /\ t.t = "semicolon" /\ size' = size /\ pc' = "size"
        /\ extension' = TRUE
    BY <1>12 DEF StartExtension, Read, t
  <2>2. c.ext /\ x = d
    <3>. HIDE DEF c
    <3>1. x = d
      BY <1>6, <1>7, <1>15, <2>1
    <3>. QED  BY <1>6, <1>15, <2>1, <3>1
  <2>3. LineRead(i, x + 1)'
    BY <1>5, <1>6, <1>7, <1>9, <2>1, <2>2 DEF LineRead, d
  <2>. QED  BY <1>10, <2>1, <2>3
<1>13. CASE SkipExtension
  <2>1. extension /\ extension' /\ t.t # "cr" /\ size' = size /\ pc' = "size" /\ extension' = TRUE
    BY <1>1, <1>13 DEF SkipExtension, Read, t, localVars
  <2>2. c.ext /\ x = d + 1
    <3>. HIDE DEF c
    <3>. QED  BY <1>6, <1>7, <1>15, <2>1
  <2>3. x + 1 = d + 2
    BY <1>6, <2>2
  <2>4. LineRead(i, x + 1)'
    BY <1>5, <1>7, <1>9, <2>1, <2>2, <2>3 DEF LineRead, d
  <2>. QED  BY <1>10, <2>1, <2>4
<1>14. CASE EndSizeLine
  <2>1. t.t = "cr" /\ size' = size /\ pc' = "size LF"
    BY <1>14 DEF EndSizeLine, Read, t, localVars
  <2>2. x + 1 = h - 1 /\ size = c.n
    <3>. HIDE DEF c
    <3>3. x \notin 0 .. d - 1 /\ ~(c.ext /\ x = d) /\ ~(c.ext /\ x = d + 1)
      BY <1>15, <2>1
    <3>4. d \in Nat /\ h = d + (IF c.ext THEN 4 ELSE 2)
      BY <1>6
    <3>1. CASE extension
      <4>1. c.ext /\ x = d + 2 /\ size = c.n
        BY <1>7, <3>1, <3>3
      <4>. QED  BY <3>4, <4>1
    <3>2. CASE ~extension
      <4>1. x \in 0 .. d /\ size = Value(c.digits, x)
        BY <1>7, <3>2
      <4>2. x = d
        BY <3>3, <3>4, <4>1
      <4>. QED  BY <1>6, <3>3, <3>4, <4>1, <4>2
    <3>. QED  BY <3>1, <3>2
  <2>3. Within(i, Header(response[i]) - 1, 0)' /\ size' = response'[i].n
    <3>1. Place' = StartOf(response', i) + (h - 1) /\ Taken' = DataBefore(response', i) + 0
      BY <1>5, <1>6, <1>9, <2>2
    <3>. QED  BY <1>5, <1>9, <2>1, <2>2, <3>1 DEF Within, h
  <2>4. At(i)'
    BY <2>1, <2>3 DEF At
  <2>. QED  BY <1>1, <1>9, <2>1, <2>4, ReaderPlace DEF Holding
<1>. QED  BY <1>11, <1>12, <1>13, <1>14

(* The place of the readers of CRLFs, and what they find there.            *)
LEMMA InChunk ==
  ASSUME SeqTypes, RestInv, remaining > 0,
         NEW i, NEW x, NEW y, Within(i, x, y), x \in Nat
  PROVE  /\ i \in 1 .. Len(response) /\ NextWithin(i, x, Head(unread))
         /\ Place = StartOf(response, i) + x /\ Taken = DataBefore(response, i) + y
  BY NextToken DEF Within

LEMMA PlaceReadEnds ==
  TypeInv /\ PlaceInv /\ pc # "size" /\ (EndSizeLine \/ ReadChunkEnd) => PlaceInv'
<1>. SUFFICES ASSUME TypeInv, PlaceInv, pc # "size", EndSizeLine \/ ReadChunkEnd
              PROVE  PlaceInv'
  OBVIOUS
<1>1. /\ SeqTypes /\ RestInv /\ remaining > 0 /\ ReadsOne /\ UNCHANGED <<stream, reason>>
      /\ size' = size /\ length' = length
  BY ReadersRead DEF TypeInv, PlaceInv, ReadsOne, EndSizeLine, ReadChunkEnd, Read, Reads,
                     endVars, localVars
<1>2. PICK i \in 1 .. Len(response) + 1 : At(i)
  BY <1>1 DEF PlaceInv, EndSizeLine, ReadChunkEnd, Read
<1>3. RestInv' /\ Place' = Place + 1 /\ Taken' = Taken /\ response' = response
  BY <1>1, RestRead DEF ReadsOne
<1>. DEFINE c == response[i]
            h == Header(c)
            t == Head(unread)
<1>4. ASSUME i \in 1 .. Len(response)
      PROVE  /\ h \in Nat \ {0} /\ c.n \in Nat /\ c.crlf \in BOOLEAN
             /\ StartOf(response, i) \in Nat /\ DataBefore(response, i) \in Nat
             /\ StartOf(response, i + 1) = StartOf(response, i)
                                             + (h + c.n + (IF c.crlf THEN 2 ELSE 0))
             /\ DataBefore(response, i + 1) = DataBefore(response, i) + c.n
             /\ Len(response) \in Nat /\ i + 1 \in 1 .. Len(response) + 1
             /\ c.n = 0 => i = Len(response)
  <2>1. /\ h \in Nat /\ c.n \in Nat /\ c.crlf \in BOOLEAN
        /\ Len(c.digits) \in Nat /\ h = Len(c.digits) + (IF c.ext THEN 4 ELSE 2)
        /\ StartOf(response, i) \in Nat /\ DataBefore(response, i) \in Nat
        /\ Len(response) \in Nat
        /\ Whole(c) = h + c.n + (IF c.crlf THEN 2 ELSE 0)
        /\ StartOf(response, i + 1) = StartOf(response, i) + Whole(c)
        /\ DataBefore(response, i + 1) = DataBefore(response, i) + c.n
    BY <1>1, <1>4, ChunkNumbers
  <2>2. c.n = 0 => i = Len(response)
    BY <1>1, <1>4, ResponseFields DEF SeqTypes
  <2>3. h # 0
    <3>1. Len(c.digits) \in Nat /\ (h = Len(c.digits) + 4 \/ h = Len(c.digits) + 2)
      BY <2>1
    <3>. HIDE DEF c, h
    <3>. QED  BY <3>1
  <2>4. StartOf(response, i + 1) = StartOf(response, i) + (h + c.n + (IF c.crlf THEN 2 ELSE 0))
    BY <2>1
  <2>5. i + 1 \in 1 .. Len(response) + 1
    BY <1>4, <2>1
  <2>. HIDE DEF c, h
  <2>. QED  BY <2>1, <2>2, <2>3, <2>4, <2>5
<1>. HIDE DEF t
<1>5. CASE pc = "size LF"
  <2>1. t.t = "lf" /\ pc' = "chunk"
    BY <1>5 DEF EndSizeLine, ReadChunkEnd, Read, t
  <2>2. Within(i, h - 1, 0) /\ size = c.n /\ i \in 1 .. Len(response)
    BY <1>2, <1>5 DEF At, Within
  <2>3. Place = StartOf(response, i) + (h - 1) /\ Taken = DataBefore(response, i) + 0
    BY <2>2 DEF Within
  <2>4. Place' = StartOf(response, i) + (h + (c.n - c.n))
        /\ Taken' = DataBefore(response, i) + (c.n - c.n) /\ c.n \in 0 .. c.n
    <3>1. h \in Nat \ {0} /\ c.n \in Nat /\ StartOf(response, i) \in Nat
          /\ DataBefore(response, i) \in Nat
      BY <1>4, <2>2
    <3>2. Place' = Place + 1 /\ Taken' = Taken
      BY <1>3
    <3>. HIDE DEF c, h
    <3>. QED  BY <2>3, <3>1, <3>2
  <2>5. ToCome(i, size)'
    BY <1>1, <1>3, <2>2, <2>4 DEF ToCome, Within
  <2>6. At(i)'
    BY <1>1, <1>3, <2>1, <2>2, <2>5 DEF At
  <2>. QED  BY <1>1, <1>3, <1>5, <2>1, <2>6, ReaderPlace DEF Holding
<1>6. CASE pc = "data CR"
  <2>1. t.t = "cr" /\ pc' = "data LF"
    BY <1>6 DEF EndSizeLine, ReadChunkEnd, Read, t
  <2>2. ToCome(i, 0) /\ size = length /\ i \in 1 .. Len(response)
    BY <1>2, <1>6 DEF At, ToCome
  <2>3. Within(i, h + c.n, c.n)
    <3>1. Within(i, h + (c.n - 0), c.n - 0)
      BY <2>2 DEF ToCome
    <3>2. c.n - 0 = c.n
      BY <1>4, <2>2
    <3>. QED  BY <3>1, <3>2
  <2>4. /\ NextWithin(i, h + c.n, t)
        /\ Place = StartOf(response, i) + (h + c.n) /\ Taken = DataBefore(response, i) + c.n
    <3>1. h + c.n \in Nat
      <4>. HIDE DEF c, h
      <4>. QED  BY <1>4, <2>2
    <3>. QED  BY <1>1, <2>3, <3>1, InChunk DEF t
  <2>5. c.crlf
    BY <2>1, <2>4 DEF NextWithin
  <2>6. Place' = StartOf(response, i) + (h + c.n + 1)
    <3>1. h \in Nat /\ c.n \in Nat /\ StartOf(response, i) \in Nat
      BY <1>4, <2>2
    <3>2. Place' = StartOf(response, i) + (h + c.n) + 1
      BY <1>3, <2>4
    <3>. HIDE DEF c, h
    <3>. QED  BY <3>1, <3>2
  <2>7. Within(i, Header(response[i]) + response[i].n + 1, response[i].n)'
    BY <1>3, <2>2, <2>4, <2>6 DEF Within
  <2>8. At(i)'
    BY <1>1, <1>3, <2>1, <2>2, <2>5, <2>7 DEF At
  <2>. QED  BY <1>1, <1>3, <1>6, <2>1, <2>8, ReaderPlace DEF Holding
<1>7. CASE pc = "data LF"
  <2>1. t.t = "lf" /\ pc' = "keep"
    BY <1>7 DEF EndSizeLine, ReadChunkEnd, Read, t
  <2>2. Within(i, h + c.n + 1, c.n) /\ c.crlf /\ size = length /\ i \in 1 .. Len(response)
    BY <1>2, <1>7 DEF At, Within
  <2>3. Place = StartOf(response, i) + (h + c.n + 1) /\ Taken = DataBefore(response, i) + c.n
    BY <2>2 DEF Within
  <2>4. Place' = StartOf(response, i + 1) /\ Taken' = DataBefore(response, i + 1)
    <3>1. /\ h \in Nat /\ c.n \in Nat /\ StartOf(response, i) \in Nat
          /\ StartOf(response, i + 1) = StartOf(response, i) + (h + c.n + 2)
          /\ DataBefore(response, i + 1) = DataBefore(response, i) + c.n
      BY <1>4, <2>2
    <3>2. Place' = StartOf(response, i) + (h + c.n + 1) + 1 /\ Taken' = DataBefore(response, i) + c.n
      BY <1>3, <2>3
    <3>. HIDE DEF c, h
    <3>. QED  BY <3>1, <3>2
  <2>5. i + 1 \in 1 .. Len(response) + 1
    BY <1>4, <2>2
  <2>6. At(i + 1)'
    BY <1>1, <1>3, <2>1, <2>2, <2>4, <2>5 DEF At, Between
  <2>. QED  BY <1>1, <1>3, <1>7, <2>1, <2>5, <2>6, ReaderPlace DEF Holding
<1>8. CASE pc = "end CR"
  <2>1. t.t = "cr" /\ pc' = "end LF"
    BY <1>8 DEF EndSizeLine, ReadChunkEnd, Read, t
  <2>2. ToCome(i, 0) /\ c.n = 0 /\ i \in 1 .. Len(response)
    BY <1>2, <1>8 DEF At, ToCome
  <2>3. Within(i, h + c.n, 0)
    <3>1. Within(i, h + (c.n - 0), c.n - 0)
      BY <2>2 DEF ToCome
    <3>2. c.n - 0 = c.n
      BY <1>4, <2>2
    <3>. QED  BY <2>2, <3>1, <3>2
  <2>4. /\ NextWithin(i, h + c.n, t)
        /\ Place = StartOf(response, i) + (h + c.n) /\ Taken = DataBefore(response, i) + 0
    <3>1. h + c.n \in Nat
      <4>. HIDE DEF c, h
      <4>. QED  BY <1>4, <2>2
    <3>. QED  BY <1>1, <2>3, <3>1, InChunk DEF t
  <2>5. c.crlf
    BY <2>1, <2>4 DEF NextWithin
  <2>6. Place' = StartOf(response, i) + (h + 1)
    <3>1. h \in Nat /\ c.n = 0 /\ StartOf(response, i) \in Nat
      BY <1>4, <2>2
    <3>2. Place' = StartOf(response, i) + (h + c.n) + 1
      BY <1>3, <2>4
    <3>. HIDE DEF c, h
    <3>. QED  BY <3>1, <3>2
  <2>7. Within(i, Header(response[i]) + 1, 0)'
    BY <1>3, <2>2, <2>4, <2>6 DEF Within
  <2>8. At(i)'
    BY <1>1, <1>3, <2>1, <2>2, <2>5, <2>7 DEF At
  <2>. QED  BY <1>1, <1>3, <1>8, <2>1, <2>8, ReaderPlace DEF Holding
<1>9. CASE pc = "end LF"
  <2>1. pc' = "finish"
    BY <1>9 DEF EndSizeLine, ReadChunkEnd, Read
  <2>2. Within(i, h + 1, 0) /\ c.n = 0 /\ i \in 1 .. Len(response)
    BY <1>2, <1>9 DEF At, Within
  <2>3. Taken = DataBefore(response, i) + 0
    BY <2>2 DEF Within
  <2>4. Taken' = DataBefore(response', Len(response') + 1)
    <3>. HIDE DEF c, h
    <3>. QED  BY <1>3, <1>4, <2>2, <2>3
  <2>5. At(i)'
    BY <2>1, <2>4 DEF At
  <2>. QED  BY <1>1, <1>3, <1>9, <2>1, <2>5, ReaderPlace DEF Holding
<1>. QED  BY <1>5, <1>6, <1>7, <1>8, <1>9 DEF EndSizeLine, ReadChunkEnd, Read

(* The place does not depend on how the rest was cut into packets.         *)
LEMMA AtKept ==
  ASSUME NEW i, At(i), Place' = Place, Taken' = Taken,
         UNCHANGED <<response, size, extension, length, pc, total_bytes, actual_bytes>>
  PROVE  At(i)'
<1>1. /\ Between(i)' <=> Between(i)
      /\ \A x, y : Within(i, x, y)' <=> Within(i, x, y)
      /\ \A x : LineRead(i, x)' <=> LineRead(i, x)
  BY DEF Between, Within, LineRead
<1>2. \A left : ToCome(i, left)' <=> ToCome(i, left)
  BY <1>1 DEF ToCome
<1>3. InSize(i)' <=> InSize(i)
  BY <1>1 DEF InSize
<1>4. /\ \A left : ToCome(i, left) => ToCome(i, left)'
      /\ \A x, y : Within(i, x, y) => Within(i, x, y)'
      /\ Between(i) => Between(i)'
  BY <1>1, <1>2
<1>5. CASE pc \in {"call", "return", "chunk"}
  BY <1>4, <1>5 DEF At
<1>6. CASE pc = "size"
  BY <1>3, <1>4, <1>6 DEF At
<1>7. CASE pc \in {"size LF", "end LF", "data LF"}
  BY <1>4, <1>7 DEF At
<1>8. CASE pc \in {"data CR", "end CR", "keep", "finish"}
  BY <1>4, <1>8 DEF At
<1>9. CASE pc \notin {"call", "return", "chunk", "size", "size LF", "end LF", "data LF",
                      "data CR", "end CR", "keep", "finish"}
  BY <1>9 DEF At
<1>. QED  BY <1>5, <1>6, <1>7, <1>8, <1>9

(* The next size line is begun.                                            *)
LEMMA LineStarts ==
  ASSUME SeqTypes, NEW i, Between(i), Place' = Place, Taken' = Taken,
         response' = response, size' = 0, extension' = FALSE, pc' = "size"
  PROVE  At(i)'
<1>1. Between(i)'
  BY DEF Between
<1>2. CASE i \in 1 .. Len(response)
  <2>1. /\ response[i].digits \in Seq(Nat) /\ Len(response[i].digits) \in Nat
        /\ StartOf(response, i) \in Nat
    BY <1>2, ResponseFields, ChunkNumbers DEF SeqTypes
  <2>2. Value(response[i].digits, 0) = 0
    BY <2>1, ValueSteps, ChunkedAssumption
  <2>3. Place' = StartOf(response', i) + 0 /\ Taken' = DataBefore(response', i)
    BY <2>1 DEF Between
  <2>4. LineRead(i, 0)'
    BY <2>1, <2>2, <2>3 DEF LineRead
  <2>. QED  BY <1>2, <2>4 DEF At, InSize
<1>3. CASE i = Len(response) + 1
  BY <1>1, <1>3 DEF At
<1>4. i \in 1 .. Len(response) \/ i = Len(response) + 1
  <2>1. i \in 1 .. Len(response) + 1 /\ Len(response) \in Nat
    BY ResponseFields DEF Between, SeqTypes
  <2>. QED  BY <2>1
<1>. QED  BY <1>2, <1>3, <1>4

LEMMA PlaceInit == Init => PlaceInv
<1>. SUFFICES ASSUME Init PROVE PlaceInv
  OBVIOUS
<1>1. SeqTypes /\ response \in Seq(ChunkType) /\ Len(response) \in Nat
  BY TypeInit, ResponseFields DEF TypeInv, SeqTypes
<1>2. StartOf(response, 1) = 0 /\ DataBefore(response, 1) = 0
  BY <1>1, StartSteps, DataSteps
<1>3. 1 \in 1 .. Len(response) + 1 /\ Len(response) + 1 \in 1 .. Len(response) + 1
  BY <1>1
<1>4. Total \in Nat /\ Len(wire) = Total
  BY <1>1, EncodedAt DEF Init, Total
<1>5. Len(unread) = 0 /\ Len(data) = 0 /\ Len(delivered) = 0
  BY DEF Init
<1>6. Place = 0 /\ Taken = 0
  BY <1>4, <1>5 DEF Place, Taken
<1>7. RestInv
  <2>1. wire = Encoded(response)
    BY DEF Init
  <2>2. \A x \in 1 .. Len(wire) : wire[x] = Encoded(response)[Total - Len(wire) + x]
    BY <1>4, <2>1
  <2>. QED  BY <1>4, <1>5, <2>2 DEF RestInv
<1>8. BytesInv
  <2>1. DataBefore(response, Len(response) + 1) \in Nat
    BY <1>1, <1>3, DataSteps
  <2>. QED  BY <1>5, <1>6, <2>1 DEF BytesInv
<1>9. At(1)
  BY <1>2, <1>3, <1>6 DEF At, Between, Init
<1>10. HeldInv
  BY DEF HeldInv, Init
<1>. QED  BY <1>3, <1>7, <1>8, <1>9, <1>10 DEF PlaceInv, Init

LEMMA PlaceReceive ==
  ASSUME TypeInv, PlaceInv, PoolInv, NEW k \in 0 .. Len(wire),
         ReceiveHeader(k) \/ Receive(k)
  PROVE  PlaceInv'
<1>1. /\ SeqTypes /\ pc \notin {"end"} /\ pc' # "end"
      /\ wire' = SubSeq(wire, k + 1, Len(wire)) /\ unread' = SubSeq(wire, 1, k)
      /\ UNCHANGED <<response, data, delivered, length, total_bytes, actual_bytes,
                     stream, reason>>
  BY DEF TypeInv, ReceiveHeader, Receive, Received, WaitsForBytes, Reading, localVars, endVars
<1>2. HeldInv /\ RestInv
  BY <1>1 DEF PlaceInv
<1>3. Len(unread) = 0
  BY <1>1, <1>2 DEF ReceiveHeader, Receive, WaitsForBytes, HeldInv, SeqTypes
<1>4. wire \in Seq(Tokens)
  BY <1>1 DEF SeqTypes
<1>5. /\ Len(wire') = Len(wire) - k /\ \A x \in 1 .. Len(wire) - k : wire'[x] = wire[k + x]
      /\ Len(unread') = k /\ \A x \in 1 .. k : unread'[x] = wire[x]
  BY <1>1, <1>4, Cuts
<1>6. RestInv' /\ Place' = Place
  BY <1>1, <1>2, <1>3, <1>5, RestReceived
<1>7. Taken' = Taken /\ BytesInv'
  BY <1>1 DEF Taken, PlaceInv, BytesInv
<1>8. HeldInv'
  BY <1>1, <1>2 DEF HeldInv, ReceiveHeader, Receive, WaitsForBytes, Reading
<1>9. PICK i \in 1 .. Len(response) + 1 : At(i)
  BY <1>1 DEF PlaceInv
<1>10. At(i)'
  <2>1. CASE ReceiveHeader(k)
    <3>1. total_bytes = 0 /\ actual_bytes = 0 /\ pc = "call"
      BY <1>2, <2>1 DEF ReceiveHeader, HeldInv
    <3>2. Between(i)
      BY <1>9, <3>1 DEF At
    <3>. QED  BY <1>1, <1>6, <1>7, <2>1, <3>2, LineStarts DEF ReceiveHeader
  <2>2. CASE Receive(k)
    <3>1. UNCHANGED <<size, extension, pc>>
      BY <2>2 DEF Receive, localVars
    <3>. QED  BY <1>1, <1>6, <1>7, <1>9, <3>1, AtKept
  <2>. QED  BY <2>1, <2>2
<1>. QED  BY <1>1, <1>6, <1>7, <1>8, <1>9, <1>10 DEF PlaceInv

(* The steps that read and return nothing.                                 *)
LEMMA PlaceSame ==
  TypeInv /\ PlaceInv /\ (CallAgain \/ EndOfBody \/ KeepRest) => PlaceInv'
<1>. SUFFICES ASSUME TypeInv, PlaceInv, CallAgain \/ EndOfBody \/ KeepRest PROVE PlaceInv'
  OBVIOUS
<1>1. /\ SeqTypes /\ pc # "end" /\ pc' \notin {"end", "call"}
      /\ UNCHANGED <<response, wire, unread, data, delivered, length, total_bytes,
                     actual_bytes, stream, reason>>
  BY DEF TypeInv, CallAgain, EndOfBody, KeepRest, Awaits, clientVars, localVars, endVars
<1>2. HeldInv /\ RestInv
  BY <1>1 DEF PlaceInv
<1>3. Place' = Place /\ Taken' = Taken
  BY <1>1 DEF Place, Taken, Total
<1>4. RestInv' /\ BytesInv'
  BY <1>1, <1>2, <1>3 DEF PlaceInv, BytesInv, RestInv, Total
<1>5. HeldInv'
  BY <1>1, <1>2 DEF HeldInv, CallAgain, EndOfBody, KeepRest
<1>6. PICK i \in 1 .. Len(response) + 1 : At(i)
  BY <1>1 DEF PlaceInv
<1>7. /\ Between(i) => Between(i)'
      /\ \A left : ToCome(i, left) => ToCome(i, left)'
  BY <1>1, <1>3 DEF Between, ToCome, Within
<1>8. At(i)'
  <2>1. CASE CallAgain /\ actual_bytes < total_bytes
    <3>1. pc' = "chunk" /\ size' = total_bytes - actual_bytes /\ pc = "call"
      BY <2>1 DEF CallAgain, Awaits, SizeAsked
    <3>2. ToCome(i, size') /\ size' # 0
      BY <1>6, <2>1, <3>1 DEF At, TypeInv, NumTypes
    <3>. QED  BY <1>7, <3>1, <3>2 DEF At
  <2>2. CASE CallAgain /\ ~(actual_bytes < total_bytes)
    <3>1. pc' = "size" /\ size' = 0 /\ extension' = FALSE /\ pc = "call"
      BY <2>2 DEF CallAgain, Awaits, SizeAsked
    <3>2. Between(i)
      BY <1>6, <2>2, <3>1 DEF At
    <3>. QED  BY <1>1, <1>3, <3>1, <3>2, LineStarts
  <2>3. CASE EndOfBody
    <3>1. pc' = "end CR" /\ size = 0 /\ pc = "chunk"
      BY <2>3 DEF EndOfBody
    <3>2. ToCome(i, 0) /\ response[i].n = 0
      BY <1>6, <3>1 DEF At
    <3>. QED  BY <1>1, <1>7, <3>1, <3>2 DEF At
  <2>4. CASE KeepRest
    <3>1. pc' = "return" /\ pc = "keep" /\ size' = size
      BY <2>4 DEF KeepRest, localVars
    <3>2. Between(i) /\ size = length /\ ~(length < size)
      BY <1>6, <3>1 DEF At, TypeInv, NumTypes
    <3>. QED  BY <1>1, <1>7, <3>1, <3>2 DEF At
  <2>. QED  BY <2>1, <2>2, <2>3, <2>4
<1>. QED  BY <1>1, <1>4, <1>5, <1>6, <1>8 DEF PlaceInv

(* The bytes taken are the data of the chunk under way that come next.     *)
LEMMA PlaceTake == TypeInv /\ PlaceInv /\ TakeChunk => PlaceInv'
<1>. SUFFICES ASSUME TypeInv, PlaceInv, TakeChunk PROVE PlaceInv'
  OBVIOUS
<1>. DEFINE n == IF TakeAll THEN size ELSE remaining
<1>1. /\ SeqTypes /\ HeldInv /\ RestInv /\ BytesInv /\ pc = "chunk" /\ remaining > 0 /\ size > 0
      /\ size \in Nat
  BY DEF TypeInv, NumTypes, PlaceInv, TakeChunk
<1>2. /\ unread \in Seq(Tokens) /\ Len(unread) \in Nat /\ remaining = Len(unread)
      /\ Len(delivered) \in Nat /\ data = <<>>
  BY <1>1 DEF SeqTypes, HeldInv
<1>3. /\ n \in 0 .. Len(unread) /\ n \in Nat /\ n <= size
      /\ TakeAll => n = size
      /\ ~TakeAll => n < size
  BY <1>1, <1>2 DEF TakeAll
<1>4. /\ length' = n /\ data' = SubSeq(unread, 1, n)
      /\ unread' = SubSeq(unread, n + 1, Len(unread))
      /\ pc' = IF TakeAll THEN "data CR" ELSE "return"
      /\ UNCHANGED <<response, wire, size, delivered, stream, reason>>
  BY DEF TakeChunk, endVars
<1>. HIDE DEF n
<1>5. /\ unread' \in Seq(Tokens) /\ Len(unread') = Len(unread) - n
      /\ \A x \in 1 .. Len(unread) - n : unread'[x] = unread[n + x]
      /\ Len(data') = n /\ \A x \in 1 .. n : data'[x] = unread[x]
  BY <1>2, <1>3, <1>4, Cuts
<1>6. RestInv' /\ Place' = Place + n /\ Place \in Nat
  BY <1>1, <1>3, <1>4, <1>5, RestTaken
<1>7. PICK i \in 1 .. Len(response) + 1 : At(i)
  BY <1>1 DEF PlaceInv
<1>8. ToCome(i, size) /\ i \in 1 .. Len(response)
  BY <1>1, <1>7 DEF At, ToCome
<1>. DEFINE c == response[i]
            h == Header(c)
            s == StartOf(response, i)
            b == DataBefore(response, i)
            m == c.n
            q == m - size
            all == DataBefore(response, Len(response) + 1)
<1>9. /\ h \in Nat /\ m \in Nat /\ s \in Nat /\ b \in Nat /\ all \in Nat
      /\ DataBefore(response, i + 1) = b + m
      /\ DataBefore(response, i + 1) <= all
  BY <1>1, <1>8, ChunkNumbers
<1>10. size \in 0 .. m /\ Place = s + (h + q) /\ Taken = b + q
  BY <1>8 DEF ToCome, Within
<1>11. Taken = Len(delivered) /\ Taken' = Len(delivered) + n
  <2>1. Len(data) = 0 /\ Len(data') = n /\ delivered' = delivered
    BY <1>2, <1>4, <1>5
  <2>. QED  BY <1>2, <1>3, <2>1 DEF Taken
<1>. HIDE DEF s, b, h, m, all
<1>12. q \in Nat /\ q + n <= m /\ n <= Len(unread) /\ Len(delivered) = b + q
  <2>1. size \in Nat /\ n \in Nat /\ n <= size /\ n <= Len(unread)
    BY <1>1, <1>2, <1>3
  <2>2. m \in Nat /\ size \in 0 .. m
    BY <1>9, <1>10
  <2>3. q \in Nat /\ q + n <= m
    BY <2>1, <2>2
  <2>. HIDE DEF q
  <2>. QED  BY <1>10, <1>11, <2>1, <2>3
<1>13. \A x \in 1 .. n : unread[x] = Data(b + q + x)
  <2>1. /\ q + n <= response[i].n /\ Place = StartOf(response, i) + (Header(response[i]) + q)
        /\ n <= Len(unread)
    BY <1>10, <1>12 DEF m, s, h
  <2>. HIDE DEF q, c
  <2>2. q \in Nat /\ n \in Nat
    BY <1>3, <1>12
  <2>. QED  BY <1>1, <1>8, <2>1, <2>2, DataAt DEF b
<1>14. BytesInv'
  <2>1. ASSUME NEW x \in 1 .. Len(data') PROVE data'[x] = Data(Len(delivered') + x)
    <3>1. x \in 1 .. n /\ data'[x] = unread[x] /\ unread[x] = Data(b + q + x)
      BY <1>5, <1>13, <2>1
    <3>2. Len(delivered') + x = b + q + x
      <4>1. Len(delivered') = b + q
        BY <1>4, <1>12
      <4>. QED  BY <4>1
    <3>. QED  BY <3>1, <3>2
  <2>2. \A x \in 1 .. Len(delivered') : delivered'[x] = Data(x)
    BY <1>1, <1>4 DEF BytesInv
  <2>3. Taken' <= all
    <3>1. Taken' = b + q + n
      BY <1>11, <1>12
    <3>2. q \in Nat /\ n \in Nat /\ q + n <= m /\ b \in Nat /\ m \in Nat /\ all \in Nat
          /\ b + m <= all
      BY <1>3, <1>9, <1>12
    <3>. HIDE DEF q
    <3>. QED  BY <3>1, <3>2
  <2>4. Taken' <= DataBefore(response', Len(response') + 1)
    BY <1>4, <2>3 DEF all
  <2>. QED  BY <2>1, <2>2, <2>4 DEF BytesInv
<1>15. ToCome(i, size - length)'
  <2>1. /\ size - n \in 0 .. m
        /\ Place' = s + (h + (m - (size - n))) /\ Taken' = b + (m - (size - n))
    <3>1. /\ size \in Nat /\ n \in Nat /\ n <= size /\ m \in Nat /\ size <= m
          /\ s \in Nat /\ h \in Nat /\ b \in Nat
      BY <1>1, <1>3, <1>9, <1>10
    <3>2. Place' = s + (h + q) + n /\ Taken' = b + q + n
      BY <1>6, <1>10, <1>11, <1>12
    <3>. QED  BY <3>1, <3>2
  <2>2. size' - length' = size - n /\ response' = response
    BY <1>4
  <2>. QED  BY <1>8, <2>1, <2>2 DEF ToCome, Within, s, h, m, b
<1>16. At(i)'
  <2>1. CASE TakeAll
    <3>1. pc' = "data CR" /\ n = size /\ length' = n /\ size' = size
      BY <1>3, <1>4, <2>1
    <3>2. size' - length' = 0
      <4>1. size' = size /\ length' = size /\ size \in Nat
        BY <1>1, <3>1
      <4>2. size - size = 0
        BY <4>1
      <4>. QED  BY <4>1, <4>2
    <3>3. ToCome(i, 0)'
      BY <1>15, <3>2 DEF ToCome
    <3>. QED  BY <3>1, <3>3 DEF At
  <2>2. CASE ~TakeAll
    <3>1. pc' = "return" /\ length' < size'
      BY <1>3, <1>4, <2>2
    <3>. QED  BY <1>15, <3>1 DEF At
  <2>. QED  BY <2>1, <2>2
<1>17. HeldInv' /\ pc' # "end"
  BY <1>4 DEF HeldInv
<1>. QED  BY <1>1, <1>4, <1>6, <1>7, <1>14, <1>16, <1>17 DEF PlaceInv

LEMMA PlaceReturn == TypeInv /\ PlaceInv /\ PoolInv /\ ReturnChunk => PlaceInv'
<1>. SUFFICES ASSUME TypeInv, PlaceInv, PoolInv, ReturnChunk PROVE PlaceInv'
  OBVIOUS
<1>1. /\ SeqTypes /\ RestInv /\ BytesInv /\ pc = "return" /\ pc' = "call"
      /\ size \in Nat /\ length \in Nat
  BY DEF TypeInv, NumTypes, SeqTypes, PlaceInv, ReturnChunk
<1>2. /\ delivered' = delivered \o data /\ data' = <<>>
      /\ total_bytes' = size /\ actual_bytes' = length
      /\ UNCHANGED <<response, wire, unread, calls, stream, reason>>
  BY DEF ReturnChunk, Counts
<1>3. /\ Len(delivered) \in Nat /\ Len(data) \in Nat
      /\ IsJoin(delivered', delivered, data)
  BY <1>1, <1>2, Joined DEF SeqTypes
<1>4. Place' = Place /\ Taken' = Taken
  BY <1>2, <1>3 DEF Place, Taken, Total, IsJoin
<1>5. RestInv'
  BY <1>1, <1>2, <1>4 DEF RestInv, Total
<1>6. BytesInv'
  <2>1. ASSUME NEW x \in 1 .. Len(delivered') PROVE delivered'[x] = Data(x)
    <3>1. CASE x \in 1 .. Len(delivered)
      BY <1>1, <1>3, <3>1 DEF IsJoin, BytesInv
    <3>2. CASE x \notin 1 .. Len(delivered)
      <4>1. PICK y \in 1 .. Len(data) : x = Len(delivered) + y
        <5>1. Len(delivered') = Len(delivered) + Len(data)
          BY <1>3 DEF IsJoin
        <5>2. x - Len(delivered) \in 1 .. Len(data) /\ x = Len(delivered) + (x - Len(delivered))
          BY <1>3, <3>2, <5>1
        <5>. QED  BY <5>2
      <4>. QED  BY <1>1, <1>3, <4>1 DEF IsJoin, BytesInv
    <3>. QED  BY <3>1, <3>2
  <2>2. \A x \in 1 .. Len(data') : data'[x] = Data(Len(delivered') + x)
    BY <1>2
  <2>3. Taken' <= DataBefore(response', Len(response') + 1)
    BY <1>1, <1>2, <1>4 DEF BytesInv
  <2>. QED  BY <2>1, <2>2, <2>3 DEF BytesInv
<1>7. HeldInv'
  BY <1>1, <1>2 DEF PoolInv, HeldInv
<1>8. PICK i \in 1 .. Len(response) + 1 : At(i)
  BY <1>1 DEF PlaceInv
<1>9. At(i)'
  <2>1. /\ Between(i) => Between(i)'
        /\ \A left : ToCome(i, left) => ToCome(i, left)'
    BY <1>2, <1>4 DEF Between, ToCome, Within
  <2>2. IF length < size THEN ToCome(i, size - length) ELSE Between(i)
    BY <1>1, <1>8 DEF At
  <2>. QED  BY <1>1, <1>2, <2>1, <2>2 DEF At
<1>. QED  BY <1>1, <1>2, <1>5, <1>6, <1>7, <1>8, <1>9 DEF PlaceInv

LEMMA PlaceFinish == TypeInv /\ PlaceInv /\ Finish => PlaceInv'
<1>. SUFFICES ASSUME TypeInv, PlaceInv, Finish PROVE PlaceInv'
  OBVIOUS
<1>1. /\ pc = "finish" /\ pc' = "end" /\ stream' = "done"
      /\ UNCHANGED <<response, data, delivered, reason>>
  BY DEF Finish, localVars
<1>2. Taken = DataBefore(response, Len(response) + 1) /\ data = <<>>
  BY <1>1 DEF PlaceInv, At, HeldInv
<1>3. Len(delivered) = DataBefore(response, Len(response) + 1)
  <2>1. Len(delivered) \in Nat /\ Len(data) = 0
    BY <1>2 DEF TypeInv, SeqTypes
  <2>. QED  BY <1>2, <2>1 DEF Taken
<1>4. BytesInv'
  BY <1>1 DEF PlaceInv, BytesInv, Taken
<1>. QED  BY <1>1, <1>3, <1>4 DEF PlaceInv

(* Only a chunk that is not closed by CRLF is refused.                     *)
LEMMA Refused ==
  TypeInv /\ PlaceInv /\ Unexpected => \E i \in DOMAIN response : ~response[i].crlf
<1>. SUFFICES ASSUME TypeInv, PlaceInv, Unexpected
              PROVE  \E i \in DOMAIN response : ~response[i].crlf
  OBVIOUS
<1>. DEFINE t == Head(unread)
<1>1. /\ SeqTypes /\ RestInv /\ remaining > 0 /\ pc \in Reading
  BY DEF TypeInv, PlaceInv, Unexpected, Reading
<1>2. /\ pc = "size" => extension = FALSE /\ t.t \in {"lf", "data"}
      /\ pc \in {"data CR", "end CR"} => t.t # "cr"
      /\ pc \in {"size LF", "data LF", "end LF"} => t.t # "lf"
  BY DEF Unexpected, TypeInv, ControlTypes
<1>3. PICK i \in 1 .. Len(response) + 1 : At(i)
  BY <1>1 DEF PlaceInv, Reading
<1>. DEFINE c == response[i]
            h == Header(c)
            d == Len(c.digits)
<1>4. ASSUME i \in 1 .. Len(response)
      PROVE  /\ h \in Nat /\ d \in Nat \ {0} /\ c.n \in Nat /\ c.crlf \in BOOLEAN
             /\ c.ext \in BOOLEAN /\ h = d + (IF c.ext THEN 4 ELSE 2)
             /\ h - 1 \in Nat /\ h + c.n \in Nat /\ h + 1 \in Nat /\ h + c.n + 1 \in Nat
             /\ i \in DOMAIN response
  <2>1. /\ h \in Nat /\ d \in Nat \ {0} /\ c.n \in Nat /\ c.crlf \in BOOLEAN
        /\ c.ext \in BOOLEAN /\ h = d + (IF c.ext THEN 4 ELSE 2)
    BY <1>1, <1>4, ChunkNumbers
  <2>2. i \in DOMAIN response
    BY <1>1, <1>4, ResponseFields DEF SeqTypes
  <2>. HIDE DEF h, d, c
  <2>. QED  BY <2>1, <2>2
<1>. HIDE DEF t
<1>5. CASE pc = "size"
  <2>1. i \in 1 .. Len(response)
    BY <1>1, <1>3, <1>5, InLine
  <2>2. PICK x \in Nat : LineRead(i, x) /\ NextWithin(i, x, t)
    BY <1>1, <1>3, <1>5, InLine DEF t
  <2>3. x \in 0 .. d
    BY <1>2, <1>5, <2>2 DEF LineRead
  <2>4. /\ x \in 0 .. d - 1 => t.t = "digit"
        /\ c.ext /\ x = d => t.t = "semicolon"
        /\ x = h - 2 => t.t = "cr"
    BY <2>2, Kinds DEF NextWithin
  <2>5. x \notin 0 .. d - 1 /\ ~(c.ext /\ x = d) /\ x # h - 2
    BY <1>2, <1>5, <2>4
  <2>6. FALSE
    <3>. HIDE DEF c, h, d
    <3>. QED  BY <1>4, <2>1, <2>3, <2>5
  <2>. QED  BY <2>6
<1>6. CASE pc = "size LF"
  <2>1. Within(i, h - 1, 0) /\ i \in 1 .. Len(response)
    BY <1>3, <1>6 DEF At, Within
  <2>2. h - 1 \in Nat
    BY <1>4, <2>1
  <2>3. NextWithin(i, h - 1, t)
    BY <1>1, <2>1, <2>2, InChunk DEF t
  <2>. QED  BY <1>2, <1>6, <2>3, Kinds DEF NextWithin
<1>7. CASE pc \in {"data CR", "end CR"}
  <2>1. Within(i, h + (c.n - 0), c.n - 0) /\ i \in 1 .. Len(response)
    BY <1>3, <1>7 DEF At, ToCome
  <2>2. h + c.n \in Nat /\ c.n - 0 = c.n
    <3>1. h \in Nat /\ c.n \in Nat
      BY <1>4, <2>1
    <3>. HIDE DEF c, h
    <3>. QED  BY <3>1
  <2>3. NextWithin(i, h + c.n, t)
    BY <1>1, <2>1, <2>2, InChunk DEF t
  <2>4. ~c.crlf
    BY <1>2, <1>7, <2>3, Kinds DEF NextWithin
  <2>. QED  BY <1>4, <2>1, <2>4
<1>8. CASE pc = "data LF"
  <2>1. Within(i, h + c.n + 1, c.n) /\ c.crlf /\ i \in 1 .. Len(response)
    BY <1>3, <1>8 DEF At, Within
  <2>2. h + c.n + 1 \in Nat
    BY <1>4, <2>1
  <2>3. NextWithin(i, h + c.n + 1, t)
    BY <1>1, <2>1, <2>2, InChunk DEF t
  <2>. QED  BY <1>2, <1>8, <2>1, <2>3, Kinds DEF NextWithin
<1>9. CASE pc = "end LF"
  <2>1. Within(i, h + 1, 0) /\ c.crlf /\ c.n = 0 /\ i \in 1 .. Len(response)
    BY <1>3, <1>9 DEF At, Within
  <2>2. h + 1 \in Nat /\ h + 1 = h + c.n + 1
    <3>1. h \in Nat
      BY <1>4, <2>1
    <3>. HIDE DEF c, h
    <3>. QED  BY <2>1, <3>1
  <2>3. NextWithin(i, h + c.n + 1, t)
    BY <1>1, <2>1, <2>2, InChunk DEF t
  <2>. QED  BY <1>2, <1>9, <2>1, <2>3, Kinds DEF NextWithin
<1>. QED  BY <1>1, <1>5, <1>6, <1>7, <1>8, <1>9 DEF Reading

LEMMA PlaceGivesUp ==
  TypeInv /\ PlaceInv /\ (ReceiveFails \/ Unexpected \/ KeepRestFails) => PlaceInv'
<1>. SUFFICES ASSUME TypeInv, PlaceInv, ReceiveFails \/ Unexpected \/ KeepRestFails
              PROVE  PlaceInv'
  OBVIOUS
<1>1. /\ pc' = "end" /\ stream' = "failed" /\ UNCHANGED <<response, data, delivered>>
      /\ reason' = "malformed" => Unexpected
  <2>1. CASE ReceiveFails
    BY <2>1 DEF ReceiveFails, GivesUp, localVars
  <2>2. CASE KeepRestFails
    BY <2>2 DEF KeepRestFails, GivesUp, localVars
  <2>3. CASE Unexpected
    <3>1. GivesUp("malformed")
      BY <2>3 DEF Unexpected
    <3>. QED  BY <2>3, <3>1 DEF GivesUp, localVars
  <2>. QED  BY <2>1, <2>2, <2>3
<1>2. BytesInv'
  BY <1>1 DEF PlaceInv, BytesInv, Taken
<1>3. reason' = "malformed" => \E i \in DOMAIN response' : ~response'[i].crlf
  BY <1>1, Refused
<1>. QED  BY <1>1, <1>2, <1>3 DEF PlaceInv

LEMMA PlaceNext == TypeInv /\ PoolInv /\ PlaceInv /\ [Next]_vars => PlaceInv'
<1>. SUFFICES ASSUME TypeInv, PoolInv, PlaceInv, [Next]_vars PROVE PlaceInv'
  OBVIOUS
<1>1. CASE \E k \in 0 .. Len(wire) : ReceiveHeader(k) \/ Receive(k)
  BY <1>1, PlaceReceive
<1>2. CASE ReadDigit \/ StartExtension \/ SkipExtension \/ EndSizeLine \/ ReadChunkEnd
  <2>1. CASE pc = "size"
    <3>1. ~ReadChunkEnd
      BY <2>1 DEF ReadChunkEnd, Read
    <3>. QED  BY <1>2, <2>1, <3>1, PlaceReadLine
  <2>2. CASE pc # "size"
    <3>1. EndSizeLine \/ ReadChunkEnd
      BY <1>2, <2>2 DEF ReadDigit, StartExtension, SkipExtension, Read
    <3>. QED  BY <2>2, <3>1, PlaceReadEnds
  <2>. QED  BY <2>1, <2>2
<1>3. CASE CallAgain \/ EndOfBody \/ KeepRest
  BY <1>3, PlaceSame
<1>4. CASE TakeChunk \/ ReturnChunk \/ Finish
  BY <1>4, PlaceTake, PlaceReturn, PlaceFinish
<1>5. CASE ReceiveFails \/ Unexpected \/ KeepRestFails
  BY <1>5, PlaceGivesUp
<1>6. CASE UNCHANGED vars
  <2>1. UNCHANGED <<response, wire, unread, data, delivered, size, extension, length, pc,
                    total_bytes, actual_bytes, stream, reason, calls>>
    BY <1>6 DEF vars, clientVars, localVars, endVars
  <2>2. Place' = Place /\ Taken' = Taken
    BY <2>1 DEF Place, Taken, Total
  <2>3. BytesInv' /\ (pc # "end" => HeldInv' /\ RestInv')
    BY <2>1, <2>2 DEF PlaceInv, BytesInv, HeldInv, RestInv, Total
  <2>4. pc # "end" => \E i \in 1 .. Len(response) + 1 : At(i)'
    BY <2>1, <2>2, AtKept DEF PlaceInv
  <2>. QED  BY <2>1, <2>3, <2>4 DEF PlaceInv
<1>. QED  BY <1>1, <1>2, <1>3, <1>4, <1>5, <1>6 DEF Next

-----------------------------------------------------------------------------
(* What the invariants say. *)

LEMMA BodyIs ==
  ASSUME SeqTypes
  PROVE  /\ Body \in Seq(Tokens) /\ Len(Body) = DataBefore(response, Len(response) + 1)
         /\ Len(Body) \in Nat
         /\ \A x \in 1 .. Len(Body) : Body[x] = Data(x)
<1>. DEFINE all == DataBefore(response, Len(response) + 1)
<1>1. response \in Seq(ChunkType) /\ Len(response) + 1 \in 1 .. Len(response) + 1
  BY ResponseFields DEF SeqTypes
<1>2. all \in Nat
  BY <1>1, DataSteps
<1>3. \A x \in 1 .. all : Data(x) \in Tokens
  BY <1>2 DEF Data, Tokens
<1>4. Body = [x \in 1 .. all |-> Data(x)]
  BY DEF Body
<1>. HIDE DEF all
<1>. DEFINE body == [x \in 1 .. all |-> Data(x)]
<1>5. body \in Seq(Tokens) /\ Len(body) = all /\ \A x \in 1 .. all : body[x] = Data(x)
  BY <1>2, <1>3
<1>. QED  BY <1>2, <1>4, <1>5 DEF all

LEMMA PlaceIsKept == TypeInv /\ PlaceInv => KeepsItsPlace
<1>. SUFFICES ASSUME TypeInv, PlaceInv PROVE IsPrefix(delivered, Body)
  BY DEF PlaceInv, KeepsItsPlace
<1>1. /\ delivered \in Seq(Tokens) /\ Len(delivered) \in Nat /\ Len(data) \in Nat
      /\ Body \in Seq(Tokens) /\ Len(Body) \in Nat
      /\ Len(Body) = DataBefore(response, Len(response) + 1)
      /\ \A x \in 1 .. Len(Body) : Body[x] = Data(x)
  BY BodyIs DEF TypeInv, SeqTypes
<1>2. Len(delivered) <= Len(Body) /\ \A x \in 1 .. Len(delivered) : delivered[x] = Data(x)
  BY <1>1 DEF PlaceInv, BytesInv, Taken
<1>3. SubSeq(delivered, 1, Len(delivered)) = SubSeq(Body, 1, Len(delivered))
  <2>1. /\ SubSeq(delivered, 1, Len(delivered)) \in Seq(Tokens)
        /\ Len(SubSeq(delivered, 1, Len(delivered))) = Len(delivered)
        /\ \A x \in 1 .. Len(delivered) :
             SubSeq(delivered, 1, Len(delivered))[x] = delivered[x]
    BY <1>1, Cuts
  <2>2. /\ SubSeq(Body, 1, Len(delivered)) \in Seq(Tokens)
        /\ Len(SubSeq(Body, 1, Len(delivered))) = Len(delivered)
        /\ \A x \in 1 .. Len(delivered) : SubSeq(Body, 1, Len(delivered))[x] = Body[x]
    BY <1>1, <1>2, Cuts
  <2>3. \A x \in 1 .. Len(delivered) : delivered[x] = Body[x]
    BY <1>1, <1>2
  <2>. QED  BY <1>1, <2>1, <2>2, <2>3, SeqEqual
<1>. QED  BY <1>2, <1>3 DEF IsPrefix

(* However a response of the peer is cut into packets, the decoder never   *)
(* loses its place: the caller is given a beginning of the body, byte for  *)
(* byte, and only a response with a chunk that is not closed by CRLF is    *)
(* refused as malformed.                                                   *)
THEOREM PlaceIsNeverLost == Spec => []KeepsItsPlace
<1>1. Init => TypeInv /\ PoolInv /\ PlaceInv
  BY TypeInit, PoolInit, PlaceInit
<1>2. TypeInv /\ PoolInv /\ PlaceInv /\ [Next]_vars => TypeInv' /\ PoolInv' /\ PlaceInv'
  BY TypeNext, PoolNext, PlaceNext
<1>3. TypeInv /\ PlaceInv => KeepsItsPlace
  BY PlaceIsKept
<1>. QED  BY <1>1, <1>2, <1>3, PTL DEF Spec

-----------------------------------------------------------------------------
(* The promise of BodyStream. *)

LEMMA PromiseInit == Init /\ TypeInv => Promise!Init
<1>. SUFFICES ASSUME Init, TypeInv PROVE Promise!Init
  OBVIOUS
<1>1. Len(Body) \in Nat
  BY BodyIs DEF TypeInv
<1>2. stream = "open" /\ Len(delivered) = 0
  BY DEF Init
<1>. QED  BY <1>1, <1>2 DEF Promise!Init

LEMMA PromiseStep ==
  ASSUME TypeInv, PoolInv, PlaceInv, TypeInv', PlaceInv', [Next]_vars
  PROVE  [Promise!Get]_(Promise!streamVars)
<1>1. /\ Len(delivered) \in Nat /\ Len(data) \in Nat /\ Len(Body) \in Nat
      /\ Len(Body) = DataBefore(response, Len(response) + 1)
  BY BodyIs DEF TypeInv, SeqTypes
<1>2. response' = response
  BY DEF Next, vars, ReceiveHeader, Receive, CallAgain, ReceiveFails, ReadDigit, StartExtension,
         SkipExtension, EndSizeLine, Unexpected, TakeChunk, EndOfBody, ReadChunkEnd, KeepRest,
         KeepRestFails, ReturnChunk, Finish, GivesUp, Reads
<1>3. Body' = Body /\ Len(Body)' = Len(Body)
  BY <1>2 DEF Body
<1>4. CASE ReturnChunk
  <2>1. /\ stream = "open" /\ stream' = stream /\ delivered' = delivered \o data
    BY <1>4 DEF ReturnChunk, PoolInv
  <2>2. Len(delivered)' = Len(delivered) + Len(data)
    <3>1. IsJoin(delivered \o data, delivered, data)
      BY Joined DEF TypeInv, SeqTypes
    <3>. QED  BY <2>1, <3>1 DEF IsJoin
  <2>3. Len(delivered) + Len(data) <= Len(Body)
    BY <1>1 DEF PlaceInv, BytesInv, Taken
  <2>4. Len(data) \in 0 .. Len(Body) - Len(delivered) /\ Len(data) <= Len(Body) - Len(delivered)
    BY <1>1, <2>3
  <2>5. Promise!GotMore(Len(data))
    BY <1>3, <2>1, <2>2, <2>4 DEF Promise!GotMore
  <2>. QED  BY <2>4, <2>5 DEF Promise!Get
<1>5. CASE Finish
  <2>1. /\ stream = "open" /\ stream' = "done" /\ delivered' = delivered
    BY <1>5 DEF Finish, PoolInv
  <2>2. Len(delivered) = Len(Body)
    BY <1>1, <1>2, <2>1 DEF PlaceInv
  <2>3. 0 \in 0 .. Len(Body) - Len(delivered) /\ 0 = Len(Body) - Len(delivered)
    BY <1>1, <2>2
  <2>4. Len(delivered)' = Len(Body)
    BY <2>1, <2>2
  <2>5. Promise!GotLast(0)
    BY <1>3, <2>1, <2>3, <2>4 DEF Promise!GotLast
  <2>. QED  BY <2>3, <2>5 DEF Promise!Get
<1>6. CASE ReceiveFails \/ Unexpected \/ KeepRestFails
  <2>1. pc # "end" /\ \E why \in {"lost", "malformed", "no packet"} : GivesUp(why)
    BY <1>6 DEF ReceiveFails, WaitsForBytes, Reading, Unexpected, KeepRestFails
  <2>2. stream = "open" /\ stream' = "failed" /\ delivered' = delivered
    BY <2>1 DEF PoolInv, GivesUp
  <2>3. Promise!GetFailed
    BY <1>3, <2>2 DEF Promise!GetFailed
  <2>. QED  BY <2>3 DEF Promise!Get
<1>7. CASE UNCHANGED <<stream, delivered>>
  BY <1>3, <1>7 DEF Promise!streamVars
<1>8. ReturnChunk \/ Finish \/ ReceiveFails \/ Unexpected \/ KeepRestFails
        \/ UNCHANGED <<stream, delivered>>
  BY DEF Next, vars, endVars, ReceiveHeader, Receive, CallAgain, ReadDigit, StartExtension,
         SkipExtension, EndSizeLine, TakeChunk, EndOfBody, ReadChunkEnd, KeepRest, Reads
<1>. QED  BY <1>4, <1>5, <1>6, <1>7, <1>8

(* body_get keeps the promise that the firmware download relies on: the    *)
(* body in its order, "done" only with all of it, nothing after an end.    *)
THEOREM PromiseIsKept == Spec => KeepsPromise
<1>1. Init => TypeInv /\ PoolInv /\ PlaceInv
  BY TypeInit, PoolInit, PlaceInit
<1>2. TypeInv /\ PoolInv /\ PlaceInv /\ [Next]_vars => TypeInv' /\ PoolInv' /\ PlaceInv'
  BY TypeNext, PoolNext, PlaceNext
<1>3. Init /\ TypeInv => Promise!Init
  BY PromiseInit
<1>4. TypeInv /\ PoolInv /\ PlaceInv /\ TypeInv' /\ PlaceInv' /\ [Next]_vars
        => [Promise!Get]_(Promise!streamVars)
  BY PromiseStep
<1>. QED  BY <1>1, <1>2, <1>3, <1>4, PTL DEF Spec, KeepsPromise, Promise!Spec

-----------------------------------------------------------------------------
(* Why the receive loop comes to an end. *)

(* Steps the decoder can take from p on before it reads a byte or ends.    *)
Rank(p) ==
  CASE p = "end" -> 0 [] p = "chunk" -> 2 [] p = "call" -> 3
    [] p = "return" -> 4 [] p = "keep" -> 5 [] OTHER -> 1

(* And with the bytes: each on the wire is first received, then read.      *)
StepsLeft == 16 * Len(wire) + 8 * Len(unread) + Rank(pc)

LEMMA Ranks ==
  ASSUME NEW p
  PROVE  /\ Rank(p) \in 0 .. 5
         /\ p = "end" => Rank(p) = 0
         /\ p = "chunk" => Rank(p) = 2
         /\ p = "call" => Rank(p) = 3
         /\ p = "return" => Rank(p) = 4
         /\ p = "keep" => Rank(p) = 5
         /\ p \notin {"end", "chunk", "call", "return", "keep"} => Rank(p) = 1
<1>1. CASE p \in {"end", "chunk", "call", "return", "keep"}
  BY <1>1 DEF Rank
<1>2. CASE p \notin {"end", "chunk", "call", "return", "keep"}
  <2>1. Rank(p) = 1
    BY <1>2 DEF Rank
  <2>. QED  BY <1>2, <2>1
<1>. QED  BY <1>1, <1>2

LEMMA StepsSpent ==
  ASSUME TypeInv, TypeInv', Next
  PROVE  StepsLeft' < StepsLeft
<1>. DEFINE w == Len(wire)
            u == Len(unread)
            r == Rank(pc)
            v == Len(wire')
            s == Len(unread')
            q == Rank(pc')
<1>1. /\ wire \in Seq(Tokens) /\ unread \in Seq(Tokens) /\ remaining = u
      /\ w \in Nat /\ u \in Nat /\ v \in Nat /\ s \in Nat /\ remaining' = s
      /\ size \in Nat
  <2>1. /\ wire \in Seq(Tokens) /\ unread \in Seq(Tokens) /\ remaining = u /\ size \in Nat
    BY DEF TypeInv, SeqTypes, NumTypes
  <2>2. /\ wire' \in Seq(Tokens) /\ unread' \in Seq(Tokens) /\ remaining' = s
    BY DEF TypeInv, SeqTypes
  <2>. QED  BY <2>1, <2>2
<1>2. r \in 0 .. 5 /\ q \in 0 .. 5
  BY Ranks
<1>3. StepsLeft = 16 * w + 8 * u + r /\ StepsLeft' = 16 * v + 8 * s + q
  BY DEF StepsLeft
<1>. HIDE DEF w, u, r, v, s, q
<1>4. ASSUME v = w, s < u PROVE 16 * v + 8 * s + q < 16 * w + 8 * u + r
  BY <1>1, <1>2, <1>4
<1>5. ASSUME v = w, s <= u, q < r PROVE 16 * v + 8 * s + q < 16 * w + 8 * u + r
  BY <1>1, <1>2, <1>5
<1>6. ASSUME NEW k \in 0 .. Len(wire), ReceiveHeader(k) \/ Receive(k)
      PROVE  16 * v + 8 * s + q < 16 * w + 8 * u + r
  <2>1. k \in Nat /\ v = w - k /\ s = k
    <3>1. /\ wire' = SubSeq(wire, k + 1, Len(wire)) /\ remaining' = k
      BY <1>6 DEF ReceiveHeader, Receive, Received
    <3>. QED  BY <1>1, <3>1, Cuts DEF w, v
  <2>2. CASE ReceiveHeader(k)
    <3>1. q = 1 /\ r = 3
      BY <2>2, Ranks DEF ReceiveHeader, q, r
    <3>. QED  BY <1>1, <2>1, <3>1
  <2>3. CASE Receive(k)
    <3>1. q = r /\ u = 0
      BY <1>1, <2>3 DEF Receive, WaitsForBytes, q, r
    <3>2. k > 0
      BY <2>3 DEF Receive, Received
    <3>. QED  BY <1>1, <1>2, <2>1, <3>1, <3>2
  <2>. QED  BY <1>6, <2>2, <2>3
<1>7. CASE ReadDigit \/ StartExtension \/ SkipExtension \/ EndSizeLine \/ ReadChunkEnd
  <2>1. remaining > 0 /\ remaining' = remaining - 1 /\ wire' = wire
    BY <1>7, ReadersRead DEF ReadsOne
  <2>2. v = w /\ s < u
    <3>1. v = w
      BY <2>1 DEF v, w
    <3>. QED  BY <1>1, <2>1, <3>1
  <2>. QED  BY <1>3, <1>4, <2>2
<1>8. CASE TakeChunk
  <2>1. /\ wire' = wire /\ remaining > 0 /\ size > 0
        /\ remaining' = remaining - (IF TakeAll THEN size ELSE remaining)
    BY <1>8 DEF TakeChunk
  <2>2. v = w /\ s < u
    <3>1. v = w
      BY <2>1 DEF v, w
    <3>. QED  BY <1>1, <2>1, <3>1
  <2>. QED  BY <1>3, <1>4, <2>2
<1>9. CASE CallAgain \/ EndOfBody \/ KeepRest \/ ReturnChunk
  <2>1. wire' = wire /\ unread' = unread
    BY <1>9 DEF CallAgain, EndOfBody, KeepRest, ReturnChunk
  <2>2. v = w /\ s = u
    BY <2>1 DEF v, w, s, u
  <2>3. q < r
    <3>1. CASE CallAgain
      <4>1. pc = "call" /\ pc' \in {"size", "chunk"}
        BY <3>1 DEF CallAgain, Awaits
      <4>2. r = 3 /\ q \in {1, 2}
        BY <4>1, Ranks DEF r, q
      <4>. QED  BY <4>2
    <3>2. CASE EndOfBody
      <4>1. pc = "chunk" /\ pc' = "end CR"
        BY <3>2 DEF EndOfBody
      <4>2. r = 2 /\ q = 1
        BY <4>1, Ranks DEF r, q
      <4>. QED  BY <4>2
    <3>3. CASE KeepRest
      <4>1. pc = "keep" /\ pc' = "return"
        BY <3>3 DEF KeepRest
      <4>2. r = 5 /\ q = 4
        BY <4>1, Ranks DEF r, q
      <4>. QED  BY <4>2
    <3>4. CASE ReturnChunk
      <4>1. pc = "return" /\ pc' = "call"
        BY <3>4 DEF ReturnChunk
      <4>2. r = 4 /\ q = 3
        BY <4>1, Ranks DEF r, q
      <4>. QED  BY <4>2
    <3>. QED  BY <1>9, <3>1, <3>2, <3>3, <3>4
  <2>. QED  BY <1>1, <1>3, <1>5, <2>2, <2>3
<1>10. CASE ReceiveFails \/ Unexpected \/ KeepRestFails \/ Finish
  <2>1. wire' = wire /\ remaining' = 0 /\ pc # "end" /\ pc' = "end"
    BY <1>10 DEF ReceiveFails, WaitsForBytes, Reading, Unexpected, KeepRestFails, GivesUp, Finish
  <2>2. v = w /\ s <= u
    <3>1. v = w
      BY <2>1 DEF v, w
    <3>. QED  BY <1>1, <2>1, <3>1
  <2>3. q < r
    <3>1. q = 0 /\ r # 0
      BY <2>1, Ranks DEF q, r
    <3>. QED  BY <1>2, <3>1
  <2>. QED  BY <1>3, <1>5, <2>2, <2>3
<1>. QED  BY <1>3, <1>6, <1>7, <1>8, <1>9, <1>10 DEF Next

(* Every step of the receive loop uses up part of what it can still do: no *)
(* cutting into packets, no empty packet and no error makes body_get and   *)
(* its caller go round for ever.                                           *)
THEOREM StepsRunOut == Spec => [](StepsLeft \in Nat) /\ [][StepsLeft' < StepsLeft]_vars
<1>1. TypeInv => StepsLeft \in Nat
  <2>. SUFFICES ASSUME TypeInv PROVE StepsLeft \in Nat
    OBVIOUS
  <2>1. Len(wire) \in Nat /\ Len(unread) \in Nat
    BY DEF TypeInv, SeqTypes
  <2>2. Rank(pc) \in 0 .. 5
    BY Ranks
  <2>. QED  BY <2>1, <2>2 DEF StepsLeft
<1>2. TypeInv /\ [Next]_vars => [StepsLeft' < StepsLeft]_vars
  BY TypeNext, StepsSpent
<1>. QED  BY <1>1, <1>2, TypeInit, TypeNext, PTL DEF Spec
=============================================================================
