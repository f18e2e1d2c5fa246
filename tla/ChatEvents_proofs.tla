--------------------------- MODULE ChatEvents_proofs ---------------------------
(***************************************************************************)
(* What a turn's events say, wherever the page reads them: of the local    *)
(* driver's scripts and the failure scripts, of the SDK's answers, whole   *)
(* or broken off, and of all of these after the way through the Responses  *)
(* protocol.  Whatever the turn, its stream has the text of its script in  *)
(* its order, no result the script does not have, no call that is not the  *)
(* turn's own (but where two calls of one name were open at once), and     *)
(* unless it was cut off a verdict: that is Follows, at the end.           *)
(*                                                                         *)
(* Spoken, Written and Read are recursive functions over sequences of any  *)
(* length.  What they do is proved by induction over the length, from the  *)
(* well-foundedness of < on the natural numbers.                           *)
(***************************************************************************)
EXTENDS HostedChat, SequenceTheorems, WellFoundedInduction, TLAPS

\* What holds of 0 and of the next number holds of every number.
LEMMA Induction ==
    ASSUME NEW S, 0 \in S, \A n \in Nat : n \in S => n + 1 \in S
    PROVE  Nat \subseteq S
<1>1. PICK R : R = OpToRel(<, Nat) /\ IsWellFoundedOn(R, Nat)
  BY NatLessThanWellFounded, Zenon
<1>2. \A x, y \in Nat : <<x, y>> \in R <=> x < y
  BY <1>1 DEF OpToRel
<1> SUFFICES ASSUME ~(Nat \subseteq S) PROVE FALSE
  OBVIOUS
<1>3. PICK D : D = Nat \ S
  OBVIOUS
<1>4. D \subseteq Nat /\ D # {}
  BY <1>3
<1>5. PICK x \in D : \A y \in D : ~(<<y, x>> \in R)
  BY <1>1, <1>4, WFMin, Zenon
<1>6. \A y \in D : y \in Nat /\ ~(y < x)
  BY <1>2, <1>4, <1>5
<1>7. x \in Nat /\ x # 0 /\ x \notin S
  BY <1>3, <1>5
<1>8. x - 1 \in Nat /\ x - 1 < x /\ (x - 1) + 1 = x
  BY <1>7
<1>9. x - 1 \in S
  BY <1>3, <1>6, <1>8
<1> QED
  BY <1>7, <1>8, <1>9

\* What holds of the empty sequence and of one more element holds of every sequence.
LEMMA SequenceInduction ==
    ASSUME NEW E, NEW P, <<>> \in P,
           \A s \in Seq(E), e \in E : s \in P => Append(s, e) \in P
    PROVE  Seq(E) \subseteq P
<1> DEFINE T == {n \in Nat : \A s \in Seq(E) : Len(s) = n => s \in P}
<1>1. 0 \in T
  OBVIOUS
<1>2. ASSUME NEW n \in Nat, n \in T PROVE n + 1 \in T
  <2> SUFFICES ASSUME NEW s \in Seq(E), Len(s) = n + 1 PROVE s \in P
    OBVIOUS
  <2> DEFINE u == [k \in 1 .. n |-> s[k]]
  <2>1. u \in Seq(E) /\ Len(u) = n /\ s[n + 1] \in E
    OBVIOUS
  <2>2. s = Append(u, s[n + 1])
    OBVIOUS
  <2> HIDE DEF u
  <2> QED  BY <1>2, <2>1, <2>2
<1>3. Nat \subseteq T
  <2> HIDE DEF T
  <2> QED  BY <1>1, <1>2, Induction
<1> QED
  BY <1>3

------------------------------------------------------------------------------
(* What is spoken, event by event. *)

\* The run of Spoken over a sequence, one value for each event read.
SpokenRun(s, f) ==
    f = [k \in 0 .. Len(s) |->
            IF k = 0 THEN <<>>
            ELSE IF s[k].type = "token" THEN Append(f[k - 1], s[k]) ELSE f[k - 1]]

\* Its first value and each next one.
LEMMA SpokenRunSteps ==
    ASSUME NEW E, NEW s \in Seq(E), NEW f, SpokenRun(s, f)
    PROVE  /\ f[0] = <<>>
           /\ \A k \in 1 .. Len(s) :
                 f[k] = IF s[k].type = "token" THEN Append(f[k - 1], s[k]) ELSE f[k - 1]
<1>1. Len(s) \in Nat
  OBVIOUS
<1>2. ASSUME NEW k \in 0 .. Len(s)
      PROVE  f[k] = IF k = 0 THEN <<>>
                    ELSE IF s[k].type = "token" THEN Append(f[k - 1], s[k]) ELSE f[k - 1]
  BY DEF SpokenRun
<1> QED
  BY <1>1, <1>2

\* There is one run only, and what is spoken is its last value.
LEMMA SpokenIsRun ==
    ASSUME NEW E, NEW s \in Seq(E), NEW f, SpokenRun(s, f)
    PROVE  Spoken(s) = f[Len(s)]
<1>1. PICK g : g = (CHOOSE h : h = [k \in 0 .. Len(s) |->
            IF k = 0 THEN <<>>
            ELSE IF s[k].type = "token" THEN Append(h[k - 1], s[k]) ELSE h[k - 1]])
  OBVIOUS
<1>2. Spoken(s) = g[Len(s)]
  BY <1>1 DEF Spoken
<1>3. SpokenRun(s, g)
  BY <1>1, Zenon DEF SpokenRun
<1> DEFINE T == {n \in Nat : n <= Len(s) => g[n] = f[n]}
<1>4. 0 \in T
  BY <1>3, SpokenRunSteps
<1>5. ASSUME NEW n \in Nat, n \in T PROVE n + 1 \in T
  <2> SUFFICES ASSUME n + 1 <= Len(s) PROVE g[n + 1] = f[n + 1]
    OBVIOUS
  <2>1. n + 1 \in 1 .. Len(s) /\ g[n] = f[n] /\ (n + 1) - 1 = n
    BY <1>5
  <2> QED  BY <1>3, <2>1, SpokenRunSteps
<1>6. Nat \subseteq T
  <2> HIDE DEF T
  <2> QED  BY <1>4, <1>5, Induction
<1> QED
  BY <1>2, <1>6

\* Every sequence has its run.
LEMMA SpokenRuns ==
    ASSUME NEW E, NEW s \in Seq(E)
    PROVE  \E f : SpokenRun(s, f)
<1> DEFINE P == {u \in Seq(E) : \E f : SpokenRun(u, f)}
<1>1. <<>> \in P
  <2>1. SpokenRun(<<>>, [k \in 0 .. 0 |-> <<>>])
    BY DEF SpokenRun
  <2> QED  BY <2>1
<1>2. ASSUME NEW u \in Seq(E), NEW e \in E, u \in P PROVE Append(u, e) \in P
  <2>1. PICK f : SpokenRun(u, f)
    BY <1>2
  <2> DEFINE a == Append(u, e)
             l == IF e.type = "token" THEN Append(f[Len(u)], e) ELSE f[Len(u)]
             g == [k \in 0 .. Len(a) |-> IF k = Len(a) THEN l ELSE f[k]]
  <2>2. a \in Seq(E) /\ Len(a) = Len(u) + 1 /\ a[Len(a)] = e /\ Len(u) \in Nat
        /\ \A k \in 1 .. Len(u) : a[k] = u[k]
    OBVIOUS
  <2> HIDE DEF a
  <2>3. ASSUME NEW k \in 0 .. Len(a)
        PROVE  g[k] = IF k = 0 THEN <<>>
                      ELSE IF a[k].type = "token" THEN Append(g[k - 1], a[k]) ELSE g[k - 1]
    <3>1. CASE k = 0
      BY <2>1, <2>2, <3>1, SpokenRunSteps
    <3>2. CASE k = Len(a)
      <4>1. g[k] = l /\ k - 1 = Len(u) /\ g[k - 1] = f[Len(u)] /\ k # 0
        BY <2>2, <3>2
      <4> QED  BY <2>2, <3>2, <4>1
    <3>3. CASE k \in 1 .. Len(u)
      <4>1. g[k] = f[k] /\ g[k - 1] = f[k - 1] /\ k # 0
        BY <2>2, <3>3
      <4> QED  BY <2>1, <2>2, <3>3, <4>1, SpokenRunSteps
    <3> QED  BY <2>2, <3>1, <3>2, <3>3
  <2>4. SpokenRun(a, g)
    <3> DEFINE h == [k \in 0 .. Len(a) |-> IF k = 0 THEN <<>>
                      ELSE IF a[k].type = "token" THEN Append(g[k - 1], a[k]) ELSE g[k - 1]]
    <3>1. \A k \in 0 .. Len(a) : g[k] = h[k]
      <4> HIDE DEF g
      <4> QED  BY <2>3
    <3>2. g = h
      <4>1. g = [k \in 0 .. Len(a) |-> g[k]]
        OBVIOUS
      <4>2. h = [k \in 0 .. Len(a) |-> h[k]]
        OBVIOUS
      <4> HIDE DEF g, h
      <4> QED  BY <3>1, <4>1, <4>2
    <3> QED  BY <3>2 DEF SpokenRun
  <2>5. a \in P
    BY <2>2, <2>4
  <2> QED  BY <2>5 DEF a
<1>3. Seq(E) \subseteq P
  <2> HIDE DEF P
  <2> QED  BY <1>1, <1>2, SequenceInduction
<1> QED
  BY <1>3

LEMMA NothingSpoken == Spoken(<<>>) = <<>>
<1>1. PICK f : f = [k \in 0 .. 0 |-> <<>>]
  OBVIOUS
<1>2. SpokenRun(<<>>, f) /\ <<>> \in Seq({}) /\ Len(<<>>) = 0 /\ f[0] = <<>>
  BY <1>1 DEF SpokenRun
<1>3. Spoken(<<>>) = f[Len(<<>>)]
  BY <1>2, SpokenIsRun
<1> QED
  BY <1>2, <1>3

\* One event more is heard, if it is text.
LEMMA SpokenGrows ==
    ASSUME NEW E, NEW s \in Seq(E), NEW e \in E
    PROVE  Spoken(Append(s, e)) = IF e.type = "token" THEN Append(Spoken(s), e) ELSE Spoken(s)
<1> DEFINE a == Append(s, e)
<1>1. a \in Seq(E) /\ Len(a) = Len(s) + 1 /\ a[Len(a)] = e /\ Len(s) \in Nat
      /\ \A k \in 1 .. Len(s) : a[k] = s[k]
  OBVIOUS
<1> HIDE DEF a
<1>2. PICK g : SpokenRun(a, g)
  BY <1>1, SpokenRuns
<1>3. Spoken(a) = g[Len(s) + 1]
  BY <1>1, <1>2, SpokenIsRun
<1> DEFINE h == [k \in 0 .. Len(s) |-> g[k]]
<1>4. SpokenRun(s, h)
  <2>1. ASSUME NEW k \in 0 .. Len(s)
        PROVE  h[k] = IF k = 0 THEN <<>>
                      ELSE IF s[k].type = "token" THEN Append(h[k - 1], s[k]) ELSE h[k - 1]
    <3>1. CASE k = 0
      BY <1>1, <1>2, <3>1, SpokenRunSteps
    <3>2. CASE k # 0
      <4>1. k \in 1 .. Len(a) /\ h[k] = g[k] /\ h[k - 1] = g[k - 1] /\ a[k] = s[k]
        BY <1>1, <3>2
      <4> QED  BY <1>1, <1>2, <3>2, <4>1, SpokenRunSteps
    <3> QED  BY <3>1, <3>2
  <2>2. h = [k \in 0 .. Len(s) |-> h[k]]
    OBVIOUS
  <2> HIDE DEF h
  <2> QED  BY <2>1, <2>2 DEF SpokenRun
<1>5. g[Len(s)] = Spoken(s)
  <2>1. h[Len(s)] = g[Len(s)]
    BY <1>1
  <2> HIDE DEF h
  <2> QED  BY <1>4, <2>1, SpokenIsRun
<1>6. Len(s) + 1 \in 1 .. Len(a) /\ (Len(s) + 1) - 1 = Len(s)
  BY <1>1
<1>7. g[Len(s) + 1] = IF a[Len(s) + 1].type = "token" THEN Append(g[Len(s)], a[Len(s) + 1]) ELSE g[Len(s)]
  BY <1>1, <1>2, <1>6, SpokenRunSteps
<1> QED
  BY <1>1, <1>3, <1>5, <1>7 DEF a

------------------------------------------------------------------------------
(* What is written and read, event by event and frame by frame. *)

\* The writer's run over a sequence of events.
WrittenRun(s, f) ==
    f = [k \in 0 .. Len(s) |-> IF k = 0 THEN NewWriter ELSE writeEvent(f[k - 1], s[k])]

LEMMA WrittenRunSteps ==
    ASSUME NEW E, NEW s \in Seq(E), NEW f, WrittenRun(s, f)
    PROVE  f[0] = NewWriter /\ \A k \in 1 .. Len(s) : f[k] = writeEvent(f[k - 1], s[k])
<1>1. Len(s) \in Nat
  OBVIOUS
<1>2. ASSUME NEW k \in 0 .. Len(s) PROVE f[k] = IF k = 0 THEN NewWriter ELSE writeEvent(f[k - 1], s[k])
  BY DEF WrittenRun
<1> QED
  BY <1>1, <1>2

LEMMA WrittenIsRun ==
    ASSUME NEW E, NEW s \in Seq(E), NEW f, WrittenRun(s, f)
    PROVE  Written(s) = f[Len(s)]
<1>1. PICK g : g = (CHOOSE h : h = [k \in 0 .. Len(s) |-> IF k = 0 THEN NewWriter
                                                        ELSE writeEvent(h[k - 1], s[k])])
  OBVIOUS
<1>2. Written(s) = g[Len(s)]
  BY <1>1 DEF Written
<1>3. WrittenRun(s, g)
  BY <1>1, Zenon DEF WrittenRun
<1> DEFINE T == {n \in Nat : n <= Len(s) => g[n] = f[n]}
<1>4. 0 \in T
  BY <1>3, WrittenRunSteps
<1>5. ASSUME NEW n \in Nat, n \in T PROVE n + 1 \in T
  <2> SUFFICES ASSUME n + 1 <= Len(s) PROVE g[n + 1] = f[n + 1]
    OBVIOUS
  <2>1. n + 1 \in 1 .. Len(s) /\ g[n] = f[n] /\ (n + 1) - 1 = n
    BY <1>5
  <2> QED  BY <1>3, <2>1, WrittenRunSteps
<1>6. Nat \subseteq T
  <2> HIDE DEF T
  <2> QED  BY <1>4, <1>5, Induction
<1> QED
  BY <1>2, <1>6

LEMMA WrittenRuns ==
    ASSUME NEW E, NEW s \in Seq(E)
    PROVE  \E f : WrittenRun(s, f)
<1> DEFINE P == {u \in Seq(E) : \E f : WrittenRun(u, f)}
<1>1. <<>> \in P
  <2>1. WrittenRun(<<>>, [k \in 0 .. 0 |-> NewWriter])
    BY DEF WrittenRun
  <2> QED  BY <2>1
<1>2. ASSUME NEW u \in Seq(E), NEW e \in E, u \in P PROVE Append(u, e) \in P
  <2>1. PICK f : WrittenRun(u, f)
    BY <1>2
  <2> DEFINE a == Append(u, e)
             g == [k \in 0 .. Len(a) |-> IF k = Len(a) THEN writeEvent(f[Len(u)], e) ELSE f[k]]
  <2>2. a \in Seq(E) /\ Len(a) = Len(u) + 1 /\ a[Len(a)] = e /\ Len(u) \in Nat
        /\ \A k \in 1 .. Len(u) : a[k] = u[k]
    OBVIOUS
  <2> HIDE DEF a
  <2>3. ASSUME NEW k \in 0 .. Len(a)
        PROVE  g[k] = IF k = 0 THEN NewWriter ELSE writeEvent(g[k - 1], a[k])
    <3>1. CASE k = 0
      BY <2>1, <2>2, <3>1, WrittenRunSteps
    <3>2. CASE k = Len(a)
      <4>1. g[k] = writeEvent(f[Len(u)], e) /\ k - 1 = Len(u) /\ g[k - 1] = f[Len(u)] /\ k # 0
        BY <2>2, <3>2
      <4> QED  BY <2>2, <3>2, <4>1
    <3>3. CASE k \in 1 .. Len(u)
      <4>1. g[k] = f[k] /\ g[k - 1] = f[k - 1] /\ k # 0
        BY <2>2, <3>3
      <4> QED  BY <2>1, <2>2, <3>3, <4>1, WrittenRunSteps
    <3> QED  BY <2>2, <3>1, <3>2, <3>3
  <2>4. g = [k \in 0 .. Len(a) |-> g[k]]
    OBVIOUS
  <2>5. WrittenRun(a, g)
    <3> HIDE DEF g
    <3> QED  BY <2>3, <2>4 DEF WrittenRun
  <2>6. a \in P
    BY <2>2, <2>5
  <2> QED  BY <2>6 DEF a
<1>3. Seq(E) \subseteq P
  <2> HIDE DEF P
  <2> QED  BY <1>1, <1>2, SequenceInduction
<1> QED
  BY <1>3

LEMMA WrittenOfNothing == Written(<<>>) = NewWriter
<1>1. PICK f : f = [k \in 0 .. 0 |-> NewWriter]
  OBVIOUS
<1>2. WrittenRun(<<>>, f) /\ <<>> \in Seq({}) /\ Len(<<>>) = 0 /\ f[0] = NewWriter
  BY <1>1 DEF WrittenRun
<1>3. Written(<<>>) = f[Len(<<>>)]
  BY <1>2, WrittenIsRun
<1> QED
  BY <1>2, <1>3

\* The writer goes on from what it was.
LEMMA WrittenGrows ==
    ASSUME NEW E, NEW s \in Seq(E), NEW e \in E
    PROVE  Written(Append(s, e)) = writeEvent(Written(s), e)
<1> DEFINE a == Append(s, e)
<1>1. a \in Seq(E) /\ Len(a) = Len(s) + 1 /\ a[Len(a)] = e /\ Len(s) \in Nat
      /\ \A k \in 1 .. Len(s) : a[k] = s[k]
  OBVIOUS
<1> HIDE DEF a
<1>2. PICK g : WrittenRun(a, g)
  BY <1>1, WrittenRuns
<1>3. Written(a) = g[Len(s) + 1]
  BY <1>1, <1>2, WrittenIsRun
<1> DEFINE h == [k \in 0 .. Len(s) |-> g[k]]
<1>4. WrittenRun(s, h)
  <2>1. ASSUME NEW k \in 0 .. Len(s)
        PROVE  h[k] = IF k = 0 THEN NewWriter ELSE writeEvent(h[k - 1], s[k])
    <3>1. CASE k = 0
      BY <1>1, <1>2, <3>1, WrittenRunSteps
    <3>2. CASE k # 0
      <4>1. k \in 1 .. Len(a) /\ h[k] = g[k] /\ h[k - 1] = g[k - 1] /\ a[k] = s[k]
        BY <1>1, <3>2
      <4>2. g[k] = writeEvent(g[k - 1], a[k])
        BY <1>1, <1>2, <4>1, WrittenRunSteps
      <4> HIDE DEF h
      <4> QED  BY <3>2, <4>1, <4>2
    <3> QED  BY <3>1, <3>2
  <2>2. h = [k \in 0 .. Len(s) |-> h[k]]
    OBVIOUS
  <2> HIDE DEF h
  <2> QED  BY <2>1, <2>2 DEF WrittenRun
<1>5. g[Len(s)] = Written(s)
  <2>1. h[Len(s)] = g[Len(s)]
    BY <1>1
  <2> HIDE DEF h
  <2> QED  BY <1>4, <2>1, WrittenIsRun
<1>6. Len(s) + 1 \in 1 .. Len(a) /\ (Len(s) + 1) - 1 = Len(s)
  BY <1>1
<1>7. g[Len(s) + 1] = writeEvent(g[Len(s)], a[Len(s) + 1])
  BY <1>1, <1>2, <1>6, WrittenRunSteps
<1> QED
  BY <1>1, <1>3, <1>5, <1>7 DEF a

ReadOn(events, frame) == events \o mapResponsesEvent(frame)

\* And the reader's, over a sequence of frames.
ReadRun(s, f) ==
    f = [k \in 0 .. Len(s) |-> IF k = 0 THEN <<>> ELSE ReadOn(f[k - 1], s[k])]

LEMMA ReadRunSteps ==
    ASSUME NEW E, NEW s \in Seq(E), NEW f, ReadRun(s, f)
    PROVE  f[0] = <<>> /\ \A k \in 1 .. Len(s) : f[k] = ReadOn(f[k - 1], s[k])
<1>1. Len(s) \in Nat
  OBVIOUS
<1>2. ASSUME NEW k \in 0 .. Len(s) PROVE f[k] = IF k = 0 THEN <<>> ELSE ReadOn(f[k - 1], s[k])
  BY DEF ReadRun
<1> QED
  BY <1>1, <1>2

LEMMA ReadIsRun ==
    ASSUME NEW E, NEW s \in Seq(E), NEW f, ReadRun(s, f)
    PROVE  Read(s) = f[Len(s)]
<1>1. PICK g : g = (CHOOSE h : h = [k \in 0 .. Len(s) |-> IF k = 0 THEN <<>>
                                                        ELSE h[k - 1] \o mapResponsesEvent(s[k])])
  OBVIOUS
<1>2. Read(s) = g[Len(s)]
  BY <1>1 DEF Read
<1>3. ReadRun(s, g)
  BY <1>1, Zenon DEF ReadRun, ReadOn
<1> DEFINE T == {n \in Nat : n <= Len(s) => g[n] = f[n]}
<1>4. 0 \in T
  BY <1>3, ReadRunSteps
<1>5. ASSUME NEW n \in Nat, n \in T PROVE n + 1 \in T
  <2> SUFFICES ASSUME n + 1 <= Len(s) PROVE g[n + 1] = f[n + 1]
    OBVIOUS
  <2>1. n + 1 \in 1 .. Len(s) /\ g[n] = f[n] /\ (n + 1) - 1 = n
    BY <1>5
  <2> QED  BY <1>3, <2>1, ReadRunSteps
<1>6. Nat \subseteq T
  <2> HIDE DEF T
  <2> QED  BY <1>4, <1>5, Induction
<1> QED
  BY <1>2, <1>6

LEMMA ReadRuns ==
    ASSUME NEW E, NEW s \in Seq(E)
    PROVE  \E f : ReadRun(s, f)
<1> DEFINE P == {u \in Seq(E) : \E f : ReadRun(u, f)}
<1>1. <<>> \in P
  <2>1. ReadRun(<<>>, [k \in 0 .. 0 |-> <<>>])
    BY DEF ReadRun
  <2> QED  BY <2>1
<1>2. ASSUME NEW u \in Seq(E), NEW e \in E, u \in P PROVE Append(u, e) \in P
  <2>1. PICK f : ReadRun(u, f)
    BY <1>2
  <2> DEFINE a == Append(u, e)
             g == [k \in 0 .. Len(a) |-> IF k = Len(a) THEN ReadOn(f[Len(u)], e) ELSE f[k]]
  <2>2. a \in Seq(E) /\ Len(a) = Len(u) + 1 /\ a[Len(a)] = e /\ Len(u) \in Nat
        /\ \A k \in 1 .. Len(u) : a[k] = u[k]
    OBVIOUS
  <2> HIDE DEF a
  <2>3. ASSUME NEW k \in 0 .. Len(a)
        PROVE  g[k] = IF k = 0 THEN <<>> ELSE ReadOn(g[k - 1], a[k])
    <3>1. CASE k = 0
      BY <2>1, <2>2, <3>1, ReadRunSteps
    <3>2. CASE k = Len(a)
      <4>1. g[k] = ReadOn(f[Len(u)], e) /\ k - 1 = Len(u) /\ g[k - 1] = f[Len(u)] /\ k # 0
        BY <2>2, <3>2
      <4> QED  BY <2>2, <3>2, <4>1
    <3>3. CASE k \in 1 .. Len(u)
      <4>1. g[k] = f[k] /\ g[k - 1] = f[k - 1] /\ k # 0
        BY <2>2, <3>3
      <4> QED  BY <2>1, <2>2, <3>3, <4>1, ReadRunSteps
    <3> QED  BY <2>2, <3>1, <3>2, <3>3
  <2>4. g = [k \in 0 .. Len(a) |-> g[k]]
    OBVIOUS
  <2>5. ReadRun(a, g)
    <3> HIDE DEF g
    <3> QED  BY <2>3, <2>4 DEF ReadRun
  <2>6. a \in P
    BY <2>2, <2>5
  <2> QED  BY <2>6 DEF a
<1>3. Seq(E) \subseteq P
  <2> HIDE DEF P
  <2> QED  BY <1>1, <1>2, SequenceInduction
<1> QED
  BY <1>3

LEMMA ReadOfNothing == Read(<<>>) = <<>>
<1>1. PICK f : f = [k \in 0 .. 0 |-> <<>>]
  OBVIOUS
<1>2. ReadRun(<<>>, f) /\ <<>> \in Seq({}) /\ Len(<<>>) = 0 /\ f[0] = <<>>
  BY <1>1 DEF ReadRun
<1>3. Read(<<>>) = f[Len(<<>>)]
  BY <1>2, ReadIsRun
<1> QED
  BY <1>2, <1>3

\* One frame more is read.
LEMMA ReadGrows ==
    ASSUME NEW E, NEW s \in Seq(E), NEW e \in E
    PROVE  Read(Append(s, e)) = ReadOn(Read(s), e)
<1> DEFINE a == Append(s, e)
<1>1. a \in Seq(E) /\ Len(a) = Len(s) + 1 /\ a[Len(a)] = e /\ Len(s) \in Nat
      /\ \A k \in 1 .. Len(s) : a[k] = s[k]
  OBVIOUS
<1> HIDE DEF a
<1>2. PICK g : ReadRun(a, g)
  BY <1>1, ReadRuns
<1>3. Read(a) = g[Len(s) + 1]
  BY <1>1, <1>2, ReadIsRun
<1> DEFINE h == [k \in 0 .. Len(s) |-> g[k]]
<1>4. ReadRun(s, h)
  <2>1. ASSUME NEW k \in 0 .. Len(s)
        PROVE  h[k] = IF k = 0 THEN <<>> ELSE ReadOn(h[k - 1], s[k])
    <3>1. CASE k = 0
      BY <1>1, <1>2, <3>1, ReadRunSteps
    <3>2. CASE k # 0
      <4>1. k \in 1 .. Len(a) /\ h[k] = g[k] /\ h[k - 1] = g[k - 1] /\ a[k] = s[k]
        BY <1>1, <3>2
      <4>2. g[k] = ReadOn(g[k - 1], a[k])
        BY <1>1, <1>2, <4>1, ReadRunSteps
      <4> HIDE DEF h
      <4> QED  BY <3>2, <4>1, <4>2
    <3> QED  BY <3>1, <3>2
  <2>2. h = [k \in 0 .. Len(s) |-> h[k]]
    OBVIOUS
  <2> HIDE DEF h
  <2> QED  BY <2>1, <2>2 DEF ReadRun
<1>5. g[Len(s)] = Read(s)
  <2>1. h[Len(s)] = g[Len(s)]
    BY <1>1
  <2> HIDE DEF h
  <2> QED  BY <1>4, <2>1, ReadIsRun
<1>6. Len(s) + 1 \in 1 .. Len(a) /\ (Len(s) + 1) - 1 = Len(s)
  BY <1>1
<1>7. g[Len(s) + 1] = ReadOn(g[Len(s)], a[Len(s) + 1])
  BY <1>1, <1>2, <1>6, ReadRunSteps
<1> QED
  BY <1>1, <1>3, <1>5, <1>7 DEF a

------------------------------------------------------------------------------
(* The events there are. *)

\* The tools a driver or a failure script calls.
Names ==
    {"copilot.chat", "cosmos.getTravellerProfile", "personalise", "destination-advisor",
     "travel-guide.searchByMonth", "wikipedia.summary", "open-meteo.geocoding",
     "open-meteo.climate", "weather-window", "travel-search", "routestack.searchFlights",
     "routestack.flights", "routestack.hotels", "currency.convert", "currency-freshness",
     "budget-estimator", "trip-summariser", "booking-simulator", "booking-approval-check"}

\* The calls and the events there can be, in a script or read off the wire.
Calls == {Call(of, name) : of \in Int \cup {"nobody"}, name \in Names}

Notices == {Decision, DoneEvent, ErrorEvent}

Events ==
    Notices
        \cup {Say(of, n) : of \in Int, n \in Nat}
        \cup {ToolCall(call) : call \in Calls}
        \cup {ToolResult(call, ok) : call \in Calls, ok \in BOOLEAN}

Members(s) == {s[k] : k \in DOMAIN s}

\* What calls, and events, are made of.
LEMMA CallsAre ==
    /\ \A c \in Calls : c = Call(c.of, c.name) /\ c.of \in Int \cup {"nobody"} /\ c.name \in Names
    /\ \A of \in Int \cup {"nobody"}, name \in Names : Call(of, name) \in Calls
  BY DEF Calls, Call

LEMMA EventsAre ==
    ASSUME NEW e \in Events
    PROVE  /\ e.type \in {"decision", "done", "error", "token", "tool_call", "tool_result"}
           /\ e.type = "error" => e = ErrorEvent
           /\ e.type = "done" => e = DoneEvent
           /\ e.type = "tool_call" => e.call \in Calls /\ e = ToolCall(e.call)
           /\ e.type = "tool_result" =>
                 e.call \in Calls /\ e.ok \in BOOLEAN /\ e = ToolResult(e.call, e.ok)
<1>1. CASE e \in Notices
  BY <1>1 DEF Notices, Decision, DoneEvent, ErrorEvent
<1>2. CASE e \in {Say(of, n) : of \in Int, n \in Nat}
  BY <1>2 DEF Say
<1>3. CASE e \in {ToolCall(call) : call \in Calls}
  BY <1>3 DEF ToolCall
<1>4. CASE e \in {ToolResult(call, ok) : call \in Calls, ok \in BOOLEAN}
  BY <1>4 DEF ToolResult
<1> QED
  BY <1>1, <1>2, <1>3, <1>4 DEF Events

LEMMA EventsThereAre ==
    /\ Decision \in Events /\ DoneEvent \in Events /\ ErrorEvent \in Events
    /\ \A of \in Int, n \in Nat : Say(of, n) \in Events
    /\ \A call \in Calls : ToolCall(call) \in Events
    /\ \A call \in Calls, ok \in BOOLEAN : ToolResult(call, ok) \in Events
<1>1. Decision \in Events /\ DoneEvent \in Events /\ ErrorEvent \in Events
  <2>1. Notices \subseteq Events
    BY DEF Events
  <2> QED  BY <2>1 DEF Notices
<1>2. ASSUME NEW of \in Int, NEW n \in Nat PROVE Say(of, n) \in Events
  BY DEF Events
<1>3. ASSUME NEW call \in Calls PROVE ToolCall(call) \in Events
  BY DEF Events
<1>4. ASSUME NEW call \in Calls, NEW ok \in BOOLEAN PROVE ToolResult(call, ok) \in Events
  BY DEF Events
<1> QED
  BY <1>1, <1>2, <1>3, <1>4

\* The type of each event.
LEMMA TypesAre ==
    /\ Decision.type = "decision" /\ DoneEvent.type = "done" /\ ErrorEvent.type = "error"
    /\ \A of, n : Say(of, n).type = "token"
    /\ \A call : ToolCall(call).type = "tool_call" /\ ToolCall(call).call = call
    /\ \A call, ok : /\ ToolResult(call, ok).type = "tool_result"
                     /\ ToolResult(call, ok).call = call /\ ToolResult(call, ok).ok = ok
  BY DEF Decision, DoneEvent, ErrorEvent, Say, ToolCall, ToolResult

LEMMA MembersGrow ==
    ASSUME NEW E, NEW s \in Seq(E), NEW e \in E
    PROVE  Members(Append(s, e)) = Members(s) \cup {e}
<1>1. DOMAIN Append(s, e) = DOMAIN s \cup {Len(s) + 1} /\ Len(s) + 1 \notin DOMAIN s
  OBVIOUS
<1>2. Append(s, e)[Len(s) + 1] = e /\ \A k \in DOMAIN s : Append(s, e)[k] = s[k]
  OBVIOUS
<1> DEFINE a == Append(s, e)
           D == DOMAIN s
<1>3. DOMAIN a = D \cup {Len(s) + 1} /\ a[Len(s) + 1] = e /\ \A k \in D : a[k] = s[k]
  BY <1>1, <1>2
<1> HIDE DEF a
<1> QED
  BY <1>3 DEF Members, a

\* What is spoken are events of the sequence.
LEMMA SpokenIsText ==
    ASSUME NEW E, NEW s \in Seq(E) PROVE Spoken(s) \in Seq(E)
<1> DEFINE P == {u \in Seq(E) : Spoken(u) \in Seq(E)}
<1>1. <<>> \in P
  <2>1. <<>> \in Seq(E)
    OBVIOUS
  <2>2. Spoken(<<>>) \in Seq(E)
    BY <2>1, NothingSpoken, Zenon
  <2> QED  BY <2>1, <2>2
<1>2. ASSUME NEW u \in Seq(E), NEW e \in E, u \in P PROVE Append(u, e) \in P
  <2>1. Append(u, e) \in Seq(E) /\ Spoken(u) \in Seq(E) /\ Append(Spoken(u), e) \in Seq(E)
    BY <1>2
  <2>2. Spoken(Append(u, e)) = IF e.type = "token" THEN Append(Spoken(u), e) ELSE Spoken(u)
    BY SpokenGrows
  <2> QED  BY <2>1, <2>2
<1>3. Seq(E) \subseteq P
  <2> HIDE DEF P
  <2> QED  BY <1>1, <1>2, SequenceInduction
<1> QED
  BY <1>3

\* Beginnings of beginnings, and of longer texts.
LEMMA BeginsItself == ASSUME NEW E, NEW a \in Seq(E) PROVE Begins(a, a)
  BY DEF Begins

LEMMA BeginsLonger ==
    ASSUME NEW E, NEW a \in Seq(E), NEW b \in Seq(E), NEW e \in E, Begins(a, b)
    PROVE  Begins(a, Append(b, e))
<1>1. Len(a) \in Nat /\ Len(b) \in Nat /\ Len(Append(b, e)) = Len(b) + 1 /\ DOMAIN a = 1 .. Len(a)
  OBVIOUS
<1>2. \A k \in 1 .. Len(b) : Append(b, e)[k] = b[k]
  OBVIOUS
<1> QED
  BY <1>1, <1>2 DEF Begins

LEMMA BeginsShorter ==
    ASSUME NEW E, NEW a \in Seq(E), NEW c \in Seq(E), NEW b \in Seq(E), Begins(a \o c, b)
    PROVE  Begins(a, b)
<1>1. /\ Len(a) \in Nat /\ Len(c) \in Nat /\ Len(b) \in Nat /\ Len(a \o c) = Len(a) + Len(c)
      /\ DOMAIN a = 1 .. Len(a) /\ DOMAIN (a \o c) = 1 .. Len(a) + Len(c)
  OBVIOUS
<1>2. \A k \in 1 .. Len(a) : (a \o c)[k] = a[k]
  OBVIOUS
<1>3. Len(a \o c) <= Len(b) /\ \A k \in DOMAIN (a \o c) : (a \o c)[k] = b[k]
  BY DEF Begins
<1>4. \A k \in 1 .. Len(a) : k \in DOMAIN (a \o c)
  BY <1>1
<1>5. \A k \in 1 .. Len(a) : a[k] = b[k]
  BY <1>2, <1>3, <1>4
<1>6. Len(a) <= Len(b)
  BY <1>1, <1>3
<1> QED
  BY <1>1, <1>5, <1>6 DEF Begins

LEMMA BeginsFurther ==
    ASSUME NEW E, NEW a \in Seq(E), NEW b \in Seq(E), NEW c \in Seq(E), Begins(a, b), Begins(b, c)
    PROVE  Begins(a, c)
  BY DEF Begins

------------------------------------------------------------------------------
(* The frames there are, and what is read of each. *)

\* What the writer can write.
Results == {e \in Events : e.type = "tool_result"}

Frames ==
    {Delta(e) : e \in Events}
        \cup {FunctionCall(args, e) : args \in SUBSET Calls, e \in Results}
        \cup {MessageItem, Completed, Failed}

\* The call a finished function call is read as.
ReadCall(args, e) ==
    [(IF args = {} THEN Call("nobody", e.call.name) ELSE CHOOSE c \in args : TRUE)
        EXCEPT !.name = e.call.name]

\* It is a call, and the one that waited alone under its name.
LEMMA ReadCallIsCall ==
    ASSUME NEW args \in SUBSET Calls, NEW e \in Results
    PROVE  /\ ReadCall(args, e) \in Calls
           /\ \A of : args = {Call(of, e.call.name)} => ReadCall(args, e) = Call(of, e.call.name)
<1> DEFINE c == IF args = {} THEN Call("nobody", e.call.name) ELSE CHOOSE c \in args : TRUE
<1>1. e.call \in Calls
  BY EventsAre DEF Results
<1>2. c \in Calls
  BY <1>1, CallsAre
<1>3. \A of : args = {Call(of, e.call.name)} => c = Call(of, e.call.name)
  OBVIOUS
<1>4. ReadCall(args, e) = [c EXCEPT !.name = e.call.name]
  BY DEF ReadCall
<1> HIDE DEF c
<1>5. c = Call(c.of, c.name) /\ c.of \in Int \cup {"nobody"} /\ e.call.name \in Names
  BY <1>1, <1>2, CallsAre
<1>6. [c EXCEPT !.name = e.call.name] = Call(c.of, e.call.name)
  BY <1>5 DEF Call
<1>7. \A of : Call(of, e.call.name).of = of
  BY DEF Call
<1>8. ReadCall(args, e) \in Calls
  BY <1>4, <1>5, <1>6, CallsAre
<1>9. ASSUME NEW of, args = {Call(of, e.call.name)} PROVE ReadCall(args, e) = Call(of, e.call.name)
  BY <1>3, <1>4, <1>6, <1>7, <1>9
<1> QED
  BY <1>8, <1>9

\* What the reader makes of each.
LEMMA DeltaReads ==
    ASSUME NEW e PROVE mapResponsesEvent(Delta(e)) = <<e>>
  BY DEF mapResponsesEvent, Delta

LEMMA CallReads ==
    ASSUME NEW args, NEW e
    PROVE  mapResponsesEvent(FunctionCall(args, e)) =
              <<ToolCall(ReadCall(args, e)), ToolResult(e.call, e.ok)>>
<1> DEFINE f == FunctionCall(args, e)
<1>1. /\ f.type = "response.output_item.done" /\ f.item = "function_call"
      /\ f.name = e.call.name /\ f.arguments = args /\ f.output = e.call /\ f.ok = e.ok
  BY DEF FunctionCall
<1> HIDE DEF f
<1>2. mapResponsesEvent(f) = FunctionCallEvents(f)
  BY <1>1 DEF mapResponsesEvent
<1>3. FunctionCallEvents(f) = <<ToolCall(ReadCall(args, e)), ToolResult(e.call, e.ok)>>
  BY <1>1 DEF FunctionCallEvents, ReadCall, ResultOk
<1> QED
  BY <1>2, <1>3 DEF f

LEMMA OthersRead ==
    /\ mapResponsesEvent(MessageItem) = <<>>
    /\ mapResponsesEvent(Completed) = <<DoneEvent>>
    /\ mapResponsesEvent(Failed) = <<ErrorEvent>>
  BY DEF mapResponsesEvent, MessageItem, Completed, Failed, FunctionCallEvents

\* One more frame adds what is read of it.
LEMMA TextReadOn ==
    ASSUME NEW frames \in Seq(Frames), NEW e \in Events, Read(frames) \in Seq(Events)
    PROVE  Read(Append(frames, Delta(e))) = Append(Read(frames), e)
<1>1. Delta(e) \in Frames
  BY DEF Frames
<1>2. Read(Append(frames, Delta(e))) = Read(frames) \o <<e>>
  BY <1>1, ReadGrows, DeltaReads DEF ReadOn
<1> QED
  BY <1>2

LEMMA CallReadOn ==
    ASSUME NEW frames \in Seq(Frames), NEW args \in SUBSET Calls, NEW e \in Results,
           Read(frames) \in Seq(Events)
    PROVE  Read(Append(frames, FunctionCall(args, e))) =
              Append(Append(Read(frames), ToolCall(ReadCall(args, e))), e)
<1>1. FunctionCall(args, e) \in Frames
  BY DEF Frames
<1>2. e = ToolResult(e.call, e.ok) /\ e \in Events
  BY EventsAre DEF Results
<1>3. Read(Append(frames, FunctionCall(args, e))) = Read(frames) \o <<ToolCall(ReadCall(args, e)), e>>
  BY <1>1, <1>2, ReadGrows, CallReads DEF ReadOn
<1>4. ToolCall(ReadCall(args, e)) \in Events
  BY ReadCallIsCall, EventsThereAre
<1> QED
  BY <1>2, <1>3, <1>4

LEMMA RestReadOn ==
    ASSUME NEW frames \in Seq(Frames), Read(frames) \in Seq(Events)
    PROVE  /\ MessageItem \in Frames /\ Completed \in Frames /\ Failed \in Frames
           /\ Read(Append(frames, MessageItem)) = Read(frames)
           /\ Read(Append(frames, Completed)) = Append(Read(frames), DoneEvent)
           /\ Read(Append(frames, Failed)) = Append(Read(frames), ErrorEvent)
<1>1. MessageItem \in Frames /\ Completed \in Frames /\ Failed \in Frames
  BY DEF Frames
<1>2. /\ Read(Append(frames, MessageItem)) = Read(frames) \o <<>>
      /\ Read(Append(frames, Completed)) = Read(frames) \o <<DoneEvent>>
      /\ Read(Append(frames, Failed)) = Read(frames) \o <<ErrorEvent>>
  BY <1>1, ReadGrows, OthersRead DEF ReadOn
<1> QED
  BY <1>1, <1>2, EventsThereAre

------------------------------------------------------------------------------
(* What the writer has told when it has written any number of events. *)

\* A writer that is fed events.
WriterShape(w) ==
    /\ w = [frames |-> w.frames, pending |-> w.pending, messageOpen |-> w.messageOpen,
            failed |-> w.failed]
    /\ w.frames \in Seq(Frames) /\ Read(w.frames) \in Seq(Events)
    /\ w.pending \subseteq Calls
    /\ w.messageOpen \in BOOLEAN /\ w.failed \in BOOLEAN

\* What is read of a stream, r, has the text of the events s in their order, no result
\* but theirs, and once the writer has failed an error.
Tells(s, r, ended) ==
    /\ Begins(Spoken(r), Spoken(s))
    /\ ~ended => Spoken(r) = Spoken(s)
    /\ Members(r) \cap Results \subseteq Members(s)
    /\ ended => ErrorEvent \in Members(r)

WriterInv(s, w) == WriterShape(w) /\ Tells(s, Read(w.frames), w.failed)

\* A stream with all the text tells the events.
LEMMA TellsAll ==
    ASSUME NEW s \in Seq(Events), NEW r \in Seq(Events), Spoken(r) = Spoken(s),
           Members(r) \cap Results \subseteq Members(s), NEW ended,
           ended => ErrorEvent \in Members(r)
    PROVE  Tells(s, r, ended)
<1>1. Spoken(s) \in Seq(Events)
  BY SpokenIsText
<1> QED
  BY <1>1, BeginsItself DEF Tells

LEMMA WriterStarts == WriterInv(<<>>, NewWriter)
<1>1. WriterShape(NewWriter) /\ NewWriter.frames = <<>> /\ NewWriter.failed = FALSE
  <2>1. Read(<<>>) \in Seq(Events)
    <3>1. <<>> \in Seq(Events)
      OBVIOUS
    <3> QED  BY <3>1, ReadOfNothing, Zenon
  <2> QED  BY <2>1 DEF NewWriter, WriterShape
<1>2. Tells(<<>>, <<>>, FALSE)
  <2>1. <<>> \in Seq(Events) /\ Members(<<>>) = {}
    BY DEF Members
  <2> QED  BY <2>1, TellsAll
<1>3. Read(NewWriter.frames) = <<>>
  BY <1>1, ReadOfNothing, Zenon
<1> QED
  BY <1>1, <1>2, <1>3 DEF WriterInv

LEMMA FramesWritten ==
    ASSUME NEW v, NEW x \in Seq(Frames), NEW pending, NEW open, NEW over,
           Read(x) \in Seq(Events), pending \subseteq Calls, open \in BOOLEAN, over \in BOOLEAN,
           v = [frames |-> x, pending |-> pending, messageOpen |-> open, failed |-> over]
    PROVE  WriterShape(v) /\ v.frames = x /\ v.failed = over
  BY DEF WriterShape

\* What the writer keeps of each event.
LEMMA TextWritten ==
    ASSUME NEW w, WriterShape(w), ~w.failed, NEW e, e.type = "token"
    PROVE  writeEvent(w, e) = [frames |-> Append(w.frames, Delta(e)), pending |-> w.pending,
                               messageOpen |-> TRUE, failed |-> w.failed]
  BY DEF writeEvent, WriterShape

LEMMA CallWritten ==
    ASSUME NEW w, WriterShape(w), ~w.failed, NEW e, e.type = "tool_call"
    PROVE  writeEvent(w, e) =
              [frames |-> w.frames, pending |-> (w.pending \ Named(w.pending, e.call.name)) \cup {e.call},
               messageOpen |-> w.messageOpen, failed |-> w.failed]
  BY DEF writeEvent, WriterShape

LEMMA TwoReplaced ==
    ASSUME NEW w, w = [frames |-> w.frames, pending |-> w.pending, messageOpen |-> w.messageOpen,
                       failed |-> w.failed],
           NEW x, NEW y
    PROVE  [w EXCEPT !.frames = x, !.pending = y] =
              [frames |-> x, pending |-> y, messageOpen |-> w.messageOpen, failed |-> w.failed]
<1> DEFINE a == [w EXCEPT !.frames = x]
<1>1. a = [frames |-> x, pending |-> w.pending, messageOpen |-> w.messageOpen, failed |-> w.failed]
  OBVIOUS
<1>2. [w EXCEPT !.frames = x, !.pending = y] = [a EXCEPT !.pending = y]
  OBVIOUS
<1> HIDE DEF a
<1> QED
  BY <1>1, <1>2

LEMMA ResultWritten ==
    ASSUME NEW w, WriterShape(w), ~w.failed, NEW e, e.type = "tool_result"
    PROVE  writeEvent(w, e) =
              [frames |-> Append(w.frames, FunctionCall(Named(w.pending, e.call.name), e)),
               pending |-> w.pending \ Named(w.pending, e.call.name),
               messageOpen |-> w.messageOpen, failed |-> w.failed]
<1>1. writeEvent(w, e) = pendingArgs(w, e)
  BY DEF writeEvent
<1> DEFINE x == Append(w.frames, FunctionCall(Named(w.pending, e.call.name), e))
           y == w.pending \ Named(w.pending, e.call.name)
<1>2. pendingArgs(w, e) = [w EXCEPT !.frames = x, !.pending = y]
  BY DEF pendingArgs
<1> HIDE DEF x, y
<1>3. [w EXCEPT !.frames = x, !.pending = y]
        = [frames |-> x, pending |-> y, messageOpen |-> w.messageOpen, failed |-> w.failed]
  <2>1. w = [frames |-> w.frames, pending |-> w.pending, messageOpen |-> w.messageOpen,
             failed |-> w.failed]
    BY DEF WriterShape
  <2> QED  BY <2>1, TwoReplaced, Zenon
<1> QED
  BY <1>1, <1>2, <1>3 DEF x, y

LEMMA ErrorWritten ==
    ASSUME NEW w, WriterShape(w), ~w.failed, NEW e, e.type = "error"
    PROVE  writeEvent(w, e) = [frames |-> Append(w.frames, Failed), pending |-> w.pending,
                               messageOpen |-> w.messageOpen, failed |-> TRUE]
  BY DEF writeEvent, WriterShape

LEMMA RestWritten ==
    ASSUME NEW w, NEW e, w.failed \/ e.type \in {"decision", "done"}
    PROVE  writeEvent(w, e) = w
  BY DEF writeEvent

\* Whatever event is written next, the writer still tells them all.
LEMMA WriterStep ==
    ASSUME NEW s \in Seq(Events), NEW e \in Events, NEW w, WriterInv(s, w)
    PROVE  WriterInv(Append(s, e), writeEvent(w, e))
<1> DEFINE r == Read(w.frames)
           a == Append(s, e)
           v == writeEvent(w, e)
<1>1. /\ WriterShape(w) /\ r \in Seq(Events) /\ w.frames \in Seq(Frames)
      /\ Begins(Spoken(r), Spoken(s)) /\ (~w.failed => Spoken(r) = Spoken(s))
      /\ Members(r) \cap Results \subseteq Members(s)
      /\ w.failed => ErrorEvent \in Members(r)
      /\ w.failed \in BOOLEAN /\ w.messageOpen \in BOOLEAN /\ w.pending \subseteq Calls
  BY DEF WriterInv, WriterShape, Tells
<1>2. /\ a \in Seq(Events) /\ Members(a) = Members(s) \cup {e}
      /\ Spoken(a) = IF e.type = "token" THEN Append(Spoken(s), e) ELSE Spoken(s)
      /\ Spoken(s) \in Seq(Events) /\ Spoken(r) \in Seq(Events)
  BY <1>1, MembersGrow, SpokenGrows, SpokenIsText
<1> HIDE DEF a, r
<1>3. CASE w.failed
  <2>1. v = w
    BY <1>3, RestWritten
  <2>2. Begins(Spoken(r), Spoken(a))
    BY <1>1, <1>2, BeginsLonger
  <2>3. Tells(a, r, w.failed)
    BY <1>1, <1>2, <1>3, <2>2 DEF Tells
  <2> QED  BY <1>1, <2>1, <2>3 DEF WriterInv, a, r
<1>4. CASE ~w.failed /\ e.type \in {"decision", "done"}
  <2>1. v = w
    BY <1>4, RestWritten
  <2>2. Spoken(a) = Spoken(s)
    BY <1>2, <1>4
  <2>3. Tells(a, r, w.failed)
    BY <1>1, <1>2, <1>4, <2>2, TellsAll
  <2> QED  BY <1>1, <2>1, <2>3 DEF WriterInv, a, r
<1>5. CASE ~w.failed /\ e.type = "tool_call"
  <2>1. v = [frames |-> w.frames, pending |-> (w.pending \ Named(w.pending, e.call.name)) \cup {e.call},
             messageOpen |-> w.messageOpen, failed |-> w.failed]
    BY <1>1, <1>5, CallWritten
  <2>2. e.call \in Calls
    BY <1>5, EventsAre
  <2>3. v.frames = w.frames /\ v.failed = w.failed /\ WriterShape(v)
    BY <1>1, <2>1, <2>2 DEF WriterShape, Named, r
  <2>4. Spoken(a) = Spoken(s)
    BY <1>2, <1>5
  <2>5. Tells(a, r, w.failed)
    BY <1>1, <1>2, <1>5, <2>4, TellsAll
  <2> QED  BY <2>3, <2>5 DEF WriterInv, a, r
<1>6. CASE ~w.failed /\ e.type = "token"
  <2> DEFINE q == Append(r, e)
  <2>1. /\ q \in Seq(Events) /\ Members(q) = Members(r) \cup {e}
        /\ Spoken(q) = Append(Spoken(r), e)
    BY <1>1, <1>6, MembersGrow, SpokenGrows
  <2>2. Read(Append(w.frames, Delta(e))) = q /\ Delta(e) \in Frames
    BY <1>1, TextReadOn DEF r, Frames
  <2>3. e \notin Results
    BY <1>6 DEF Results
  <2> HIDE DEF q
  <2>4. WriterShape(v) /\ Read(v.frames) = q /\ v.failed = w.failed
    <3>1. v = [frames |-> Append(w.frames, Delta(e)), pending |-> w.pending, messageOpen |-> TRUE,
               failed |-> w.failed]
      BY <1>1, <1>6, TextWritten
    <3> HIDE DEF v
    <3>2. Append(w.frames, Delta(e)) \in Seq(Frames)
      BY <1>1, <2>2
    <3>3. w.failed = FALSE
      BY <1>1, <1>6
    <3>4. v = [frames |-> Append(w.frames, Delta(e)), pending |-> w.pending, messageOpen |-> TRUE,
               failed |-> FALSE]
      BY <3>1, <3>3
    <3>5. WriterShape(v) /\ v.frames = Append(w.frames, Delta(e)) /\ v.failed = FALSE
      BY <1>1, <2>1, <2>2, <3>2, <3>4, FramesWritten
    <3> QED  BY <2>2, <3>3, <3>5
  <2>5. Spoken(a) = Spoken(q)
    BY <1>1, <1>2, <1>6, <2>1
  <2>6. Tells(a, q, w.failed)
    BY <1>1, <1>2, <1>6, <2>1, <2>3, <2>5, TellsAll
  <2> QED  BY <2>4, <2>6 DEF WriterInv, a
<1>7. CASE ~w.failed /\ e.type = "tool_result"
  <2> DEFINE args == Named(w.pending, e.call.name)
             c == ToolCall(ReadCall(args, e))
             p == Append(r, c)
             q == Append(p, e)
  <2>1. args \in SUBSET Calls /\ e \in Results
    BY <1>1, <1>7 DEF Named, Results
  <2>2. c \in Events /\ c \notin Results /\ c.type = "tool_call"
    BY <2>1, ReadCallIsCall, EventsThereAre, TypesAre DEF Results
  <2> HIDE DEF args
  <2>3. Read(Append(w.frames, FunctionCall(args, e))) = q /\ FunctionCall(args, e) \in Frames
    <3>1. FunctionCall(args, e) \in Frames
      BY <2>1 DEF Frames
    <3> QED  BY <1>1, <2>1, <3>1, CallReadOn DEF r
  <2> HIDE DEF c
  <2>4. p \in Seq(Events) /\ Members(p) = Members(r) \cup {c} /\ Spoken(p) = Spoken(r)
    BY <1>1, <2>2, MembersGrow, SpokenGrows
  <2> HIDE DEF p
  <2>5. q \in Seq(Events) /\ Members(q) = Members(p) \cup {e} /\ Spoken(q) = Spoken(p)
    BY <1>7, <2>4, MembersGrow, SpokenGrows
  <2> HIDE DEF q
  <2>6. WriterShape(v) /\ Read(v.frames) = q /\ v.failed = w.failed
    <3>1. v = [frames |-> Append(w.frames, FunctionCall(args, e)), pending |-> w.pending \ args,
               messageOpen |-> w.messageOpen, failed |-> w.failed]
      BY <1>1, <1>7, ResultWritten DEF args
    <3>2. w.pending \ args \subseteq Calls
      BY <1>1
    <3> HIDE DEF v
    <3>3. Append(w.frames, FunctionCall(args, e)) \in Seq(Frames)
      BY <1>1, <2>3
    <3>4. w.failed = FALSE
      BY <1>1, <1>7
    <3>5. v = [frames |-> Append(w.frames, FunctionCall(args, e)), pending |-> w.pending \ args,
               messageOpen |-> w.messageOpen, failed |-> FALSE]
      BY <3>1, <3>4
    <3>6. WriterShape(v) /\ v.frames = Append(w.frames, FunctionCall(args, e)) /\ v.failed = FALSE
      <4> DEFINE x == Append(w.frames, FunctionCall(args, e))
                 p2 == w.pending \ args
      <4>1. x \in Seq(Frames) /\ Read(x) \in Seq(Events) /\ p2 \subseteq Calls
        BY <2>3, <2>5, <3>2, <3>3
      <4>2. v = [frames |-> x, pending |-> p2, messageOpen |-> w.messageOpen, failed |-> FALSE]
        BY <3>5
      <4> HIDE DEF x, p2
      <4>3. WriterShape(v) /\ v.frames = x /\ v.failed = FALSE
        BY <1>1, <4>1, <4>2, FramesWritten
      <4> QED  BY <4>3 DEF x
    <3> QED  BY <2>3, <3>4, <3>6
  <2>7. Spoken(a) = Spoken(q)
    BY <1>1, <1>2, <1>7, <2>4, <2>5
  <2>8. Tells(a, q, w.failed)
    BY <1>1, <1>2, <1>7, <2>2, <2>4, <2>5, <2>7, TellsAll
  <2> QED  BY <2>6, <2>8 DEF WriterInv, a
<1>8. CASE ~w.failed /\ e.type = "error"
  <2> DEFINE q == Append(r, ErrorEvent)
  <2>1. ErrorEvent \in Events /\ ErrorEvent.type = "error" /\ ErrorEvent \notin Results
    BY EventsThereAre, TypesAre DEF Results
  <2>2. /\ q \in Seq(Events) /\ Members(q) = Members(r) \cup {ErrorEvent}
        /\ Spoken(q) = Spoken(r)
    BY <1>1, <2>1, MembersGrow, SpokenGrows
  <2>3. Read(Append(w.frames, Failed)) = q /\ Failed \in Frames
    BY <1>1, RestReadOn DEF r
  <2> HIDE DEF q
  <2>4. WriterShape(v) /\ Read(v.frames) = q /\ v.failed = TRUE
    <3>1. v = [frames |-> Append(w.frames, Failed), pending |-> w.pending,
               messageOpen |-> w.messageOpen, failed |-> TRUE]
      BY <1>1, <1>8, ErrorWritten
    <3> HIDE DEF v
    <3>2. Append(w.frames, Failed) \in Seq(Frames)
      BY <1>1, <2>3
    <3>3. WriterShape(v) /\ v.frames = Append(w.frames, Failed) /\ v.failed = TRUE
      BY <1>1, <2>2, <2>3, <3>1, <3>2, FramesWritten
    <3> QED  BY <2>3, <3>3
  <2>5. Spoken(a) = Spoken(q)
    BY <1>1, <1>2, <1>8, <2>2
  <2>6. Tells(a, q, TRUE)
    BY <1>1, <1>2, <2>1, <2>2, <2>5, TellsAll
  <2> QED  BY <2>4, <2>6 DEF WriterInv, a
<1> QED
  BY <1>3, <1>4, <1>5, <1>6, <1>7, <1>8, EventsAre

\* So of any events the writer tells what there is to be told.
LEMMA WriterKeeps == ASSUME NEW s \in Seq(Events) PROVE WriterInv(s, Written(s))
<1> DEFINE P == {u \in Seq(Events) : WriterInv(u, Written(u))}
<1>1. <<>> \in P
  <2>1. <<>> \in Seq(Events)
    OBVIOUS
  <2>2. WriterInv(<<>>, Written(<<>>))
    BY WriterStarts, WrittenOfNothing, Zenon
  <2> QED  BY <2>1, <2>2
<1>2. ASSUME NEW u \in Seq(Events), NEW e \in Events, u \in P PROVE Append(u, e) \in P
  <2>1. Append(u, e) \in Seq(Events) /\ WriterInv(u, Written(u))
    BY <1>2
  <2>2. Written(Append(u, e)) = writeEvent(Written(u), e)
    BY WrittenGrows
  <2>3. WriterInv(Append(u, e), writeEvent(Written(u), e))
    BY <2>1, WriterStep
  <2> QED  BY <2>1, <2>2, <2>3, Zenon
<1>3. Seq(Events) \subseteq P
  <2> HIDE DEF P
  <2> QED  BY <1>1, <1>2, SequenceInduction
<1> QED
  BY <1>3

------------------------------------------------------------------------------
(* Whole streams, and streams that break off. *)

Verdicts == {DoneEvent, ErrorEvent}

\* Anything read of what a writer wrote of a whole turn has a verdict.
LEMMA StreamTells ==
    ASSUME NEW s \in Seq(Events)
    PROVE  LET r == Read(streamResponses(s))
           IN  /\ r \in Seq(Events) /\ Begins(Spoken(r), Spoken(s))
               /\ Members(r) \cap Results \subseteq Members(s)
               /\ Members(r) \cap Verdicts # {}
               /\ Members(r) \subseteq Members(Read(BrokenOff(s))) \cup Verdicts
<1> DEFINE w == Written(s)
           f == w.frames
           r == Read(f)
<1>1. /\ f \in Seq(Frames) /\ r \in Seq(Events) /\ w.messageOpen \in BOOLEAN /\ w.failed \in BOOLEAN
      /\ Begins(Spoken(r), Spoken(s))
      /\ Members(r) \cap Results \subseteq Members(s)
      /\ w.failed => ErrorEvent \in Members(r)
  BY WriterKeeps DEF WriterInv, WriterShape, Tells
<1>2. CASE w.failed
  <2>1. streamResponses(s) = f /\ BrokenOff(s) = f
    BY <1>2 DEF streamResponses, BrokenOff
  <2> HIDE DEF f
  <2> QED  BY <1>1, <1>2, <2>1 DEF Verdicts
<1>3. CASE ~w.failed
  <2> DEFINE g == IF w.messageOpen THEN Append(f, MessageItem) ELSE f
             h == Append(g, Completed)
             q == Append(r, DoneEvent)
  <2>1. streamResponses(s) = (f \o (IF w.messageOpen THEN <<MessageItem>> ELSE <<>>)) \o <<Completed>>
    BY <1>3 DEF streamResponses
  <2>2. BrokenOff(s) = f
    BY DEF BrokenOff
  <2> HIDE DEF w
  <2>3. MessageItem \in Frames /\ Completed \in Frames /\ g \in Seq(Frames) /\ Read(g) = r
    BY <1>1, RestReadOn
  <2>4. f \o (IF w.messageOpen THEN <<MessageItem>> ELSE <<>>) = g
    <3> HIDE DEF f
    <3>1. f \o <<MessageItem>> = Append(f, MessageItem) /\ f \o <<>> = f
      BY <1>1, <2>3, AppendIsConcat
    <3> QED  BY <1>1, <3>1
  <2> HIDE DEF g
  <2>5. streamResponses(s) = h
    <3>1. g \o <<Completed>> = Append(g, Completed)
      BY <2>3, AppendIsConcat
    <3> QED  BY <2>1, <2>4, <3>1
  <2>6. Read(h) = q
    BY <1>1, <2>3, RestReadOn
  <2>7. DoneEvent \in Events /\ DoneEvent.type = "done" /\ DoneEvent \notin Results
    BY EventsThereAre, TypesAre DEF Results
  <2> HIDE DEF f, r
  <2>8. q \in Seq(Events) /\ Members(q) = Members(r) \cup {DoneEvent} /\ Spoken(q) = Spoken(r)
    BY <1>1, <2>7, MembersGrow, SpokenGrows
  <2> HIDE DEF h, q
  <2>9. Members(q) \cap Verdicts # {} /\ Members(q) \cap Results \subseteq Members(s)
    BY <1>1, <2>7, <2>8 DEF Verdicts
  <2> QED  BY <1>1, <2>5, <2>6, <2>8, <2>9, <2>2 DEF r, Verdicts
<1> QED
  BY <1>1, <1>2, <1>3

\* What is read of a turn that threw: no verdict, but nothing made up.
LEMMA BrokenOffTells ==
    ASSUME NEW p \in Seq(Events)
    PROVE  LET r == Read(BrokenOff(p))
           IN  /\ r \in Seq(Events) /\ Begins(Spoken(r), Spoken(p))
               /\ Members(r) \cap Results \subseteq Members(p)
  BY WriterKeeps DEF WriterInv, WriterShape, Tells, BrokenOff

\* The beginning of a script.
LEMMA BeginningTells ==
    ASSUME NEW s \in Seq(Events), NEW n \in 0 .. Len(s)
    PROVE  LET p == SubSeq(s, 1, n)
           IN  p \in Seq(Events) /\ Begins(Spoken(p), Spoken(s)) /\ Members(p) \subseteq Members(s)
<1> DEFINE P == {u \in Seq(Events) : \A k \in 0 .. Len(u) : Begins(Spoken(SubSeq(u, 1, k)), Spoken(u))}
<1>1. <<>> \in P
  <2>1. <<>> \in Seq(Events) /\ Len(<<>>) = 0 /\ SubSeq(<<>>, 1, 0) = <<>>
    OBVIOUS
  <2>2. Begins(Spoken(<<>>), Spoken(<<>>))
    BY <2>1, SpokenIsText, BeginsItself
  <2>3. ASSUME NEW k \in 0 .. Len(<<>>) PROVE Begins(Spoken(SubSeq(<<>>, 1, k)), Spoken(<<>>))
    <3>1. k = 0
      BY <2>1
    <3> QED  BY <2>1, <2>2, <3>1, Zenon
  <2> QED  BY <2>1, <2>3
<1>2. ASSUME NEW u \in Seq(Events), NEW e \in Events, u \in P PROVE Append(u, e) \in P
  <2> DEFINE a == Append(u, e)
  <2>1. a \in Seq(Events) /\ Len(a) = Len(u) + 1 /\ Len(u) \in Nat
    OBVIOUS
  <2>2. Spoken(a) = IF e.type = "token" THEN Append(Spoken(u), e) ELSE Spoken(u)
    BY SpokenGrows
  <2>3. Spoken(u) \in Seq(Events) /\ Spoken(a) \in Seq(Events)
    BY <2>1, SpokenIsText
  <2>4. ASSUME NEW k \in 0 .. Len(a) PROVE Begins(Spoken(SubSeq(a, 1, k)), Spoken(a))
    <3>1. CASE k = Len(a)
      <4>1. SubSeq(a, 1, k) = a
        BY <2>1, <3>1
      <4> QED  BY <2>3, <4>1, BeginsItself
    <3>2. CASE k \in 0 .. Len(u)
      <4>1. SubSeq(a, 1, k) = SubSeq(u, 1, k) /\ SubSeq(u, 1, k) \in Seq(Events)
        BY <2>1, <3>2
      <4>2. Begins(Spoken(SubSeq(u, 1, k)), Spoken(u)) /\ Spoken(SubSeq(u, 1, k)) \in Seq(Events)
        BY <1>2, <3>2, <4>1, SpokenIsText
      <4>3. Begins(Spoken(SubSeq(u, 1, k)), Spoken(a))
        BY <2>2, <2>3, <4>2, BeginsLonger
      <4> QED  BY <4>1, <4>3
    <3> QED  BY <2>1, <3>1, <3>2
  <2> HIDE DEF a
  <2>5. a \in P
    BY <2>1, <2>4
  <2> QED  BY <2>5 DEF a
<1>3. Seq(Events) \subseteq P
  <2> HIDE DEF P
  <2> QED  BY <1>1, <1>2, SequenceInduction
<1>4. Begins(Spoken(SubSeq(s, 1, n)), Spoken(s))
  BY <1>3
<1>5. /\ SubSeq(s, 1, n) \in Seq(Events) /\ DOMAIN SubSeq(s, 1, n) = 1 .. n
      /\ \A k \in 1 .. n : SubSeq(s, 1, n)[k] = s[k] /\ k \in DOMAIN s
  OBVIOUS
<1>6. Members(SubSeq(s, 1, n)) \subseteq Members(s)
  BY <1>5 DEF Members
<1> QED
  BY <1>4, <1>5, <1>6

\* What is said of a stream is what its first event says and then the rest.
LEMMA SpokenFirst ==
    ASSUME NEW E, NEW s \in Seq(E), s # <<>>
    PROVE  Spoken(s) = (IF Head(s).type = "token" THEN <<Head(s)>> ELSE <<>>) \o Spoken(Tail(s))
<1> DEFINE First(u) == IF Head(u).type = "token" THEN <<Head(u)>> ELSE <<>>
           P == {u \in Seq(E) : u # <<>> => Spoken(u) = First(u) \o Spoken(Tail(u))}
<1>1. <<>> \in P
  OBVIOUS
<1>2. ASSUME NEW u \in Seq(E), NEW e \in E, u \in P PROVE Append(u, e) \in P
  <2> DEFINE a == Append(u, e)
  <2>1. a \in Seq(E)
    OBVIOUS
  <2>2. Spoken(a) = IF e.type = "token" THEN Append(Spoken(u), e) ELSE Spoken(u)
    BY SpokenGrows
  <2>3. CASE u = <<>>
    <3>1. Head(a) = e /\ Tail(a) = <<>>
      BY <2>3
    <3>2. Spoken(u) = <<>>
      BY <2>3, NothingSpoken, Zenon
    <3>3. Spoken(Tail(a)) = <<>>
      BY <3>1, NothingSpoken, Zenon
    <3>4. Spoken(a) = First(a)
      <4> HIDE DEF a
      <4> QED  BY <2>2, <3>1, <3>2
    <3>5. First(a) \in Seq(E)
      BY <3>1
    <3>6. First(a) \o <<>> = First(a)
      BY <3>5
    <3>7. a \in P
      <4> HIDE DEF a
      <4> QED  BY <2>1, <3>3, <3>4, <3>6
    <3> QED  BY <3>7 DEF a
  <2>4. CASE u # <<>>
    <3>1. Head(a) = Head(u) /\ Tail(a) = Append(Tail(u), e) /\ Tail(u) \in Seq(E) /\ Head(u) \in E
      BY <2>4
    <3>2. Spoken(Tail(a)) = IF e.type = "token" THEN Append(Spoken(Tail(u)), e) ELSE Spoken(Tail(u))
      BY <3>1, SpokenGrows
    <3>3. First(a) = First(u) /\ First(u) \in Seq(E)
      BY <3>1
    <3>4. Spoken(u) = First(u) \o Spoken(Tail(u)) /\ Spoken(Tail(u)) \in Seq(E)
      BY <1>2, <2>4, <3>1, SpokenIsText
    <3> DEFINE x == First(u)
               y == Spoken(Tail(u))
    <3> HIDE DEF x, y
    <3>5. x \in Seq(E) /\ y \in Seq(E)
      BY <3>3, <3>4 DEF x, y
    <3>6. Append(x \o y, e) = x \o Append(y, e)
      <4>1. x \o y \in Seq(E) /\ <<e>> \in Seq(E)
        BY <3>5
      <4>2. Append(x \o y, e) = (x \o y) \o <<e>> /\ Append(y, e) = y \o <<e>>
        BY <3>5, <4>1, AppendIsConcat
      <4>3. (x \o y) \o <<e>> = x \o (y \o <<e>>)
        BY <3>5, <4>1, ConcatAssociative
      <4> QED  BY <4>2, <4>3
    <3>7. Spoken(a) = First(a) \o Spoken(Tail(a))
      <4>1. Spoken(u) = x \o y /\ First(a) = x
            /\ Spoken(Tail(a)) = IF e.type = "token" THEN Append(y, e) ELSE y
        BY <3>2, <3>3, <3>4 DEF x, y
      <4> HIDE DEF a
      <4> QED  BY <2>2, <3>6, <4>1
    <3>8. a \in P
      <4> HIDE DEF a
      <4> QED  BY <2>1, <3>7
    <3> QED  BY <3>8 DEF a
  <2> QED  BY <2>3, <2>4
<1>3. Seq(E) \subseteq P
  <2> HIDE DEF P
  <2> QED  BY <1>1, <1>2, SequenceInduction
<1> QED
  BY <1>3

------------------------------------------------------------------------------
(* The scripts: a turn's own calls, and a verdict at the end. *)

\* The events of a turn's own calls: with a name they are told apart by nothing.
OwnEvents(t) == {e \in Events : e.type \in {"tool_call", "tool_result"} => e.call.of = t}

\* A script of the turn's own calls that ends in a verdict.
Complete(t, s) == s \in Seq(OwnEvents(t)) /\ s # <<>> /\ s[Len(s)] \in Verdicts

LEMMA OwnIsEvent ==
    ASSUME NEW t, NEW s \in Seq(OwnEvents(t))
    PROVE  s \in Seq(Events) /\ \A e \in Members(s) : e \in OwnEvents(t)
  BY DEF OwnEvents, Members

\* An own call is told by its name.
LEMMA OwnCall ==
    ASSUME NEW t, NEW e \in OwnEvents(t), e.type \in {"tool_call", "tool_result"}
    PROVE  e.call = Call(t, e.call.name) /\ e.call \in Calls
  BY EventsAre, CallsAre DEF OwnEvents

LEMMA OwnEventsThereAre ==
    ASSUME NEW t \in Int
    PROVE  /\ Decision \in OwnEvents(t) /\ DoneEvent \in OwnEvents(t) /\ ErrorEvent \in OwnEvents(t)
           /\ \A n \in Nat : Say(t, n) \in OwnEvents(t)
           /\ \A name \in Names : ToolCall(Call(t, name)) \in OwnEvents(t)
           /\ \A name \in Names, ok \in BOOLEAN : ToolResult(Call(t, name), ok) \in OwnEvents(t)
<1>1. \A name \in Names : Call(t, name) \in Calls /\ Call(t, name).of = t
  BY CallsAre DEF Call
<1> QED
  BY <1>1, EventsThereAre, TypesAre DEF OwnEvents

LEMMA CompleteHasVerdict ==
    ASSUME NEW t, NEW s, Complete(t, s)
    PROVE  s \in Seq(Events) /\ Members(s) \cap Verdicts # {}
<1>1. s \in Seq(Events) /\ Len(s) \in DOMAIN s
  BY OwnIsEvent DEF Complete
<1> QED
  BY <1>1 DEF Complete, Members

\* A beginning does not change how a script ends.
LEMMA Completes ==
    ASSUME NEW t, NEW u \in Seq(OwnEvents(t)), NEW v, Complete(t, v)
    PROVE  Complete(t, u \o v)
<1> DEFINE E == OwnEvents(t)
<1> HIDE DEF E
<1>1. u \in Seq(E) /\ v \in Seq(E) /\ v # <<>>
  BY DEF Complete, E
<1>2. /\ u \o v \in Seq(E) /\ Len(u \o v) = Len(u) + Len(v) /\ Len(v) \in Nat \ {0}
      /\ Len(u) \in Nat /\ (u \o v)[Len(u) + Len(v)] = v[Len(v)]
  BY <1>1
<1>3. u \o v # <<>>
  BY <1>1, <1>2
<1> QED
  BY <1>2, <1>3 DEF Complete, E

LEMMA ShortTexts ==
    ASSUME NEW E, NEW a \in E, NEW b \in E
    PROVE  /\ <<a>> \in Seq(E) /\ <<a>> # <<>> /\ <<a>>[Len(<<a>>)] = a
           /\ <<a, b>> \in Seq(E) /\ <<a, b>> # <<>> /\ <<a, b>>[Len(<<a, b>>)] = b
  OBVIOUS

LEMMA VerdictsComplete ==
    ASSUME NEW t \in Int
    PROVE  /\ Complete(t, <<DoneEvent>>) /\ Complete(t, <<ErrorEvent>>)
           /\ \A e \in OwnEvents(t) : Complete(t, <<e, DoneEvent>>) /\ Complete(t, <<e, ErrorEvent>>)
<1>1. DoneEvent \in OwnEvents(t) /\ ErrorEvent \in OwnEvents(t)
  BY OwnEventsThereAre
<1>2. DoneEvent \in Verdicts /\ ErrorEvent \in Verdicts
  BY DEF Verdicts
<1>3. ASSUME NEW v \in Verdicts, v \in OwnEvents(t), NEW e \in OwnEvents(t)
      PROVE  Complete(t, <<v>>) /\ Complete(t, <<e, v>>)
  BY <1>3, ShortTexts DEF Complete
<1> QED
  BY <1>1, <1>2, <1>3

\* The parts the scripts are made of.
LEMMA ToolIsOwn ==
    ASSUME NEW t \in Int, NEW name \in Names, NEW ok \in BOOLEAN
    PROVE  Tool(t, name, ok) \in Seq(OwnEvents(t))
<1>1. ToolCall(Call(t, name)) \in OwnEvents(t) /\ ToolResult(Call(t, name), ok) \in OwnEvents(t)
  BY OwnEventsThereAre
<1> QED
  BY <1>1, ShortTexts DEF Tool

LEMMA ReplyIsOwn == ASSUME NEW t \in Int PROVE Reply(t) \in Seq(OwnEvents(t))
<1>1. Say(t, 1) \in OwnEvents(t) /\ Say(t, 2) \in OwnEvents(t)
  BY OwnEventsThereAre
<1> QED
  BY <1>1, ShortTexts DEF Reply

\* Tools asked one after the other.
LEMMA AskedIsOwn ==
    ASSUME NEW t \in Int, NEW names \in Seq(Names)
    PROVE  Asked(t, names) \in Seq(OwnEvents(t))
<1> DEFINE n == Len(names)
           E == OwnEvents(t)
<1>1. n \in Nat /\ \A k \in 1 .. n : names[k] \in Names
  OBVIOUS
<1>2. ASSUME NEW k \in 1 .. 2 * n PROVE Asked(t, names)[k] \in E
  <2>1. (k + 1) \div 2 \in 1 .. n
    BY <1>1
  <2>2. names[(k + 1) \div 2] \in Names
    BY <1>1, <2>1
  <2> DEFINE name == names[(k + 1) \div 2]
  <2>3. Asked(t, names)[k] = IF k % 2 = 1 THEN ToolCall(Call(t, name)) ELSE ToolResult(Call(t, name), TRUE)
    BY DEF Asked
  <2> HIDE DEF name
  <2> QED  BY <2>2, <2>3, OwnEventsThereAre DEF name
<1> DEFINE a == Asked(t, names)
<1>3. a = [k \in 1 .. 2 * n |-> a[k]]
  BY DEF Asked
<1>4. 2 * n \in Nat
  BY <1>1
<1> HIDE DEF a, n, E
<1>5. a \in Seq(E)
  BY <1>2, <1>3, <1>4 DEF a
<1> QED
  BY <1>5 DEF a, E

\* Whatever the turn does inside the model's own call.
LEMMA TurnCompletes ==
    ASSUME NEW t \in Int, NEW inside \in Seq(OwnEvents(t))
    PROVE  Complete(t, Turn(t, inside))
<1> DEFINE own == Call(t, "copilot.chat")
           u == <<Decision, ToolCall(own)>>
           v == <<ToolResult(own, TRUE), DoneEvent>>
           E == OwnEvents(t)
<1>1. u \in Seq(E) /\ Complete(t, v)
  <2>1. Decision \in E /\ ToolCall(own) \in E /\ ToolResult(own, TRUE) \in E
    <3>1. "copilot.chat" \in Names /\ TRUE \in BOOLEAN
      BY DEF Names
    <3> QED  BY <3>1, OwnEventsThereAre, Zenon
  <2> HIDE DEF E, own
  <2> QED  BY <2>1, ShortTexts, VerdictsComplete DEF E
<1>2. Turn(t, inside) = (u \o inside) \o v
  BY DEF Turn
<1> HIDE DEF u, v, E
<1>3. u \o inside \in Seq(E)
  BY <1>1 DEF E
<1> QED
  BY <1>1, <1>2, <1>3, Completes DEF E

LEMMA GroundedCompletes ==
    ASSUME NEW t \in Int, NEW names \in Seq(Names)
    PROVE  Complete(t, Grounded(t, names))
<1>1. Asked(t, names) \in Seq(OwnEvents(t)) /\ Reply(t) \in Seq(OwnEvents(t))
  BY AskedIsOwn, ReplyIsOwn
<1> DEFINE E == OwnEvents(t)
<1> HIDE DEF E
<1>2. Asked(t, names) \o Reply(t) \in Seq(E)
  BY <1>1 DEF E
<1> QED
  BY <1>2, TurnCompletes DEF Grounded, E

\* A part of a script.
Own(t, s) == s \in Seq(OwnEvents(t))

LEMMA OwnConcat == ASSUME NEW t, NEW u, NEW v, Own(t, u), Own(t, v) PROVE Own(t, u \o v)
<1> DEFINE E == OwnEvents(t)
<1> HIDE DEF E
<1>1. u \in Seq(E) /\ v \in Seq(E)
  BY DEF Own, E
<1>2. u \o v \in Seq(E)
  BY <1>1
<1> QED
  BY <1>2 DEF Own, E

\* What the scripts are put together from.
LEMMA PartsAreOwn ==
    ASSUME NEW t \in Int
    PROVE  /\ Own(t, <<Decision>>) /\ Own(t, Reply(t)) /\ Own(t, <<ErrorEvent>>)
           /\ \A name \in Names : Own(t, <<Decision, ToolCall(Call(t, name))>>)
           /\ \A name \in Names, ok \in BOOLEAN : Own(t, Tool(t, name, ok))
<1>1. Decision \in OwnEvents(t) /\ ErrorEvent \in OwnEvents(t)
  BY OwnEventsThereAre
<1>2. ASSUME NEW name \in Names PROVE Own(t, <<Decision, ToolCall(Call(t, name))>>)
  <2>1. ToolCall(Call(t, name)) \in OwnEvents(t)
    BY OwnEventsThereAre
  <2> QED  BY <1>1, <2>1, ShortTexts DEF Own
<1>3. Own(t, <<Decision>>) /\ Own(t, <<ErrorEvent>>)
  BY <1>1, ShortTexts DEF Own
<1> QED
  BY <1>2, <1>3, ToolIsOwn, ReplyIsOwn DEF Own

LEMMA OwnCompletes == ASSUME NEW t, NEW u, NEW v, Own(t, u), Complete(t, v) PROVE Complete(t, u \o v)
  BY Completes DEF Own

\* Every failure script.
LEMMA FaultsComplete ==
    ASSUME NEW t \in Int, NEW s \in runFault(t) PROVE Complete(t, s)
<1>1. {"booking-approval-check", "booking-simulator", "budget-estimator",
      "copilot.chat", "cosmos.getTravellerProfile", "currency-freshness",
      "currency.convert", "destination-advisor", "open-meteo.geocoding",
      "personalise", "routestack.flights", "routestack.searchFlights",
      "travel-guide.searchByMonth", "trip-summariser"} \subseteq Names
  BY DEF Names
<1>2. /\ Complete(t, agentUnavailable(t))
      /\ Complete(t, timeout(t))
      /\ Complete(t, midStreamError(t))
      /\ Complete(t, slowReply(t))
      /\ Complete(t, sampleMarkdown(t))
  BY OwnEventsThereAre, PartsAreOwn, OwnConcat, OwnCompletes, VerdictsComplete
  DEF agentUnavailable, timeout, midStreamError, slowReply, sampleMarkdown
<1>3. /\ Complete(t, destinationAdvisorError(t))
      /\ Complete(t, weatherMcpError(t))
      /\ Complete(t, routestackError(t))
      /\ Complete(t, routestackQuota(t))
      /\ Complete(t, bookingError(t))
  BY <1>1, PartsAreOwn, OwnConcat, OwnCompletes, VerdictsComplete
  DEF destinationAdvisorError, weatherMcpError, routestackError, routestackQuota, bookingError, Fatal
<1>4. /\ Complete(t, sampleTools(t))
      /\ Complete(t, bookingNoApproval(t))
  BY <1>1, PartsAreOwn, OwnConcat, OwnCompletes, VerdictsComplete
  DEF sampleTools, bookingNoApproval
<1>5. Complete(t, bookingApproved(t))
  BY <1>1, PartsAreOwn, OwnConcat, OwnCompletes, VerdictsComplete
  DEF bookingApproved
<1>6. Complete(t, staleCurrency(t))
  BY <1>1, PartsAreOwn, OwnConcat, OwnCompletes, VerdictsComplete
  DEF staleCurrency
<1>7. Complete(t, cosmosError(t))
  BY <1>1, PartsAreOwn, OwnConcat, OwnCompletes, VerdictsComplete
  DEF cosmosError
<1>8. Complete(t, cosmosNoHistory(t))
  BY <1>1, PartsAreOwn, OwnConcat, OwnCompletes, VerdictsComplete
  DEF cosmosNoHistory
<1>9. Complete(t, travelGuideNoMatch(t))
  BY <1>1, PartsAreOwn, OwnConcat, OwnCompletes, VerdictsComplete
  DEF travelGuideNoMatch
<1>10. Complete(t, currencyError(t))
  BY <1>1, PartsAreOwn, OwnConcat, OwnCompletes, VerdictsComplete
  DEF currencyError
<1>11. ASSUME NEW profile \in BOOLEAN PROVE Complete(t, runSummaryFault(t, profile))
  <2> DEFINE start == <<Decision, ToolCall(Call(t, "copilot.chat"))>>
             found == IF profile THEN Tool(t, "cosmos.getTravellerProfile", TRUE) ELSE <<>>
             end == <<ToolResult(Call(t, "copilot.chat"), TRUE), DoneEvent>>
  <2>1. Own(t, found)
    <3>1. Own(t, <<>>)
      BY DEF Own
    <3> QED  BY <1>1, <3>1, PartsAreOwn
  <2>2. Own(t, start) /\ Complete(t, end)
    BY <1>1, PartsAreOwn, OwnEventsThereAre, VerdictsComplete
  <2>3. runSummaryFault(t, profile) =
          start \o found \o Tool(t, "budget-estimator", TRUE) \o Tool(t, "trip-summariser", TRUE)
            \o Reply(t) \o end
    BY DEF runSummaryFault
  <2> HIDE DEF start, found, end
  <2> QED  BY <1>1, <2>1, <2>2, <2>3, PartsAreOwn, OwnConcat, OwnCompletes
<1> QED
  BY <1>2, <1>3, <1>4, <1>5, <1>6, <1>7, <1>8, <1>9, <1>10, <1>11 DEF runFault

\* Every turn of the local driver.
LEMMA BookingsComplete ==
    ASSUME NEW t \in Int, NEW s \in runBooking(t) PROVE Complete(t, s)
<1> DEFINE names == <<"cosmos.getTravellerProfile", "budget-estimator", "trip-summariser",
                      "booking-simulator">>
<1>1. <<>> \in Seq(Names) /\ names \in Seq(Names)
  <2>1. {"cosmos.getTravellerProfile", "budget-estimator", "trip-summariser", "booking-simulator"}
          \subseteq Names
    BY DEF Names
  <2> QED  BY <2>1
<1>2. Complete(t, Grounded(t, <<>>))
  BY <1>1, GroundedCompletes, Zenon
<1>3. runBooking(t) = {Grounded(t, <<>>), Turn(t, Reply(t) \o Asked(t, names))}
  BY DEF runBooking
<1> HIDE DEF names
<1>4. Own(t, Reply(t) \o Asked(t, names))
  BY <1>1, ReplyIsOwn, AskedIsOwn, OwnConcat DEF Own
<1>5. Complete(t, Turn(t, Reply(t) \o Asked(t, names)))
  BY <1>4, TurnCompletes DEF Own
<1> QED
  BY <1>2, <1>3, <1>5

LEMMA TurnsComplete ==
    ASSUME NEW t \in Int, NEW s \in run(t) PROVE Complete(t, s)
<1> SUFFICES ASSUME s \notin runBooking(t) PROVE \E names \in Seq(Names) : s = Grounded(t, names)
  BY BookingsComplete, GroundedCompletes
<1> DEFINE N == Seq(Names)
<1>1. /\ <<>> \in N
      /\ \A u, v \in N : u \o v \in N
  OBVIOUS
<1>2. CASE s \in runTravelSearch(t)
  <2>1. {"travel-search", "routestack.flights", "currency.convert", "routestack.hotels",
         "cosmos.getTravellerProfile"} \subseteq Names
    BY DEF Names
  <2>2. /\ <<"travel-search">> \in N /\ <<"routestack.flights">> \in N /\ <<"currency.convert">> \in N
        /\ <<"routestack.hotels", "cosmos.getTravellerProfile">> \in N
    BY <2>1
  <2>3. PICK before, convert :
           /\ convert \in {<<>>, <<"currency.convert">>}
           /\ before \in {<<>>, <<"routestack.flights">> \o convert
                                  \o <<"routestack.hotels", "cosmos.getTravellerProfile">>}
           /\ s = Grounded(t, before \o <<"travel-search">>)
    BY <1>2 DEF runTravelSearch
  <2> HIDE DEF N
  <2>4. before \o <<"travel-search">> \in N
    BY <1>1, <2>2, <2>3
  <2> QED  BY <2>3, <2>4 DEF N
<1>3. CASE s \in runWeather(t)
  <2>1. {"open-meteo.geocoding", "open-meteo.climate", "weather-window"} \subseteq Names
    BY DEF Names
  <2>2. <<"open-meteo.geocoding">> \in N /\ <<"open-meteo.climate">> \in N /\ <<"weather-window">> \in N
    BY <2>1
  <2>3. PICK climate \in {<<>>, <<"open-meteo.climate">>} :
           s = Grounded(t, <<"open-meteo.geocoding">> \o climate \o <<"weather-window">>)
    BY <1>3 DEF runWeather
  <2> HIDE DEF N
  <2>4. <<"open-meteo.geocoding">> \o climate \o <<"weather-window">> \in N
    BY <1>1, <2>2, <2>3
  <2> QED  BY <2>3, <2>4 DEF N
<1>4. CASE s \in runSummary(t)
  <2>1. {"cosmos.getTravellerProfile", "budget-estimator", "currency.convert", "trip-summariser"}
          \subseteq Names
    BY DEF Names
  <2>2. /\ <<"cosmos.getTravellerProfile", "budget-estimator">> \in N
        /\ <<"currency.convert">> \in N /\ <<"trip-summariser">> \in N
    BY <2>1
  <2>3. CASE s = Grounded(t, <<>>)
    BY <1>1, <2>3, Zenon
  <2>4. CASE s # Grounded(t, <<>>)
    <3>1. PICK convert \in {<<>>, <<"currency.convert">>} :
             s = Grounded(t, <<"cosmos.getTravellerProfile", "budget-estimator">> \o convert
                                \o <<"trip-summariser">>)
      BY <1>4, <2>4 DEF runSummary
    <3> HIDE DEF N
    <3>2. <<"cosmos.getTravellerProfile", "budget-estimator">> \o convert \o <<"trip-summariser">> \in N
      BY <1>1, <2>2, <3>1
    <3> QED  BY <3>1, <3>2 DEF N
  <2> QED  BY <2>3, <2>4
<1>5. CASE s \in runResearch(t)
  <2>1. <<"wikipedia.summary">> \in Seq(Names)
    BY DEF Names
  <2> QED  BY <1>5, <2>1, Zenon DEF runResearch
<1>6. CASE s \in runDestinations(t)
  <2>1. {"cosmos.getTravellerProfile", "personalise", "travel-guide.searchByMonth",
         "destination-advisor"} \subseteq Names
    BY DEF Names
  <2>2. /\ personaliseEvents \in N /\ <<"travel-guide.searchByMonth">> \in N
        /\ <<"destination-advisor">> \in N
    BY <2>1 DEF personaliseEvents
  <2>3. PICK before \in {<<>>, personaliseEvents, <<"travel-guide.searchByMonth">> \o personaliseEvents} :
           s = Grounded(t, before \o <<"destination-advisor">>)
    BY <1>6 DEF runDestinations
  <2> HIDE DEF N
  <2>4. before \o <<"destination-advisor">> \in N
    BY <1>1, <2>2, <2>3
  <2> QED  BY <2>3, <2>4 DEF N
<1> QED
  BY <1>2, <1>3, <1>4, <1>5, <1>6 DEF run

\* An answer: the model's own call is open while a tool is called.
AnswerShape(s, t, a, b) ==
    /\ s \in Seq(Events) /\ Len(s) = 7
    /\ s[1] = Decision /\ s[2] = ToolCall(a) /\ s[3] = ToolCall(b)
    /\ s[4] = ToolResult(b, TRUE) /\ s[5] = Say(t, 1) /\ s[6] = ToolResult(a, TRUE)
    /\ s[7] = DoneEvent
    /\ a.name # b.name /\ {a, b} \subseteq Calls /\ a.of = t /\ b.of = t

LEMMA AnswerIs ==
    ASSUME NEW t \in Int
    PROVE  AnswerShape(Answer(t), t, Call(t, "copilot.chat"), Call(t, "travel-search"))
<1> DEFINE a == Call(t, "copilot.chat")
           b == Call(t, "travel-search")
           s == Answer(t)
<1>1. a.name # b.name /\ {a, b} \subseteq Calls /\ a.of = t /\ b.of = t
  <2>1. {"copilot.chat", "travel-search"} \subseteq Names
    BY DEF Names
  <2>2. {a, b} \subseteq Calls
    BY <2>1, CallsAre
  <2> HIDE DEF s
  <2> QED  BY <2>2 DEF Call
<1>2. s = <<Decision, ToolCall(a)>>
             \o (<<ToolCall(b), ToolResult(b, TRUE)>> \o <<Say(t, 1)>>)
             \o <<ToolResult(a, TRUE), DoneEvent>>
  BY DEF Answer, Turn, Tool
<1> HIDE DEF a, b, s
<1> DEFINE x1 == Decision
           x2 == ToolCall(a)
           x3 == ToolCall(b)
           x4 == ToolResult(b, TRUE)
           x5 == Say(t, 1)
           x6 == ToolResult(a, TRUE)
           x7 == DoneEvent
           u == <<x1, x2>>
           p == <<x3, x4>> \o <<x5>>
           q == u \o p
           v == <<x6, x7>>
<1>3. {x1, x2, x3, x4, x5, x6, x7} \subseteq Events
  BY <1>1, EventsThereAre
<1>4. s = q \o v
  BY <1>2
<1> HIDE DEF x1, x2, x3, x4, x5, x6, x7
<1>5. p \in Seq(Events) /\ Len(p) = 3 /\ p[1] = x3 /\ p[2] = x4 /\ p[3] = x5
  BY <1>3
<1>6. /\ u \in Seq(Events) /\ Len(u) = 2 /\ u[1] = x1 /\ u[2] = x2
      /\ v \in Seq(Events) /\ Len(v) = 2 /\ v[1] = x6 /\ v[2] = x7
  BY <1>3
<1> HIDE DEF p, u, v
<1>7. /\ q \in Seq(Events) /\ Len(q) = 5
      /\ q[1] = x1 /\ q[2] = x2 /\ q[3] = x3 /\ q[4] = x4 /\ q[5] = x5
  <2>1. /\ q \in Seq(Events) /\ Len(q) = Len(u) + Len(p)
        /\ \A k \in 1 .. Len(u) : q[k] = u[k]
        /\ \A k \in 1 .. Len(p) : q[Len(u) + k] = p[k]
    <3>1. u \in Seq(Events) /\ p \in Seq(Events)
      BY <1>5, <1>6
    <3> QED  BY <3>1
  <2> HIDE DEF q
  <2>2. q[2 + 1] = p[1] /\ q[2 + 2] = p[2] /\ q[2 + 3] = p[3] /\ q[1] = u[1] /\ q[2] = u[2]
    BY <1>5, <1>6, <2>1
  <2> QED  BY <1>5, <1>6, <2>1, <2>2
<1> HIDE DEF q
<1>8. /\ s \in Seq(Events) /\ Len(s) = 7 /\ s[1] = x1 /\ s[2] = x2 /\ s[3] = x3 /\ s[4] = x4
      /\ s[5] = x5 /\ s[6] = x6 /\ s[7] = x7
  <2>1. /\ s \in Seq(Events) /\ Len(s) = Len(q) + Len(v)
        /\ \A k \in 1 .. Len(q) : s[k] = q[k]
        /\ \A k \in 1 .. Len(v) : s[Len(q) + k] = v[k]
    <3>1. q \in Seq(Events) /\ v \in Seq(Events)
      BY <1>6, <1>7
    <3> QED  BY <1>4, <3>1
  <2>2. /\ s[5 + 1] = v[1] /\ s[5 + 2] = v[2]
        /\ s[1] = q[1] /\ s[2] = q[2] /\ s[3] = q[3] /\ s[4] = q[4] /\ s[5] = q[5]
    BY <1>6, <1>7, <2>1
  <2> QED  BY <1>6, <1>7, <2>1, <2>2
<1>9. AnswerShape(s, t, a, b)
  BY <1>1, <1>8 DEF x1, x2, x3, x4, x5, x6, x7, AnswerShape
<1> QED
  BY <1>9 DEF a, b, s

LEMMA AnswerHasSeven ==
    ASSUME NEW t \in Int PROVE Answer(t) \in Seq(Events) /\ Len(Answer(t)) = 7
  BY AnswerIs DEF AnswerShape

\* Two calls of one tool are as well formed, and one of them is not the turn's own.
LEMMA TwinsAre ==
    ASSUME NEW t \in Int
    PROVE  Twins(t) \in Seq(Events) /\ Members(Twins(t)) \cap Verdicts # {}
<1> DEFINE a == Call(t, "travel-search")
           b == Call(-t, "travel-search")
           x1 == ToolCall(a)
           x2 == ToolCall(b)
           x3 == ToolResult(a, TRUE)
           x4 == ToolResult(b, FALSE)
           x5 == Say(t, 1)
<1>1. a \in Calls /\ b \in Calls
  <2>1. "travel-search" \in Names /\ -t \in Int
    BY DEF Names
  <2> QED  BY <2>1, CallsAre
<1> HIDE DEF a, b
<1>2. {x1, x2, x3, x4, x5, DoneEvent} \subseteq Events
  BY <1>1, EventsThereAre
<1>3. Twins(t) = <<x1, x2, x3, x4, x5, DoneEvent>>
  BY DEF Twins, a, b
<1> DEFINE w == <<x1, x2, x3, x4, x5, DoneEvent>>
<1> HIDE DEF x1, x2, x3, x4, x5
<1>4. w \in Seq(Events) /\ 6 \in DOMAIN w /\ w[6] = DoneEvent
  BY <1>2
<1> HIDE DEF w
<1>5. Members(w) \cap Verdicts # {}
  BY <1>4 DEF Members, Verdicts
<1>6. Twins(t) = w
  BY <1>3 DEF w
<1> QED
  BY <1>4, <1>5, <1>6

\* The SDK's other scripts have the turn's own calls only.
LEMMA SdkScriptsComplete ==
    ASSUME NEW t \in Int
    PROVE  Complete(t, Answer(t)) /\ Complete(t, LateFailure(t))
<1>1. "travel-search" \in Names
  BY DEF Names
<1>2. Own(t, Tool(t, "travel-search", TRUE))
  BY <1>1, PartsAreOwn
<1>3. Own(t, <<Say(t, 1)>>)
  BY OwnEventsThereAre, ShortTexts DEF Own
<1>4. Complete(t, Answer(t))
  BY <1>2, <1>3, OwnConcat, TurnCompletes DEF Answer, Own
<1>5. Own(t, Reply(t)) /\ Complete(t, <<DoneEvent, ErrorEvent>>)
  BY PartsAreOwn, OwnEventsThereAre, VerdictsComplete
<1>6. Complete(t, LateFailure(t))
  BY <1>5, OwnCompletes DEF LateFailure
<1> QED
  BY <1>4, <1>6

------------------------------------------------------------------------------
(* Own calls on their way through the wire, which knows them by name only. *)

\* The failure after the end, as a sequence of events.
LEMMA LateFailureIs ==
    ASSUME NEW t \in Int, NEW s, s = LateFailure(t)
    PROVE  /\ s \in Seq(Events) /\ Len(s) = 4
           /\ s[1] = Say(t, 1) /\ s[2] = Say(t, 2) /\ s[3] = DoneEvent /\ s[4] = ErrorEvent
<1> DEFINE x1 == Say(t, 1)
           x2 == Say(t, 2)
           u == <<x1, x2>>
           v == <<DoneEvent, ErrorEvent>>
<1>1. {x1, x2, DoneEvent, ErrorEvent} \subseteq Events
  BY EventsThereAre
<1>2. s = u \o v
  BY DEF LateFailure, Reply
<1> HIDE DEF x1, x2
<1>3. /\ u \in Seq(Events) /\ Len(u) = 2 /\ u[1] = x1 /\ u[2] = x2
      /\ v \in Seq(Events) /\ Len(v) = 2 /\ v[1] = DoneEvent /\ v[2] = ErrorEvent
  BY <1>1
<1> HIDE DEF u, v
<1>4. /\ s \in Seq(Events) /\ Len(s) = Len(u) + Len(v)
      /\ \A k \in 1 .. Len(u) : s[k] = u[k]
      /\ \A k \in 1 .. Len(v) : s[Len(u) + k] = v[k]
  <2>1. u \in Seq(Events) /\ v \in Seq(Events)
    BY <1>3
  <2> QED  BY <1>2, <2>1
<1>5. s[1] = u[1] /\ s[2] = u[2] /\ s[2 + 1] = v[1] /\ s[2 + 2] = v[2]
  BY <1>3, <1>4
<1> QED
  BY <1>3, <1>4, <1>5 DEF x1, x2

\* The whole is its own longest beginning.
LEMMA Beginnings ==
    ASSUME NEW E, NEW s \in Seq(E)
    PROVE  /\ SubSeq(s, 1, 0) = <<>> /\ SubSeq(s, 1, Len(s)) = s
           /\ \A k \in 0 .. Len(s) : SubSeq(s, 1, k) \in Seq(E)
           /\ \A k \in 0 .. Len(s) - 1 :
                 /\ SubSeq(s, 1, k + 1) = Append(SubSeq(s, 1, k), s[k + 1])
                 /\ s[k + 1] \in E
  OBVIOUS

\* The writer over one more event of a beginning.
LEMMA WrittenStep ==
    ASSUME NEW E, NEW s \in Seq(E), NEW j \in 0 .. Len(s) - 1
    PROVE  Written(SubSeq(s, 1, j + 1)) = writeEvent(Written(SubSeq(s, 1, j)), s[j + 1])
<1> DEFINE u == SubSeq(s, 1, j)
<1>1. SubSeq(s, 1, j + 1) = Append(u, s[j + 1]) /\ u \in Seq(E) /\ s[j + 1] \in E
  BY Beginnings
<1> HIDE DEF u
<1>2. Written(Append(u, s[j + 1])) = writeEvent(Written(u), s[j + 1])
  BY <1>1, WrittenGrows
<1> QED
  BY <1>1, <1>2 DEF u

\* A writer of a turn's own calls: those in calls are not answered yet.
Owned(t, w, calls) ==
    /\ WriterShape(w) /\ w.pending = calls /\ w.failed = FALSE
    /\ Members(Read(w.frames)) \subseteq OwnEvents(t)

\* A call of its own, its result, text and an error keep a writer so.
LEMMA CallKeepsOwned ==
    ASSUME NEW t, NEW w, NEW calls, Owned(t, w, calls),
           NEW c \in Calls, \A d \in calls : d.name # c.name,
           NEW v, v = writeEvent(w, ToolCall(c))
    PROVE  Owned(t, v, calls \cup {c})
<1> DEFINE e == ToolCall(c)
<1>1. e.type = "tool_call" /\ e.call = c
  BY TypesAre
<1>2. /\ WriterShape(w) /\ w.pending = calls /\ w.failed = FALSE
      /\ Members(Read(w.frames)) \subseteq OwnEvents(t)
  BY DEF Owned
<1>3. v = writeEvent(w, e)
  OBVIOUS
<1> HIDE DEF e
<1>4. v = [frames |-> w.frames, pending |-> (w.pending \ Named(w.pending, e.call.name)) \cup {e.call},
           messageOpen |-> w.messageOpen, failed |-> w.failed]
  BY <1>3, <1>1, <1>2, CallWritten
<1>5. (w.pending \ Named(w.pending, e.call.name)) \cup {e.call} = calls \cup {c}
  BY <1>1, <1>2 DEF Named
<1>6. /\ w.frames \in Seq(Frames) /\ Read(w.frames) \in Seq(Events) /\ w.messageOpen \in BOOLEAN
      /\ calls \cup {c} \subseteq Calls
  BY <1>2 DEF WriterShape
<1>7. v = [frames |-> w.frames, pending |-> calls \cup {c}, messageOpen |-> w.messageOpen,
           failed |-> FALSE]
  BY <1>2, <1>4, <1>5
<1>8. WriterShape(v) /\ v.frames = w.frames /\ v.failed = FALSE
  BY <1>6, <1>7, FramesWritten, Zenon
<1>9. v.pending = calls \cup {c}
  BY <1>7
<1>10. Owned(t, v, calls \cup {c})
  BY <1>2, <1>8, <1>9 DEF Owned
<1> QED
  BY <1>10 DEF e

LEMMA ResultKeepsOwned ==
    ASSUME NEW t \in Int, NEW w, NEW calls, Owned(t, w, calls),
           NEW c \in calls, c.of = t, \A d \in calls : d.name = c.name => d = c, NEW ok \in BOOLEAN,
           NEW v, v = writeEvent(w, ToolResult(c, ok))
    PROVE  Owned(t, v, calls \ {c})
<1> DEFINE e == ToolResult(c, ok)
           x == Append(w.frames, FunctionCall({c}, e))
<1>1. /\ WriterShape(w) /\ w.pending = calls /\ w.failed = FALSE
      /\ Members(Read(w.frames)) \subseteq OwnEvents(t)
      /\ calls \subseteq Calls /\ w.frames \in Seq(Frames) /\ Read(w.frames) \in Seq(Events)
      /\ w.messageOpen \in BOOLEAN
  BY DEF Owned, WriterShape
<1>2. e.type = "tool_result" /\ e.call = c /\ e \in Events /\ e \in Results
  BY <1>1, TypesAre, EventsThereAre DEF Results
<1>3. c = Call(t, e.call.name) /\ e.call.name \in Names
  BY <1>1, <1>2, CallsAre
<1>4. v = writeEvent(w, e)
  OBVIOUS
<1> HIDE DEF e
<1>5. Named(w.pending, e.call.name) = {c}
  BY <1>1, <1>2 DEF Named
<1>6. v = [frames |-> x, pending |-> calls \ {c}, messageOpen |-> w.messageOpen, failed |-> FALSE]
  BY <1>4, <1>1, <1>2, <1>5, ResultWritten
<1>7. {c} \in SUBSET Calls /\ FunctionCall({c}, e) \in Frames
  BY <1>1, <1>2 DEF Frames
<1>8. ReadCall({c}, e) = c
  BY <1>2, <1>3, <1>7, ReadCallIsCall
<1>9. Read(x) = Append(Append(Read(w.frames), ToolCall(c)), e)
  BY <1>1, <1>2, <1>7, <1>8, CallReadOn
<1>10. ToolCall(c) \in OwnEvents(t) /\ e \in OwnEvents(t) /\ ToolCall(c) \in Events
  BY <1>1, <1>2, EventsThereAre, TypesAre DEF OwnEvents
<1>11. x \in Seq(Frames)
  BY <1>1, <1>7
<1> HIDE DEF x
<1>12. Read(x) \in Seq(Events) /\ Members(Read(x)) = Members(Read(w.frames)) \cup {ToolCall(c)} \cup {e}
  <2>1. Append(Read(w.frames), ToolCall(c)) \in Seq(Events)
    BY <1>1, <1>10
  <2>2. Members(Append(Read(w.frames), ToolCall(c))) = Members(Read(w.frames)) \cup {ToolCall(c)}
    BY <1>1, <1>10, MembersGrow
  <2> DEFINE y == Append(Read(w.frames), ToolCall(c))
  <2>3. y \in Seq(Events) /\ Read(x) = Append(y, e)
    BY <1>9, <2>1
  <2> HIDE DEF y
  <2>4. Members(Read(x)) = Members(y) \cup {e} /\ Read(x) \in Seq(Events)
    BY <1>2, <2>3, MembersGrow
  <2> QED  BY <2>2, <2>4 DEF y
<1>13. WriterShape(v) /\ v.frames = x /\ v.failed = FALSE
  <2>1. calls \ {c} \subseteq Calls
    BY <1>1
  <2> QED  BY <1>1, <1>6, <1>11, <1>12, <2>1, FramesWritten, Zenon
<1>14. v.pending = calls \ {c}
  BY <1>6
<1>15. Owned(t, v, calls \ {c})
  BY <1>1, <1>10, <1>12, <1>13, <1>14 DEF Owned
<1> QED
  BY <1>13, <1>15 DEF e

LEMMA TextKeepsOwned ==
    ASSUME NEW t \in Int, NEW w, NEW calls, Owned(t, w, calls), NEW n \in Nat,
           NEW v, v = writeEvent(w, Say(t, n))
    PROVE  Owned(t, v, calls)
<1> DEFINE e == Say(t, n)
           x == Append(w.frames, Delta(e))
<1>1. /\ WriterShape(w) /\ w.pending = calls /\ w.failed = FALSE
      /\ Members(Read(w.frames)) \subseteq OwnEvents(t)
      /\ calls \subseteq Calls /\ w.frames \in Seq(Frames) /\ Read(w.frames) \in Seq(Events)
  BY DEF Owned, WriterShape
<1>2. e.type = "token" /\ e \in OwnEvents(t) /\ e \in Events
  BY TypesAre, OwnEventsThereAre, EventsThereAre
<1>3. v = writeEvent(w, e)
  OBVIOUS
<1> HIDE DEF e
<1>4. v = [frames |-> x, pending |-> calls, messageOpen |-> TRUE, failed |-> FALSE]
  BY <1>3, <1>1, <1>2, TextWritten
<1>5. x \in Seq(Frames)
  BY <1>1, <1>2 DEF Frames
<1>6. Read(x) = Append(Read(w.frames), e)
  BY <1>1, <1>2, TextReadOn
<1> HIDE DEF x
<1>7. Read(x) \in Seq(Events) /\ Members(Read(x)) = Members(Read(w.frames)) \cup {e}
  BY <1>1, <1>2, <1>6, MembersGrow
<1>8. WriterShape(v) /\ v.frames = x /\ v.failed = FALSE
  <2>1. TRUE \in BOOLEAN /\ FALSE \in BOOLEAN
    OBVIOUS
  <2> QED  BY <1>1, <1>4, <1>5, <1>7, <2>1, FramesWritten, Zenon
<1>9. v.pending = calls
  BY <1>4
<1>10. Owned(t, v, calls)
  BY <1>1, <1>2, <1>7, <1>8, <1>9 DEF Owned
<1> QED
  BY <1>8, <1>10 DEF e

LEMMA ErrorKeepsOwned ==
    ASSUME NEW t \in Int, NEW w, NEW calls, Owned(t, w, calls),
           NEW v, v = writeEvent(w, ErrorEvent)
    PROVE  Members(Read(v.frames)) \subseteq OwnEvents(t)
<1> DEFINE x == Append(w.frames, Failed)
<1>1. /\ WriterShape(w) /\ w.pending = calls /\ w.failed = FALSE
      /\ Members(Read(w.frames)) \subseteq OwnEvents(t)
      /\ calls \subseteq Calls /\ w.frames \in Seq(Frames) /\ Read(w.frames) \in Seq(Events)
      /\ w.messageOpen \in BOOLEAN
  BY DEF Owned, WriterShape
<1>2. ErrorEvent.type = "error" /\ ErrorEvent \in OwnEvents(t) /\ ErrorEvent \in Events
  BY TypesAre, OwnEventsThereAre, EventsThereAre
<1>3. v = [frames |-> x, pending |-> calls, messageOpen |-> w.messageOpen, failed |-> TRUE]
  BY <1>1, <1>2, ErrorWritten
<1>4. x \in Seq(Frames) /\ Read(x) = Append(Read(w.frames), ErrorEvent)
  <2>1. Failed \in Frames /\ Read(Append(w.frames, Failed)) = Append(Read(w.frames), ErrorEvent)
    BY <1>1, RestReadOn
  <2> QED  BY <1>1, <2>1
<1> HIDE DEF x
<1>5. Read(x) \in Seq(Events) /\ Members(Read(x)) = Members(Read(w.frames)) \cup {ErrorEvent}
  BY <1>1, <1>2, <1>4, MembersGrow
<1>6. v.frames = x
  BY <1>3
<1> QED
  BY <1>1, <1>2, <1>5, <1>6

LEMMA NewIsOwned == ASSUME NEW t PROVE Owned(t, NewWriter, {})
<1>1. /\ WriterShape(NewWriter) /\ NewWriter.frames = <<>> /\ NewWriter.pending = {}
      /\ NewWriter.failed = FALSE
  BY WriterStarts DEF WriterInv, NewWriter
<1>2. Members(<<>>) = {}
  BY DEF Members
<1>3. Members(Read(NewWriter.frames)) = {}
  BY <1>1, <1>2, ReadOfNothing, Zenon
<1> QED
  BY <1>1, <1>3 DEF Owned

\* However much of an answer is written, what is read of it are the turn's own calls.
LEMMA AnswerIsOwned ==
    ASSUME NEW t \in Int, NEW k \in 0 .. 7
    PROVE  Members(Read(BrokenOff(SubSeq(Answer(t), 1, k)))) \subseteq OwnEvents(t)
<1> DEFINE a == Call(t, "copilot.chat")
           b == Call(t, "travel-search")
           s == Answer(t)
           W(j) == Written(SubSeq(s, 1, j))
<1> HIDE DEF a, b, s
<1>1. AnswerShape(s, t, a, b)
  BY AnswerIs DEF a, b, s
<1> USE DEF AnswerShape
<1>2. W(0) = NewWriter
  <2>1. SubSeq(s, 1, 0) = <<>>
    BY <1>1, Beginnings
  <2> QED  BY <2>1, WrittenOfNothing, Zenon
<1>3. \A j \in 0 .. 6 : W(j + 1) = writeEvent(W(j), s[j + 1])
  <2> SUFFICES ASSUME NEW j \in 0 .. 6 PROVE W(j + 1) = writeEvent(W(j), s[j + 1])
    OBVIOUS
  <2>1. j \in 0 .. Len(s) - 1
    BY <1>1
  <2> QED  BY <1>1, <2>1, WrittenStep, Zenon
<1> HIDE DEF W
<1>4. /\ W(1) = writeEvent(W(0), Decision) /\ W(2) = writeEvent(W(1), ToolCall(a))
      /\ W(3) = writeEvent(W(2), ToolCall(b)) /\ W(4) = writeEvent(W(3), ToolResult(b, TRUE))
      /\ W(5) = writeEvent(W(4), Say(t, 1)) /\ W(6) = writeEvent(W(5), ToolResult(a, TRUE))
      /\ W(7) = writeEvent(W(6), DoneEvent)
  <2>1. /\ W(0 + 1) = writeEvent(W(0), s[0 + 1]) /\ W(1 + 1) = writeEvent(W(1), s[1 + 1])
        /\ W(2 + 1) = writeEvent(W(2), s[2 + 1])
    BY <1>3
  <2>2. /\ W(3 + 1) = writeEvent(W(3), s[3 + 1]) /\ W(4 + 1) = writeEvent(W(4), s[4 + 1])
        /\ W(5 + 1) = writeEvent(W(5), s[5 + 1]) /\ W(6 + 1) = writeEvent(W(6), s[6 + 1])
    BY <1>3
  <2>3. /\ W(1) = writeEvent(W(0), s[1]) /\ W(2) = writeEvent(W(1), s[2])
        /\ W(3) = writeEvent(W(2), s[3])
    BY <2>1
  <2>4. /\ W(4) = writeEvent(W(3), s[4]) /\ W(5) = writeEvent(W(4), s[5])
        /\ W(6) = writeEvent(W(5), s[6]) /\ W(7) = writeEvent(W(6), s[7])
    BY <2>2
  <2> QED  BY <1>1, <2>3, <2>4, Zenon
<1>5. Owned(t, W(0), {})
  BY <1>2, NewIsOwned
<1>6. Owned(t, W(1), {})
  BY <1>1, <1>4, <1>5, RestWritten, TypesAre
<1>7. Owned(t, W(2), {a})
  <2>1. {} \cup {a} = {a}
    OBVIOUS
  <2> QED  BY <1>1, <1>4, <1>6, <2>1, CallKeepsOwned
<1>8. Owned(t, W(3), {a} \cup {b})
  BY <1>1, <1>4, <1>7, CallKeepsOwned
<1>9. Owned(t, W(4), {a})
  <2> DEFINE c == {a} \cup {b}
  <2>1. c \ {b} = {a} /\ b \in c /\ \A d \in c : d.name = b.name => d = b
    BY <1>1
  <2>2. Owned(t, W(3), c)
    BY <1>8
  <2> HIDE DEF c
  <2>3. Owned(t, W(4), c \ {b})
    BY <1>1, <1>4, <2>1, <2>2, ResultKeepsOwned
  <2> QED  BY <2>1, <2>3
<1>10. Owned(t, W(5), {a})
  BY <1>1, <1>4, <1>9, TextKeepsOwned
<1>11. Owned(t, W(6), {a} \ {a})
  BY <1>1, <1>4, <1>10, ResultKeepsOwned
<1>12. Owned(t, W(7), {a} \ {a})
  BY <1>1, <1>4, <1>11, RestWritten, TypesAre
<1>13. k \in {0, 1, 2, 3, 4, 5, 6, 7}
  OBVIOUS
<1>14. Members(Read(W(k).frames)) \subseteq OwnEvents(t)
  BY <1>5, <1>6, <1>7, <1>8, <1>9, <1>10, <1>11, <1>12, <1>13 DEF Owned
<1> QED
  BY <1>14 DEF W, s, BrokenOff

\* The same for an answer that fails after its end.
LEMMA LateFailureIsOwned ==
    ASSUME NEW t \in Int
    PROVE  Members(Read(BrokenOff(LateFailure(t)))) \subseteq OwnEvents(t)
<1> DEFINE s == LateFailure(t)
           W(j) == Written(SubSeq(s, 1, j))
<1> HIDE DEF s
<1>1. /\ s \in Seq(Events) /\ Len(s) = 4
      /\ s[1] = Say(t, 1) /\ s[2] = Say(t, 2) /\ s[3] = DoneEvent /\ s[4] = ErrorEvent
  BY LateFailureIs DEF s
<1>2. W(0) = NewWriter /\ W(4) = Written(s)
  <2>1. SubSeq(s, 1, 0) = <<>> /\ SubSeq(s, 1, 4) = s
    BY <1>1, Beginnings
  <2> QED  BY <2>1, WrittenOfNothing, Zenon
<1>3. \A j \in 0 .. 3 : W(j + 1) = writeEvent(W(j), s[j + 1])
  <2> SUFFICES ASSUME NEW j \in 0 .. 3 PROVE W(j + 1) = writeEvent(W(j), s[j + 1])
    OBVIOUS
  <2>1. j \in 0 .. Len(s) - 1
    BY <1>1
  <2> QED  BY <1>1, <2>1, WrittenStep, Zenon
<1> HIDE DEF W
<1>4. /\ W(1) = writeEvent(W(0), Say(t, 1)) /\ W(2) = writeEvent(W(1), Say(t, 2))
      /\ W(3) = writeEvent(W(2), DoneEvent) /\ W(4) = writeEvent(W(3), ErrorEvent)
  <2>1. /\ W(0 + 1) = writeEvent(W(0), s[0 + 1]) /\ W(1 + 1) = writeEvent(W(1), s[1 + 1])
        /\ W(2 + 1) = writeEvent(W(2), s[2 + 1]) /\ W(3 + 1) = writeEvent(W(3), s[3 + 1])
    BY <1>3
  <2> QED  BY <1>1, <2>1
<1>5. Owned(t, W(0), {})
  BY <1>2, NewIsOwned
<1>6. Owned(t, W(1), {})
  BY <1>1, <1>4, <1>5, TextKeepsOwned
<1>7. Owned(t, W(2), {})
  BY <1>1, <1>4, <1>6, TextKeepsOwned
<1>8. Owned(t, W(3), {})
  BY <1>1, <1>4, <1>7, RestWritten, TypesAre
<1>9. Members(Read(W(4).frames)) \subseteq OwnEvents(t)
  BY <1>1, <1>4, <1>8, ErrorKeepsOwned
<1> QED
  BY <1>2, <1>9 DEF Owned, s, BrokenOff

------------------------------------------------------------------------------
(* What the page may be sent of a script. *)

\* What the page may be sent of a script: its text in order, its results, the turn's
\* own calls, and a verdict at its end unless it is cut off.
Follows(t, script, stream, cut) ==
    /\ script \in Seq(Events) /\ stream \in Seq(Events)
    /\ Begins(Spoken(stream), Spoken(script))
    /\ Members(stream) \cap Results \subseteq Members(script)
    /\ script # Twins(t) => Members(stream) \subseteq OwnEvents(t)
    /\ t \in reading /\ ~cut => Members(stream) \cap Verdicts # {}

\* What the scripts of a turn have in common.
LEMMA ScriptsAre ==
    ASSUME NEW t \in Int, NEW s \in Scripts(t)
    PROVE  /\ s \in Seq(Events)
           /\ s # Twins(t) => Members(s) \subseteq OwnEvents(t)
           /\ t \in reading => Members(s) \cap Verdicts # {}
           /\ route # "local" => s \in {<<>>, Answer(t), LateFailure(t), Twins(t)}
           /\ s = <<>> => t \notin reading
<1>1. ASSUME Complete(t, s)
      PROVE  /\ s \in Seq(Events) /\ Members(s) \subseteq OwnEvents(t)
             /\ Members(s) \cap Verdicts # {} /\ s # <<>>
  BY <1>1, OwnIsEvent, CompleteHasVerdict DEF Complete
<1>2. CASE t \notin reading
  <2>1. s = <<>>
    BY <1>2 DEF Scripts
  <2>2. <<>> \in Seq(Events) /\ Members(<<>>) = {}
    BY DEF Members
  <2> QED  BY <1>2, <2>1, <2>2, Zenon
<1>3. CASE t \in reading /\ route # "local"
  <2>1. s \in {Answer(t), LateFailure(t), Twins(t)}
    BY <1>3 DEF Scripts
  <2>2. CASE s = Twins(t)
    <3>1. Members(s) # {}
      BY <2>2, TwinsAre
    <3>2. s # <<>>
      BY <3>1 DEF Members
    <3> QED  BY <2>1, <2>2, <3>2, TwinsAre
  <2>3. CASE s # Twins(t)
    <3>1. Complete(t, s)
      BY <2>1, <2>3, SdkScriptsComplete
    <3> QED  BY <1>1, <2>1, <3>1
  <2> QED  BY <2>2, <2>3
<1>4. CASE t \in reading /\ route = "local"
  <2>1. s \in run(t) \/ s \in runFault(t) \/ s \in runBooking(t)
    BY <1>4 DEF Scripts
  <2>2. Complete(t, s)
    BY <2>1, TurnsComplete, FaultsComplete, BookingsComplete
  <2> QED  BY <1>1, <1>4, <2>2
<1> QED
  BY <1>2, <1>3, <1>4

\* A stream that is the script itself.
LEMMA ScriptFollows ==
    ASSUME NEW t \in Int, NEW s \in Scripts(t) PROVE Follows(t, s, s, FALSE)
<1>1. /\ s \in Seq(Events)
      /\ s # Twins(t) => Members(s) \subseteq OwnEvents(t)
      /\ t \in reading => Members(s) \cap Verdicts # {}
  BY ScriptsAre
<1>2. Spoken(s) \in Seq(Events)
  BY <1>1, SpokenIsText
<1>3. Begins(Spoken(s), Spoken(s))
  BY <1>2, BeginsItself
<1> QED
  BY <1>1, <1>3 DEF Follows

\* An error at the end is a verdict.
LEMMA ErrorFollows ==
    ASSUME NEW t \in Int, NEW s, NEW r, NEW cut, Follows(t, s, r, cut)
    PROVE  Follows(t, s, r \o <<ErrorEvent>>, FALSE)
<1>1. ErrorEvent \in Events /\ ErrorEvent \in OwnEvents(t) /\ ErrorEvent \notin Results
      /\ ErrorEvent.type = "error" /\ ErrorEvent \in Verdicts
  BY EventsThereAre, OwnEventsThereAre, TypesAre DEF Results, Verdicts
<1>2. r \in Seq(Events)
  BY DEF Follows
<1>3. r \o <<ErrorEvent>> = Append(r, ErrorEvent)
  BY <1>1, <1>2, AppendIsConcat
<1> DEFINE a == Append(r, ErrorEvent)
<1>4. a \in Seq(Events) /\ Members(a) = Members(r) \cup {ErrorEvent} /\ Spoken(a) = Spoken(r)
  BY <1>1, <1>2, MembersGrow, SpokenGrows
<1>5. r \o <<ErrorEvent>> = a
  BY <1>3
<1> HIDE DEF a
<1>6. Follows(t, s, a, FALSE)
  BY <1>1, <1>4 DEF Follows
<1> QED
  BY <1>5, <1>6

\* A turn that is refused.
LEMMA OnlyError ==
    ASSUME NEW t \in Int PROVE Follows(t, <<ErrorEvent>>, <<ErrorEvent>>, FALSE)
<1> DEFINE s == <<ErrorEvent>>
<1>1. s \in Seq(Events) /\ Members(s) = {ErrorEvent}
  <2>1. s \in Seq(Events) /\ DOMAIN s = {1} /\ s[1] = ErrorEvent
    BY EventsThereAre
  <2> HIDE DEF s
  <2> QED  BY <2>1 DEF Members
<1> HIDE DEF s
<1>2. ErrorEvent \in OwnEvents(t) /\ ErrorEvent \in Verdicts
  BY OwnEventsThereAre DEF Verdicts
<1>3. Begins(Spoken(s), Spoken(s))
  BY <1>1, SpokenIsText, BeginsItself
<1>4. Follows(t, s, s, FALSE)
  BY <1>1, <1>2, <1>3 DEF Follows
<1> QED
  BY <1>4 DEF s

\* A whole answer that comes over the wire.
LEMMA ReadFollows ==
    ASSUME NEW t \in Int, NEW s \in Scripts(t), route # "local"
    PROVE  Follows(t, s, Read(streamResponses(s)), FALSE)
<1> DEFINE r == Read(streamResponses(s))
<1>1. /\ s \in Seq(Events) /\ s \in {<<>>, Answer(t), LateFailure(t), Twins(t)}
  BY ScriptsAre
<1>2. /\ r \in Seq(Events) /\ Begins(Spoken(r), Spoken(s))
      /\ Members(r) \cap Results \subseteq Members(s)
      /\ Members(r) \cap Verdicts # {}
      /\ Members(r) \subseteq Members(Read(BrokenOff(s))) \cup Verdicts
  BY <1>1, StreamTells
<1> HIDE DEF r
<1>3. ASSUME s # Twins(t) PROVE Members(Read(BrokenOff(s))) \subseteq OwnEvents(t)
  <2>1. Members(Read(BrokenOff(<<>>))) \subseteq OwnEvents(t)
    <3>1. BrokenOff(<<>>) = NewWriter.frames
      BY WrittenOfNothing, Zenon DEF BrokenOff
    <3>2. Members(Read(NewWriter.frames)) \subseteq OwnEvents(t)
      BY NewIsOwned DEF Owned
    <3> QED  BY <3>1, <3>2, Zenon
  <2>2. Members(Read(BrokenOff(Answer(t)))) \subseteq OwnEvents(t)
    <3>1. Answer(t) \in Seq(Events) /\ Len(Answer(t)) = 7
      BY AnswerHasSeven
    <3>2. SubSeq(Answer(t), 1, Len(Answer(t))) = Answer(t)
      BY <3>1, Beginnings
    <3>3. Members(Read(BrokenOff(SubSeq(Answer(t), 1, 7)))) \subseteq OwnEvents(t)
      BY AnswerIsOwned
    <3> QED  BY <3>1, <3>2, <3>3, Zenon
  <2>3. s = <<>> \/ s = Answer(t) \/ s = LateFailure(t)
    BY <1>1, <1>3
  <2> QED  BY <2>1, <2>2, <2>3, LateFailureIsOwned, Zenon
<1>4. Verdicts \subseteq OwnEvents(t)
  BY OwnEventsThereAre DEF Verdicts
<1>5. Follows(t, s, r, FALSE)
  BY <1>1, <1>2, <1>3, <1>4 DEF Follows
<1> QED
  BY <1>5 DEF r

\* What came of an answer that broke off, directly or over the wire.
LEMMA BrokenFollows ==
    ASSUME NEW t \in Int, NEW p \in Broken(t)
    PROVE  /\ Follows(t, Answer(t), p, TRUE)
           /\ Follows(t, Answer(t), Read(BrokenOff(p)), TRUE)
<1> DEFINE s == Answer(t)
           r == Read(BrokenOff(p))
<1>1. PICK k \in 0 .. Len(s) - 1 : p = SubSeq(s, 1, k)
  BY DEF Broken
<1>2. s \in Seq(Events) /\ Len(s) = 7
  BY AnswerHasSeven
<1>3. Members(r) \subseteq OwnEvents(t)
  <2>1. k \in 0 .. 7
    BY <1>2
  <2> QED  BY <1>1, <2>1, AnswerIsOwned, Zenon
<1>4. Members(s) \subseteq OwnEvents(t)
  BY SdkScriptsComplete, OwnIsEvent DEF Complete
<1> HIDE DEF s
<1>5. p \in Seq(Events) /\ Begins(Spoken(p), Spoken(s)) /\ Members(p) \subseteq Members(s)
  <2>1. k \in 0 .. Len(s)
    BY <1>2
  <2> QED  BY <1>1, <1>2, <2>1, BeginningTells
<1>6. Follows(t, s, p, TRUE)
  BY <1>2, <1>4, <1>5 DEF Follows
<1>7. /\ r \in Seq(Events) /\ Begins(Spoken(r), Spoken(p))
      /\ Members(r) \cap Results \subseteq Members(p)
  BY <1>5, BrokenOffTells
<1> HIDE DEF r
<1>8. Begins(Spoken(r), Spoken(s))
  <2>1. Spoken(r) \in Seq(Events) /\ Spoken(p) \in Seq(Events) /\ Spoken(s) \in Seq(Events)
    BY <1>2, <1>5, <1>7, SpokenIsText
  <2> QED  BY <1>5, <1>7, <2>1, BeginsFurther
<1>9. Follows(t, s, r, TRUE)
  BY <1>2, <1>3, <1>5, <1>7, <1>8 DEF Follows
<1> QED
  BY <1>6, <1>9 DEF s, r
==============================================================================
