----------------------------- MODULE PetsProofs -----------------------------
(***************************************************************************)
(* Theorems about Pets.                                                    *)
(*                                                                         *)
(* The inductive invariant has six parts.  Typed and Apart say what each   *)
(* kind of pet is made of.  Heard follows each key through the channel:    *)
(* the last word on it, which is the last event about it in the queue or   *)
(* else what the pet holds, says down only for a key that is down or went  *)
(* with its board.  Alarmed keeps the loop's timeout at or before every    *)
(* timer of the sleeping pet, as time takes from both alike.  Follows ties *)
(* the surface to what the pet remembers to have drawn, until a redraw is  *)
(* asked for.  UpToDate carries the surface from the draw through the      *)
(* deadline into sleep, for as long as no timer has run out.               *)
(***************************************************************************)
EXTENDS Pets, FiniteSetTheorems, WellFoundedInduction, SequenceTheorems, TLAPS

\* The three things a pet of the loop is typed by.
CatFrames == {"idle", "left", "right", "both", "sleeping"}
Key == [code : Nat, anim : Animations]
PetType ==
  [cur : Animations, frame : Nat, held : Seq(Key), down : Nat, any : BOOLEAN,
   nextRight : BOOLEAN, lastRight : BOOLEAN, left : Nat, right : Nat,
   last : Seq(Nat) \cup Seq(CatFrames), random : {"left", "right"}, doze : SUBSET Nat,
   hop : Nat, anim : BOOLEAN, speech : SUBSET Nat, said : BOOLEAN]
Event == [type : {"press", "release", "click", "system"}, code : Nat]

Typed ==
  /\ g \in Package /\ pet \in PetType
  /\ keys \in SUBSET Nat /\ board \in BOOLEAN
  /\ reader \in {"none", "live", "dead"} /\ lost \in SUBSET Nat
  /\ queue \in Seq(Event)
  /\ pc \in {"asleep", "woken", "ticked"} /\ wake \in SUBSET Nat /\ dirty \in BOOLEAN
  /\ paused \in BOOLEAN /\ night \in BOOLEAN /\ due \in BOOLEAN
  /\ late \in {"no", "slow", "frozen"} /\ inputs \in Nat

\* What a kind of pet has none of; and a script that owns the keys and hops
\* is known to be animated.
Apart(p) ==
  /\ g.kind # "lua" => p.hop = 0 /\ p.speech = {}
  /\ g.kind # "bongo" => p.doze = {}
  /\ (g.kind = "lua" /\ g.ownKeys /\ p.hop > 0) => p.anim

\* The keys a press-mode sprite holds.
Distinct(s) == \A i, j \in DOMAIN s : s[i].code = s[j].code => i = j
Balanced(p) ==
  /\ Distinct(p.held)
  /\ p.down <= Len(p.held)
  /\ p.down = 0 => ~p.any /\ p.cur \in {Rest, "click"}

\* The last word on a key, in the queue or else in the pet, is that it is
\* down.
Released(c, n) == \E i \in DOMAIN queue : i > n /\ queue[i] = [type |-> "release", code |-> c]
LastDown(c) ==
  \/ c \in HeldCodes(pet) /\ ~Released(c, 0)
  \/ \E n \in DOMAIN queue : /\ queue[n] = [type |-> "press", code |-> c]
                             /\ ~Released(c, n)
Heard ==
  /\ reader = "live" => board
  /\ ~board => keys = {}
  /\ (g.kind = "sprite" /\ g.press) =>
       /\ Balanced(pet) /\ (g.ownKeys => pet.held = <<>>)
       /\ \A c \in Nat : LastDown(c) => c \in lost \/ (c \in keys /\ reader = "live")

\* The timers a pet waits for, and that the loop's timeout covers them.
Pending(p) ==
  CASE g.kind = "bongo"  -> BongoDeadlines(p)
    [] g.kind = "sprite" -> {p.left, p.right} \ {0}
    [] g.kind = "lua"    -> ({p.left, p.right} \ {0}) \cup p.speech
Alarmed ==
  (pc = "asleep" /\ ~paused) =>
    /\ wake = {} => pet.hop = 0 \/ ~g.ownKeys
    /\ \A t \in Pending(pet) : \E w \in wake : w <= t

\* What was drawn is what the pet knows to be drawn, unless a redraw is
\* pending or the pet was drawn while it stood still.
Known(p) == CASE g.kind = "bongo"  -> <<p.last[1], 0, 0, FALSE>>
              [] g.kind = "sprite" -> <<p.cur, p.frame, 0, FALSE>>
              [] g.kind = "lua"    -> <<p.cur, p.frame, p.hop, p.said>>
Follows ==
  /\ dirty => pc = "woken" /\ (paused => late = "frozen")
  /\ (~dirty /\ late # "frozen" /\ (g.kind = "lua" => g.ownPixels)) =>
       /\ drawn = Known(pet)
       /\ g.kind # "bongo" => pet.last = <<pet.frame>>

\* From the tick to the deadline the pet is drawn as it is, and nothing else
\* is due on show.
Fresh(p) ==
  /\ drawn = View(p)
  /\ g.kind # "bongo" => Target(g, p) \subseteq {p.cur}
UpToDate ==
  (pc # "woken" /\ ~paused /\ late = "no" /\ (pc = "asleep" => 0 \notin wake)) => Fresh(pet)

IInv == Typed /\ Apart(pet) /\ Heard /\ Alarmed /\ Follows /\ UpToDate

\* The keys of a sequence of held keys.
Codes(s) == {s[i].code : i \in DOMAIN s}

-----------------------------------------------------------------------------
\* Numbers and sequences.

\* A set of numbers that is not empty has a least one.
LEMMA Smallest ==
  ASSUME NEW S \in SUBSET Nat, S # {}
  PROVE  \E m \in S : \A j \in S : m <= j
<1> DEFINE R == OpToRel(<, Nat)
<1>1. IsWellFoundedOn(R, Nat)
  BY NatLessThanWellFounded
<1> HIDE DEF R
<1>2. PICK m \in S : \A j \in S : ~(<<j, m>> \in R)
  BY <1>1, WFMin
<1>3. \A j \in S : ~(j < m)
  BY <1>2 DEF OpToRel, R
<1> QED
  BY <1>2, <1>3

\* The function that Without is defined by.
Keeps(f, s, c, n) ==
  f = [i \in 0 .. n |-> IF i = 0 THEN <<>>
                        ELSE IF s[i].code = c THEN f[i - 1] ELSE Append(f[i - 1], s[i])]

\* There is such a function, however long the sequence.
LEMMA KeepsExists ==
  ASSUME NEW s, NEW c, NEW n \in Nat
  PROVE  \E f : Keeps(f, s, c, n)
<1> DEFINE bad == {k \in Nat : ~ \E f : Keeps(f, s, c, k)}
<1>1. SUFFICES ASSUME bad # {}
               PROVE  FALSE
  OBVIOUS
<1>2. PICK m \in bad : \A j \in bad : m <= j
  BY <1>1, Smallest
<1>3. m # 0
  <2> DEFINE f == [i \in 0 .. 0 |-> <<>>]
  <2>1. Keeps(f, s, c, 0)
    BY DEF Keeps
  <2> QED
    BY <1>2, <2>1
<1>4. m \in Nat /\ m - 1 \in Nat /\ m - 1 \notin bad
  BY <1>2, <1>3
<1>5. PICK f : Keeps(f, s, c, m - 1)
  BY <1>4
<1> DEFINE last == IF s[m].code = c THEN f[m - 1] ELSE Append(f[m - 1], s[m])
           h    == [i \in 0 .. m |-> IF i = m THEN last ELSE f[i]]
<1> HIDE DEF last
<1>6. \A i \in 0 .. m - 1 : f[i] = IF i = 0 THEN <<>>
                                   ELSE IF s[i].code = c THEN f[i - 1] ELSE Append(f[i - 1], s[i])
  BY <1>5 DEF Keeps
<1>7. /\ DOMAIN h = 0 .. m /\ h[m] = last /\ h = [i \in 0 .. m |-> h[i]]
      /\ \A i \in 0 .. m - 1 : h[i] = f[i]
  BY <1>4
<1> HIDE DEF h
<1>8. ASSUME NEW i \in 0 .. m
      PROVE  h[i] = IF i = 0 THEN <<>>
                    ELSE IF s[i].code = c THEN h[i - 1] ELSE Append(h[i - 1], s[i])
  <2>1. CASE i = m
    <3>1. m - 1 \in 0 .. m - 1
      BY <1>3, <1>4
    <3>2. h[m - 1] = f[m - 1]
      BY <1>7, <3>1
    <3>3. h[m] = last
      BY <1>7
    <3> QED
      BY <1>3, <2>1, <3>2, <3>3 DEF last
  <2>2. CASE i # m
    <3>1. i \in 0 .. m - 1 /\ (i # 0 => i - 1 \in 0 .. m - 1)
      BY <1>4, <2>2
    <3>2. h[i] = f[i] /\ (i # 0 => h[i - 1] = f[i - 1])
      BY <1>7, <3>1
    <3> QED
      BY <1>6, <3>1, <3>2
  <2> QED
    BY <2>1, <2>2
<1>9. Keeps(h, s, c, m)
  BY <1>7, <1>8 DEF Keeps
<1> QED
  BY <1>2, <1>9

\* Without is its last value.
LEMMA WithoutKeeps ==
  ASSUME NEW s, NEW c, Len(s) \in Nat
  PROVE  \E f : Keeps(f, s, c, Len(s)) /\ Without(s, c) = f[Len(s)]
<1> DEFINE F == CHOOSE f :
             f = [i \in 0 .. Len(s) |-> IF i = 0 THEN <<>>
                    ELSE IF s[i].code = c THEN f[i - 1] ELSE Append(f[i - 1], s[i])]
<1>1. Without(s, c) = F[Len(s)]
  BY DEF Without
<1>2. \E f : f = [i \in 0 .. Len(s) |-> IF i = 0 THEN <<>>
                    ELSE IF s[i].code = c THEN f[i - 1] ELSE Append(f[i - 1], s[i])]
  <2>1. \E f : Keeps(f, s, c, Len(s))
    BY KeepsExists
  <2> QED
    BY <2>1, Zenon DEF Keeps
<1>3. F = [i \in 0 .. Len(s) |-> IF i = 0 THEN <<>>
             ELSE IF s[i].code = c THEN F[i - 1] ELSE Append(F[i - 1], s[i])]
  BY <1>2
<1> HIDE DEF F
<1> QED
  BY <1>1, <1>3 DEF Keeps

\* Two of them agree where their sequences do.
LEMMA KeepsAgree ==
  ASSUME NEW s, NEW t, NEW c, NEW n \in Nat, NEW k \in Nat, n <= k,
         \A i \in 1 .. n : s[i] = t[i],
         NEW f, Keeps(f, s, c, n), NEW h, Keeps(h, t, c, k)
  PROVE  f[n] = h[n]
<1> DEFINE bad == {i \in 0 .. n : f[i] # h[i]}
<1>1. SUFFICES ASSUME bad # {}
               PROVE  FALSE
  OBVIOUS
<1>0. bad \subseteq Nat
  OBVIOUS
<1>2. PICK m \in bad : \A j \in bad : m <= j
  BY <1>0, <1>1, Smallest
<1> HIDE DEF bad
<1>7. m \in 0 .. n /\ m \in 0 .. k /\ m \in Nat
  BY <1>2 DEF bad
<1>3. /\ f[m] = IF m = 0 THEN <<>>
                ELSE IF s[m].code = c THEN f[m - 1] ELSE Append(f[m - 1], s[m])
      /\ h[m] = IF m = 0 THEN <<>>
                ELSE IF t[m].code = c THEN h[m - 1] ELSE Append(h[m - 1], t[m])
  BY <1>7 DEF Keeps
<1>4. CASE m = 0
  BY <1>2, <1>3, <1>4 DEF bad
<1>5. CASE m # 0
  <2>1. m - 1 \in 0 .. n /\ ~(m <= m - 1) /\ s[m] = t[m]
    BY <1>5, <1>7
  <2>2. f[m - 1] = h[m - 1]
    BY <1>2, <2>1 DEF bad
  <2> QED
    BY <1>2, <1>3, <1>5, <2>1, <2>2 DEF bad
<1> QED
  BY <1>4, <1>5

\* A sequence is empty, or a shorter one with a last element.
LEMMA LastOff ==
  ASSUME NEW T, NEW s \in Seq(T), Len(s) # 0
  PROVE  \E u \in Seq(T), x \in T : s = Append(u, x) /\ Len(u) = Len(s) - 1
<1> DEFINE n == Len(s)
           u == [i \in 1 .. n - 1 |-> s[i]]
           x == s[n]
<1>1. n \in Nat /\ n - 1 \in Nat /\ n \in DOMAIN s /\ x \in T /\ s \in [1 .. n -> T]
  OBVIOUS
<1>2. u \in Seq(T) /\ Len(u) = n - 1 /\ \A i \in 1 .. n - 1 : u[i] = s[i]
  BY <1>1
<1>0. Len(s) = n /\ x = s[n]
  OBVIOUS
<1> HIDE DEF u, n, x
<1>6. (n - 1) + 1 = n
  BY <1>1
<1>3. Append(u, x) \in Seq(T) /\ Len(Append(u, x)) = (n - 1) + 1
  BY <1>1, <1>2
<1>4. ASSUME NEW i \in 1 .. n
      PROVE  Append(u, x)[i] = s[i]
  <2>1. CASE i = n
    <3>1. Append(u, x)[Len(u) + 1] = x
      BY <1>1, <1>2
    <3> QED
      BY <1>0, <1>2, <1>6, <2>1, <3>1
  <2>2. CASE i # n
    <3>1. i \in 1 .. n - 1
      BY <1>1, <2>2
    <3>2. Append(u, x)[i] = u[i]
      BY <1>1, <1>2, <3>1
    <3> QED
      BY <1>2, <3>1, <3>2
  <2> QED
    BY <2>1, <2>2
<1>5. s = Append(u, x)
  BY <1>0, <1>3, <1>4, <1>6, SeqEqual
<1> QED
  BY <1>0, <1>1, <1>2, <1>5

\* What is left of no keys, and of one key more.
LEMMA WithoutEmpty ==
  ASSUME NEW c
  PROVE  Without(<<>>, c) = <<>>
<1>1. Len(<<>>) = 0
  OBVIOUS
<1>2. PICK f : Keeps(f, <<>>, c, 0) /\ Without(<<>>, c) = f[0]
  BY <1>1, WithoutKeeps
<1> QED
  BY <1>2 DEF Keeps

LEMMA WithoutAppend ==
  ASSUME NEW T, NEW s \in Seq(T), NEW x \in T, NEW c
  PROVE  Without(Append(s, x), c) = IF x.code = c THEN Without(s, c) ELSE Append(Without(s, c), x)
<1> DEFINE t == Append(s, x)
           n == Len(s)
<1>1. /\ n \in Nat /\ Len(t) = n + 1 /\ t[n + 1] = x /\ n <= n + 1
      /\ n + 1 \in Nat /\ (n + 1) - 1 = n /\ n + 1 # 0 /\ n + 1 \in 0 .. n + 1
      /\ \A i \in 1 .. n : s[i] = t[i]
  OBVIOUS
<1>2. PICK f : Keeps(f, s, c, n) /\ Without(s, c) = f[n]
  BY <1>1, WithoutKeeps
<1> HIDE DEF t, n
<1>3. PICK h : Keeps(h, t, c, n + 1) /\ Without(t, c) = h[n + 1]
  BY <1>1, WithoutKeeps
<1>4. f[n] = h[n]
  BY <1>1, <1>2, <1>3, KeepsAgree
<1>5. h[n + 1] = IF t[n + 1].code = c THEN h[(n + 1) - 1] ELSE Append(h[(n + 1) - 1], t[n + 1])
  BY <1>1, <1>3 DEF Keeps
<1>6. Without(t, c) = IF x.code = c THEN Without(s, c) ELSE Append(Without(s, c), x)
  BY <1>1, <1>2, <1>3, <1>4, <1>5
<1> QED
  BY <1>6 DEF t

\* One key more in a sequence of held keys.
LEMMA CodesAppend ==
  ASSUME NEW T, NEW s \in Seq(T), NEW x \in T
  PROVE  /\ Append(s, x) \in Seq(T) /\ Len(Append(s, x)) = Len(s) + 1
         /\ Codes(Append(s, x)) = Codes(s) \cup {x.code}
         /\ Distinct(Append(s, x)) <=> Distinct(s) /\ x.code \notin Codes(s)
<1> DEFINE t == Append(s, x)
           n == Len(s)
<1>1. /\ n \in Nat /\ DOMAIN s = 1 .. n /\ DOMAIN t = 1 .. n + 1 /\ t[n + 1] = x
      /\ t \in Seq(T) /\ Len(t) = n + 1 /\ \A i \in 1 .. n : t[i] = s[i]
  OBVIOUS
<1> HIDE DEF t, n
<1>0. n + 1 \in 1 .. n + 1 /\ \A i \in 1 .. n : i \in 1 .. n + 1 /\ i # n + 1
  BY <1>1
<1>7. \A i \in 1 .. n + 1 : i = n + 1 \/ i \in 1 .. n
  BY <1>1
<1>2. Codes(t) = Codes(s) \cup {x.code}
  <2>1. ASSUME NEW i \in 1 .. n + 1
        PROVE  t[i].code \in Codes(s) \cup {x.code}
    BY <1>1, <1>7 DEF Codes
  <2>2. ASSUME NEW i \in 1 .. n
        PROVE  s[i].code \in Codes(t)
    BY <1>0, <1>1 DEF Codes
  <2>3. x.code \in Codes(t)
    BY <1>0, <1>1 DEF Codes
  <2>4. Codes(t) \subseteq Codes(s) \cup {x.code}
    BY <1>1, <2>1 DEF Codes
  <2>5. Codes(s) \subseteq Codes(t)
    BY <1>1, <2>2 DEF Codes
  <2> QED
    BY <2>3, <2>4, <2>5
<1>3. ASSUME Distinct(t)
      PROVE  Distinct(s) /\ x.code \notin Codes(s)
  <2>1. \A i, j \in 1 .. n + 1 : t[i].code = t[j].code => i = j
    BY <1>1, <1>3 DEF Distinct
  <2>4. Distinct(s)
    BY <1>0, <1>1, <2>1 DEF Distinct
  <2>5. ASSUME NEW i \in 1 .. n
        PROVE  s[i].code # x.code
    BY <1>0, <1>1, <2>1
  <2> QED
    BY <1>1, <2>4, <2>5 DEF Codes
<1>4. ASSUME Distinct(s), x.code \notin Codes(s)
      PROVE  Distinct(t)
  <2>1. \A i \in 1 .. n : s[i].code # x.code
    BY <1>1, <1>4 DEF Codes
  <2>2. \A i, j \in 1 .. n : s[i].code = s[j].code => i = j
    BY <1>1, <1>4 DEF Distinct
  <2>4. ASSUME NEW i \in 1 .. n + 1, NEW j \in 1 .. n + 1, t[i].code = t[j].code
        PROVE  i = j
    BY <1>1, <1>7, <2>1, <2>2, <2>4
  <2> QED
    BY <1>1, <2>4 DEF Distinct
<1> QED
  BY <1>1, <1>2, <1>3, <1>4 DEF t, n

\* What a release leaves of the keys held: the others, each once if each was
\* there once, and at most one key less.
Rid(s, T, c) ==
  LET r == Without(s, c)
  IN  /\ r \in Seq(T)
      /\ Codes(r) = Codes(s) \ {c}
      /\ c \notin Codes(s) => r = s
      /\ Distinct(s) => Distinct(r) /\ Len(r) >= Len(s) - 1

\* One key more, and it still holds; so it holds of every sequence.
LEMMA RidStep ==
  ASSUME NEW T, NEW s \in Seq(T), NEW x \in T, NEW c, Rid(s, T, c)
  PROVE  Rid(Append(s, x), T, c)
<1> DEFINE t == Append(s, x)
           r == Without(s, c)
<1> SUFFICES Rid(t, T, c)
  OBVIOUS
<1>1. /\ r \in Seq(T) /\ Codes(r) = Codes(s) \ {c} /\ (c \notin Codes(s) => r = s)
      /\ Distinct(s) => Distinct(r) /\ Len(r) >= Len(s) - 1
  BY DEF Rid
<1>2. /\ t \in Seq(T) /\ Len(t) = Len(s) + 1 /\ Codes(t) = Codes(s) \cup {x.code}
      /\ Distinct(t) <=> Distinct(s) /\ x.code \notin Codes(s)
  BY CodesAppend
<1>3. Without(t, c) = IF x.code = c THEN r ELSE Append(r, x)
  BY WithoutAppend
<1>4. t = Append(s, x)
  OBVIOUS
<1>0. Len(s) \in Nat /\ Len(r) \in Nat
  BY <1>1
<1> HIDE DEF r, t
<1>5. CASE x.code = c
  <2>1. Without(t, c) = r
    BY <1>3, <1>5
  <2>2. Codes(r) = Codes(t) \ {c} /\ c \in Codes(t)
    BY <1>1, <1>2, <1>5
  <2>3. ASSUME Distinct(t)
        PROVE  Distinct(r) /\ Len(r) >= Len(t) - 1
    <3>1. Distinct(s) /\ r = s
      BY <1>1, <1>2, <1>5, <2>3
    <3> QED
      BY <1>0, <1>2, <3>1
  <2> QED
    BY <1>1, <2>1, <2>2, <2>3 DEF Rid
<1>6. CASE x.code # c
  <2>1. Without(t, c) = Append(r, x)
    BY <1>3, <1>6
  <2>2. /\ Append(r, x) \in Seq(T) /\ Len(Append(r, x)) = Len(r) + 1
        /\ Codes(Append(r, x)) = Codes(r) \cup {x.code}
        /\ Distinct(Append(r, x)) <=> Distinct(r) /\ x.code \notin Codes(r)
    BY <1>1, CodesAppend
  <2>3. Codes(Append(r, x)) = Codes(t) \ {c}
    BY <1>1, <1>2, <1>6, <2>2
  <2>4. c \notin Codes(t) => Append(r, x) = t
    BY <1>1, <1>2, <1>4
  <2>5. ASSUME Distinct(t)
        PROVE  Distinct(Append(r, x)) /\ Len(Append(r, x)) >= Len(t) - 1
    <3>1. Distinct(r) /\ Len(r) >= Len(s) - 1 /\ x.code \notin Codes(r)
      BY <1>1, <1>2, <2>5
    <3>2. Len(Append(r, x)) >= Len(t) - 1
      BY <1>0, <1>2, <2>2, <3>1
    <3> QED
      BY <2>2, <3>1, <3>2
  <2> QED
    BY <2>1, <2>2, <2>3, <2>4, <2>5 DEF Rid
<1> QED
  BY <1>5, <1>6

LEMMA WithoutRids ==
  ASSUME NEW T, NEW s \in Seq(T), NEW c
  PROVE  Rid(s, T, c)
<1> DEFINE Bad(n) == \E t \in Seq(T) : Len(t) = n /\ ~Rid(t, T, c)
           bad == {n \in Nat : Bad(n)}
<1>1. SUFFICES ASSUME bad # {}
               PROVE  FALSE
  <2>1. Len(s) \in Nat
    OBVIOUS
  <2> QED
    BY <2>1
<1>2. PICK m \in bad : \A j \in bad : m <= j
  BY <1>1, Smallest
<1>3. PICK t \in Seq(T) : Len(t) = m /\ ~Rid(t, T, c)
  BY <1>2
<1>6. m \in Nat /\ \A k \in Nat : k < m => ~Bad(k)
  BY <1>2
<1> HIDE DEF Bad, bad
<1>4. CASE m = 0
  <2>1. t = <<>>
    BY <1>3, <1>4
  <2>2. Rid(<<>>, T, c)
    <3>1. Without(<<>>, c) = <<>> /\ DOMAIN <<>> = {} /\ Len(<<>>) = 0
      BY WithoutEmpty
    <3>2. Codes(<<>>) = {} /\ Distinct(<<>>) /\ <<>> \in Seq(T)
      BY <3>1 DEF Codes, Distinct
    <3>3. Len(<<>>) >= Len(<<>>) - 1
      BY <3>1
    <3>4. Codes(<<>>) = Codes(<<>>) \ {c}
      BY <3>2
    <3> QED
      BY <3>1, <3>2, <3>3, <3>4, Zenon DEF Rid
  <2> QED
    BY <1>3, <2>1, <2>2
<1>5. CASE m # 0
  <2>1. PICK u \in Seq(T), x \in T : t = Append(u, x) /\ Len(u) = m - 1
    BY <1>3, <1>5, LastOff, SMTT(20)
  <2>2. ~Bad(m - 1)
    BY <1>5, <1>6
  <2>3. Rid(u, T, c)
    BY <2>1, <2>2 DEF Bad
  <2> QED
    BY <1>3, <2>1, <2>3, RidStep
<1> QED
  BY <1>4, <1>5

\* A sequence whose keys differ holds as many of them as it is long.
LEMMA DistinctCount ==
  ASSUME NEW T, NEW s \in Seq(T), Distinct(s)
  PROVE  Cardinality(Codes(s)) = Len(s)
<1> DEFINE f == [i \in 1 .. Len(s) |-> s[i].code]
<1>1. Len(s) \in Nat /\ DOMAIN s = 1 .. Len(s)
  OBVIOUS
<1>2. f \in Bijection(1 .. Len(s), Codes(s))
  <2>1. f \in [1 .. Len(s) -> Codes(s)]
    BY <1>1 DEF Codes
  <2>2. \A i, j \in 1 .. Len(s) : f[i] = f[j] => i = j
    BY <1>1 DEF Distinct
  <2>3. \A x \in Codes(s) : \E i \in 1 .. Len(s) : f[i] = x
    BY <1>1 DEF Codes
  <2> HIDE DEF f
  <2>4. f \in Injection(1 .. Len(s), Codes(s))
    BY <2>1, <2>2 DEF Injection, IsInjective
  <2>5. f \in Surjection(1 .. Len(s), Codes(s))
    BY <2>1, <2>3 DEF Surjection
  <2> QED
    BY <2>4, <2>5 DEF Bijection
<1>3. IsFiniteSet(1 .. Len(s)) /\ Cardinality(1 .. Len(s)) = Len(s)
  <2> DEFINE n == Len(s)
  <2>1. n \in Nat
    BY <1>1
  <2> HIDE DEF n, f
  <2>2. IsFiniteSet(1 .. n) /\ Cardinality(1 .. n) = IF 1 > n THEN 0 ELSE n - 1 + 1
    BY <2>1, FS_Interval
  <2>3. (IF 1 > n THEN 0 ELSE n - 1 + 1) = n
    BY <2>1
  <2>4. IsFiniteSet(1 .. n) /\ Cardinality(1 .. n) = n
    BY <2>2, <2>3
  <2> QED
    BY <2>4 DEF n
<1>4. ExistsBijection(1 .. Len(s), Codes(s))
  BY <1>2, Zenon DEF ExistsBijection
<1> QED
  BY <1>3, <1>4, FS_Bijection

-----------------------------------------------------------------------------
\* The sprite.  What an event may do to the pet beside the keys it holds: the
\* fields of the cat and of the script stay, and the frame changes with the
\* animation only.

Moves(p, q) ==
  /\ q \in PetType
  /\ q.last = p.last /\ q.random = p.random /\ q.doze = p.doze /\ q.hop = p.hop
  /\ q.anim = p.anim /\ q.speech = p.speech /\ q.said = p.said
  /\ q.cur = p.cur => q.frame = p.frame

\* The same keys are held.
Holds(p, q) == q.held = p.held /\ q.down = p.down /\ q.any = p.any

\* Showing an animation.
LEMMA PlayMoves ==
  ASSUME NEW p \in PetType, NEW a \in Animations
  PROVE  /\ Moves(p, Play(p, a)) /\ Holds(p, Play(p, a)) /\ Play(p, a).cur = a
         /\ Play(p, a).left = p.left /\ Play(p, a).right = p.right
<1>1. CASE p.cur = a
  BY <1>1 DEF Play, Moves, Holds
<1>2. CASE p.cur # a
  BY <1>2 DEF Play, Moves, Holds, PetType
<1> QED
  BY <1>1, <1>2

LEMMA PlayAnyMoves ==
  ASSUME NEW p \in PetType, NEW as \in SUBSET Animations
  PROVE  /\ Moves(p, PlayAny(p, as)) /\ Holds(p, PlayAny(p, as))
         /\ PlayAny(p, as).cur \in IF as = {} THEN {p.cur} ELSE as
         /\ PlayAny(p, as).left = p.left /\ PlayAny(p, as).right = p.right
         /\ as = {} => PlayAny(p, as) = p
<1>1. CASE as = {}
  BY <1>1 DEF PlayAny, Moves, Holds
<1>2. CASE as # {}
  <2>1. PICK a \in as : a = CHOOSE x \in as : TRUE
    BY <1>2
  <2>2. PlayAny(p, as) = Play(p, a)
    BY <1>2, <2>1 DEF PlayAny
  <2>3. a \in Animations
    OBVIOUS
  <2>4. /\ Moves(p, Play(p, a)) /\ Holds(p, Play(p, a)) /\ Play(p, a).cur = a
        /\ Play(p, a).left = p.left /\ Play(p, a).right = p.right
    BY <2>3, PlayMoves
  <2> QED
    BY <1>2, <2>2, <2>4
<1> QED
  BY <1>1, <1>2

\* A pose is an animation, and asking for it moves the hands only.
LEMMA PoseForMoves ==
  ASSUME NEW k \in Package, NEW p \in PetType, NEW paw \in {"left", "right"},
         NEW fresh
  PROVE  LET t == PoseFor(k, p, paw, fresh)
         IN  /\ t.pose \in SUBSET Animations
             /\ Moves(p, t.pet) /\ Holds(p, t.pet) /\ t.pet.cur = p.cur
<1>0. \A b \in BOOLEAN : Side(b) \in {"left", "right"}
  BY DEF Side
<1>1. \A w \in {"left", "right"} : Reaction(k, w) \in SUBSET Animations
  BY DEF Reaction, Package, Animations
<1>2. CASE p.down = 2
  <2> DEFINE as == IF Takes(p, paw) THEN Reaction(k, paw) ELSE {}
             q  == IF as = {} THEN p ELSE [p EXCEPT !.lastRight = (paw = "right")]
  <2>1. PoseFor(k, p, paw, fresh) = [pose |-> as, pet |-> q]
    BY <1>2 DEF PoseFor
  <2>2. as \in SUBSET Animations
    BY <1>1
  <2> HIDE DEF as
  <2>3. Moves(p, q) /\ Holds(p, q) /\ q.cur = p.cur
    BY ZenonT(30) DEF Moves, Holds, PetType
  <2> HIDE DEF q
  <2>4. PoseFor(k, p, paw, fresh).pose = as /\ PoseFor(k, p, paw, fresh).pet = q
    BY <2>1
  <2> QED
    BY <2>2, <2>3, <2>4, Zenon
<1>3. CASE p.down # 2
  <2> DEFINE turn == k.alternate /\ fresh
             hand == IF k.force THEN IF turn THEN p.nextRight ELSE p.lastRight
                     ELSE paw = "right"
             as   == Reaction(k, IF k.force THEN Side(hand) ELSE paw)
             q    == [p EXCEPT !.nextRight = IF k.force /\ turn THEN ~hand ELSE @,
                               !.lastRight = IF k.force \/ fresh THEN hand ELSE @]
  <2>1. PoseFor(k, p, paw, fresh) = [pose |-> as, pet |-> q]
    BY <1>3 DEF PoseFor
  <2>2. hand \in BOOLEAN
    BY DEF PetType
  <2>3. as \in SUBSET Animations
    BY <1>0, <1>1, <2>2
  <2> HIDE DEF hand, turn, as
  <2> DEFINE next == IF k.force /\ turn THEN ~hand ELSE p.nextRight
             last == IF k.force \/ fresh THEN hand ELSE p.lastRight
  <2>6. next \in BOOLEAN /\ last \in BOOLEAN
    BY <2>2 DEF PetType
  <2>7. q = [p EXCEPT !.nextRight = next, !.lastRight = last]
    OBVIOUS
  <2> HIDE DEF next, last, q
  <2>4. Moves(p, q) /\ Holds(p, q) /\ q.cur = p.cur
    BY <2>6, <2>7 DEF Moves, Holds, PetType
  <2>5. PoseFor(k, p, paw, fresh).pose = as /\ PoseFor(k, p, paw, fresh).pet = q
    BY <2>1
  <2> QED
    BY <2>3, <2>4, <2>5, Zenon
<1> QED
  BY <1>2, <1>3

\* A paw is a side.
LEMMA PawIsSide ==
  ASSUME NEW c
  PROVE  PawFor(c) \in {"left", "right"}
BY DEF PawFor, Side

\* What holding a key does to the bookkeeping.
LEMMA HoldMoves ==
  ASSUME NEW p \in PetType, NEW c \in Nat, NEW a \in Animations
  PROVE  /\ Moves(p, Hold(p, c, a)) /\ Hold(p, c, a).cur = p.cur
         /\ Hold(p, c, a).held = Append(p.held, [code |-> c, anim |-> a])
         /\ Hold(p, c, a).down = p.down /\ Hold(p, c, a).any = p.any
<1>1. p.held \in Seq(Key) /\ [code |-> c, anim |-> a] \in Key
  BY DEF PetType, Key
<1> DEFINE h == Append(p.held, [code |-> c, anim |-> a])
<1>2. h \in Seq(Key)
  BY <1>1
<1>3. Hold(p, c, a) = [p EXCEPT !.held = h]
  BY DEF Hold
<1> HIDE DEF h
<1>4. Moves(p, Hold(p, c, a)) /\ Hold(p, c, a).cur = p.cur /\ Hold(p, c, a).held = h
      /\ Hold(p, c, a).down = p.down /\ Hold(p, c, a).any = p.any
  BY <1>2, <1>3 DEF Moves, PetType
<1> QED
  BY <1>4 DEF h

\* Composition.
LEMMA MovesTrans ==
  ASSUME NEW p, NEW q, NEW r, Moves(p, q), Moves(q, r), q.cur = p.cur \/ r.cur = q.cur
  PROVE  Moves(p, r)
BY DEF Moves

\* A press is held once, and counted.
Pressed(p, q, c) ==
  \/ c \in Codes(p.held) /\ q = p
  \/ /\ c \notin Codes(p.held)
     /\ q.down = p.down + 1
     /\ \E a \in Animations : q.held = Append(p.held, [code |-> c, anim |-> a])

\* A key press: nothing, or one key more, held and counted.
LEMMA PressKeyPresses ==
  ASSUME NEW k \in Package, NEW p \in PetType, NEW c \in Nat
  PROVE  Moves(p, PressKey(k, p, c)) /\ Pressed(p, PressKey(k, p, c), c)
<1>0. Codes(p.held) = HeldCodes(p)
  BY DEF Codes, HeldCodes
<1>1. CASE c \in HeldCodes(p)
  <2>1. PressKey(k, p, c) = p
    BY <1>1 DEF PressKey
  <2> QED
    BY <1>0, <1>1, <2>1 DEF Moves, Pressed
<1>2. CASE c \notin HeldCodes(p) /\ c \in Hotkeys
  <2> DEFINE q == [p EXCEPT !.down = @ + 1, !.any = TRUE]
             h == Hold(q, c, "hot")
  <2>1. PressKey(k, p, c) = Play(h, "hot")
    BY <1>2 DEF PressKey
  <2>0. p.down + 1 \in Nat
    BY DEF PetType
  <2>2. Moves(p, q) /\ q.cur = p.cur /\ q.held = p.held /\ q.down = p.down + 1
    BY <2>0 DEF Moves, PetType
  <2>3. "hot" \in Animations
    BY DEF Animations
  <2> HIDE DEF q
  <2>9. q \in PetType
    BY <2>2 DEF Moves
  <2>4. /\ Moves(q, h) /\ h.cur = q.cur /\ h.down = q.down
        /\ h.held = Append(q.held, [code |-> c, anim |-> "hot"])
    BY <2>3, <2>9, HoldMoves
  <2> HIDE DEF h
  <2>8. h \in PetType
    BY <2>4 DEF Moves
  <2>5. Moves(h, Play(h, "hot")) /\ Holds(h, Play(h, "hot"))
    BY <2>3, <2>8, PlayMoves
  <2>6. Moves(p, h)
    BY <2>2, <2>4, MovesTrans
  <2>7. Moves(p, Play(h, "hot"))
    BY <2>2, <2>4, <2>5, <2>6, MovesTrans
  <2> QED
    BY <1>0, <1>2, <2>1, <2>2, <2>3, <2>4, <2>5, <2>7 DEF Pressed, Holds
<1>3. CASE c \notin HeldCodes(p) /\ c \notin Hotkeys
  <2> DEFINE q == [p EXCEPT !.left = 0, !.right = 0, !.down = @ + 1, !.any = TRUE]
             t == PoseFor(k, q, PawFor(c), ~p.any)
             r == PlayAny(t.pet, t.pose)
  <2>1. PressKey(k, p, c) = IF q.down > 2 THEN Hold(q, c, q.cur) ELSE Hold(r, c, r.cur)
    BY <1>3 DEF PressKey
  <2>0. p.down + 1 \in Nat
    BY DEF PetType
  <2>2. Moves(p, q) /\ q.cur = p.cur /\ q.held = p.held /\ q.down = p.down + 1
    BY <2>0 DEF Moves, PetType
  <2>4. \A x \in PetType : x.cur \in Animations
    BY DEF PetType
  <2> HIDE DEF q
  <2>5. CASE q.down > 2
    <3>0. q \in PetType /\ q.cur \in Animations
      BY <2>2, <2>4 DEF Moves
    <3>1. /\ Moves(q, Hold(q, c, q.cur)) /\ Hold(q, c, q.cur).cur = q.cur
          /\ Hold(q, c, q.cur).down = q.down
          /\ Hold(q, c, q.cur).held = Append(q.held, [code |-> c, anim |-> q.cur])
      BY <3>0, HoldMoves
    <3>2. Moves(p, Hold(q, c, q.cur))
      BY <2>2, <3>1, MovesTrans
    <3> QED
      BY <1>0, <1>3, <2>1, <2>2, <2>5, <3>0, <3>1, <3>2 DEF Pressed
  <2>6. CASE ~(q.down > 2)
    <3>1. /\ t.pose \in SUBSET Animations
          /\ Moves(q, t.pet) /\ Holds(q, t.pet) /\ t.pet.cur = q.cur
      BY <2>2, PawIsSide, PoseForMoves DEF Moves
    <3> HIDE DEF t
    <3>9. t.pet \in PetType
      BY <3>1 DEF Moves
    <3>2. Moves(t.pet, r) /\ Holds(t.pet, r)
      BY <3>1, <3>9, PlayAnyMoves
    <3> HIDE DEF r
    <3>3. Moves(p, t.pet)
      BY <2>2, <3>1, MovesTrans
    <3>4. Moves(p, r)
      BY <2>2, <3>1, <3>2, <3>3, MovesTrans
    <3>5. r \in PetType /\ r.cur \in Animations
      BY <2>4, <3>2 DEF Moves
    <3>6. /\ Moves(r, Hold(r, c, r.cur)) /\ Hold(r, c, r.cur).cur = r.cur
          /\ Hold(r, c, r.cur).down = r.down
          /\ Hold(r, c, r.cur).held = Append(r.held, [code |-> c, anim |-> r.cur])
      BY <3>5, HoldMoves
    <3>7. Moves(p, Hold(r, c, r.cur))
      BY <3>4, <3>6, MovesTrans
    <3>8. r.held = p.held /\ r.down = p.down + 1
      BY <2>2, <3>1, <3>2 DEF Holds
    <3>10. PressKey(k, p, c) = Hold(r, c, r.cur)
      BY <2>1, <2>6
    <3> QED
      BY <1>0, <1>3, <3>5, <3>6, <3>7, <3>8, <3>10 DEF Pressed
  <2> QED
    BY <2>5, <2>6
<1> QED
  BY <1>1, <1>2, <1>3

\* A press keeps the bookkeeping in order.
LEMMA PressBalances ==
  ASSUME NEW p \in PetType, NEW q \in PetType, NEW c \in Nat, Pressed(p, q, c)
  PROVE  /\ Balanced(p) => Balanced(q)
         /\ Codes(q.held) \subseteq Codes(p.held) \cup {c}
<1>1. CASE q = p
  BY <1>1
<1>2. CASE q # p
  <2>1. /\ c \notin Codes(p.held) /\ q.down = p.down + 1
        /\ \E a \in Animations : q.held = Append(p.held, [code |-> c, anim |-> a])
    BY <1>2 DEF Pressed
  <2>2. PICK a \in Animations : q.held = Append(p.held, [code |-> c, anim |-> a])
    BY <2>1
  <2>3. p.held \in Seq(Key) /\ [code |-> c, anim |-> a] \in Key /\ p.down \in Nat
    BY DEF PetType, Key
  <2>4. /\ Len(q.held) = Len(p.held) + 1 /\ Codes(q.held) = Codes(p.held) \cup {c}
        /\ Distinct(q.held) <=> Distinct(p.held) /\ c \notin Codes(p.held)
    BY <2>2, <2>3, CodesAppend
  <2>5. Len(p.held) \in Nat
    BY <2>3
  <2>6. p.down <= Len(p.held) => q.down <= Len(q.held)
    BY <2>1, <2>3, <2>4, <2>5
  <2>7. q.down # 0
    BY <2>1, <2>3
  <2> QED
    BY <2>1, <2>4, <2>6, <2>7 DEF Balanced
<1> QED
  BY <1>1, <1>2

\* What counting down does to a number.
LEMMA CappedFacts ==
  ASSUME NEW n \in Nat
  PROVE  /\ Capped(n) \in Nat /\ Capped(n) <= n
         /\ \A m \in Nat : m >= n - 1 => Capped(n) <= m
         /\ Capped(n) > 0 => n > 1 /\ Capped(n) = n - 1
         /\ n > 1 => Capped(n) > 0
         /\ n = 0 => Capped(n) = 0
         /\ \A m \in Nat : m <= n => Capped(m) <= Capped(n)
BY DEF Capped

\* A release forgets its key and no other, and a pet that counts no key any
\* more is at rest.
LEMMA ReleaseKeyReleases ==
  ASSUME NEW p \in PetType, NEW c \in Nat
  PROVE  LET q == ReleaseKey(p, c)
         IN  /\ Moves(p, q)
             /\ Balanced(p) => Balanced(q)
             /\ Codes(q.held) = Codes(p.held) \ {c}
<1>0. Codes(p.held) = HeldCodes(p)
  BY DEF Codes, HeldCodes
<1>1. CASE p.down = 0 /\ c \notin HeldCodes(p)
  <2>1. ReleaseKey(p, c) = p
    BY <1>1 DEF ReleaseKey
  <2>2. Moves(p, p)
    BY DEF Moves
  <2> QED
    BY <1>0, <1>1, <2>1, <2>2
<1>2. CASE ~(p.down = 0 /\ c \notin HeldCodes(p))
  <2> DEFINE h == Without(p.held, c)
             n == Capped(p.down)
             q == [p EXCEPT !.held = h, !.down = n]
             z == [q EXCEPT !.any = FALSE]
             r == ReleaseKey(p, c)
  <2>1. r = CASE q.down = 0 -> Play(z, Rest)
              [] q.down > 0 /\ c \in Hotkeys /\ q.held # <<>> ->
                   Play(q, q.held[Len(q.held)].anim)
              [] OTHER -> q
    BY <1>2 DEF ReleaseKey
  <2>2. p.held \in Seq(Key) /\ p.down \in Nat
    BY DEF PetType
  <2>3. Rid(p.held, Key, c)
    BY <2>2, WithoutRids
  <2>4. n \in Nat /\ \A m \in Nat : m >= p.down - 1 => n <= m
    BY <2>2, CappedFacts
  <2>5. /\ h \in Seq(Key) /\ Codes(h) = Codes(p.held) \ {c}
        /\ Distinct(p.held) => Distinct(h) /\ Len(h) >= Len(p.held) - 1
    BY <2>3 DEF Rid
  <2>6. Balanced(p) => Distinct(h) /\ n <= Len(h)
    <3> SUFFICES ASSUME Balanced(p)
                 PROVE  Distinct(h) /\ n <= Len(h)
      OBVIOUS
    <3>1. Distinct(h) /\ Len(h) >= Len(p.held) - 1 /\ p.down <= Len(p.held)
      BY <2>5 DEF Balanced
    <3>2. Len(h) \in Nat /\ Len(p.held) \in Nat
      BY <2>2, <2>5
    <3>3. Len(h) >= p.down - 1
      BY <2>2, <3>1, <3>2
    <3> QED
      BY <2>4, <3>1, <3>2, <3>3
  <2> HIDE DEF h, n, r
  <2>7. Moves(p, q) /\ q.cur = p.cur /\ q.held = h /\ q.down = n
    BY <2>4, <2>5 DEF Moves, PetType
  <2>8. Moves(p, z) /\ z.cur = p.cur /\ z.held = h /\ z.down = n /\ z.any = FALSE
    BY <2>4, <2>5 DEF Moves, PetType
  <2> HIDE DEF q, z
  <2>9. Rest \in Animations
    BY DEF Animations
  <2>10. CASE n = 0
    <3>1. r = Play(z, Rest)
      BY <2>1, <2>7, <2>10
    <3>2. Moves(z, Play(z, Rest)) /\ Holds(z, Play(z, Rest)) /\ Play(z, Rest).cur = Rest
      <4>1. z \in PetType
        BY <2>8 DEF Moves
      <4> QED
        BY <2>9, <4>1, PlayMoves
    <3>3. Moves(p, r)
      BY <2>8, <3>1, <3>2, MovesTrans
    <3>4. r.held = h /\ r.down = n /\ r.any = FALSE /\ r.cur = Rest
      BY <2>8, <3>1, <3>2 DEF Holds
    <3>5. Balanced(p) => Balanced(r)
      BY <2>6, <3>4 DEF Balanced
    <3> QED
      BY <2>5, <3>3, <3>4, <3>5 DEF r
  <2>11. CASE n # 0 /\ c \in Hotkeys /\ h # <<>>
    <3> DEFINE a == h[Len(h)].anim
    <3>0. n > 0
      BY <2>4, <2>11
    <3>1. r = Play(q, a)
      BY <2>1, <2>7, <2>11, <3>0
    <3>2. a \in Animations
      <4>1. Len(h) \in DOMAIN h
        BY <2>5, <2>11
      <4>2. h[Len(h)] \in Key
        BY <2>5, <4>1
      <4> QED
        BY <4>2 DEF Key
    <3> HIDE DEF a
    <3>3. Moves(q, Play(q, a)) /\ Holds(q, Play(q, a))
      <4>1. q \in PetType
        BY <2>7 DEF Moves
      <4> QED
        BY <3>2, <4>1, PlayMoves
    <3>4. Moves(p, r)
      BY <2>7, <3>1, <3>3, MovesTrans
    <3>5. r.held = h /\ r.down = n
      BY <2>7, <3>1, <3>3 DEF Holds
    <3>6. Balanced(p) => Balanced(r)
      BY <2>6, <2>11, <3>5 DEF Balanced
    <3> QED
      BY <2>5, <3>4, <3>5, <3>6 DEF r
  <2>12. CASE n # 0 /\ ~(c \in Hotkeys /\ h # <<>>)
    <3>1. r = q
      BY <2>1, <2>7, <2>12
    <3>2. Balanced(p) => Balanced(r)
      BY <2>6, <2>7, <2>12, <3>1 DEF Balanced
    <3> QED
      BY <2>5, <2>7, <3>1, <3>2 DEF r
  <2> QED
    BY <2>10, <2>11, <2>12
<1> QED
  BY <1>1, <1>2

\* A click.
LEMMA ClickMoves ==
  ASSUME NEW k \in Package, NEW p \in PetType
  PROVE  LET q == Click(k, p)
         IN  /\ Moves(p, q) /\ q.held = p.held
             /\ Balanced(p) => Balanced(q)
<1>1. CASE "click" \notin k.poses
  BY <1>1 DEF Click, Moves
<1>2. CASE "click" \in k.poses
  <2> DEFINE n == Duration(k, "click")
             q == [p EXCEPT !.left = n, !.right = n]
  <2>1. Click(k, p) = Play(q, "click")
    BY <1>2 DEF Click
  <2>2. n \in Nat
    BY DEF Duration, Frames
  <2> HIDE DEF n
  <2>3. Moves(p, q) /\ Holds(p, q) /\ q.cur = p.cur
    BY <2>2 DEF Moves, Holds, PetType
  <2> HIDE DEF q
  <2>4. "click" \in Animations
    BY DEF Animations
  <2>5. Moves(q, Play(q, "click")) /\ Holds(q, Play(q, "click")) /\ Play(q, "click").cur = "click"
    <3>1. q \in PetType
      BY <2>3 DEF Moves
    <3> QED
      BY <2>4, <3>1, PlayMoves
  <2>6. Moves(p, Play(q, "click"))
    BY <2>3, <2>5, MovesTrans
  <2>7. Balanced(p) => Balanced(Play(q, "click"))
    BY <2>3, <2>5 DEF Holds, Balanced
  <2> QED
    BY <2>1, <2>3, <2>5, <2>6, <2>7 DEF Holds
<1> QED
  BY <1>1, <1>2

\* A paw that strikes.
LEMMA StrikeMoves ==
  ASSUME NEW k \in Package, NEW p \in PetType, NEW c \in Nat
  PROVE  Moves(p, Strike(k, p, c)) /\ Strike(k, p, c).cur = p.cur
<1>1. PawFor(c) \in {"left", "right"} /\ Duration(k, PawFor(c)) \in Nat
  BY PawIsSide DEF Duration, Frames
<1>2. CASE PawFor(c) = "left"
  BY <1>1, <1>2 DEF Strike, Moves, PetType
<1>3. CASE PawFor(c) = "right"
  BY <1>1, <1>3 DEF Strike, Moves, PetType
<1> QED
  BY <1>1, <1>2, <1>3

\* What an event does to the sprite: what it does not ask a redraw for does
\* not change the animation.
LEMMA SpriteEventMoves ==
  ASSUME g \in Package, NEW p \in PetType, NEW e \in Event
  PROVE  /\ Moves(p, SpriteEvent(p, e))
         /\ ~SpriteChanged(p, e) => SpriteEvent(p, e).cur = p.cur
<1>0. e.code \in Nat /\ Moves(p, p)
  BY DEF Event, Moves
<1>1. CASE e.type = "press" /\ ~g.ownKeys /\ g.press
  <2>1. SpriteEvent(p, e) = PressKey(g, p, e.code)
    BY <1>1 DEF SpriteEvent
  <2>2. Moves(p, PressKey(g, p, e.code))
    BY <1>0, PressKeyPresses
  <2>3. ~SpriteChanged(p, e) => SpriteEvent(p, e).cur = p.cur
    BY <1>1 DEF SpriteChanged
  <2> QED
    BY <2>1, <2>2, <2>3
<1>2. CASE e.type = "release" /\ ~g.ownKeys /\ g.press
  <2>1. SpriteEvent(p, e) = ReleaseKey(p, e.code)
    BY <1>2 DEF SpriteEvent
  <2>2. Moves(p, ReleaseKey(p, e.code))
    BY <1>0, ReleaseKeyReleases
  <2>3. ~SpriteChanged(p, e) => SpriteEvent(p, e).cur = p.cur
    BY <1>2 DEF SpriteChanged
  <2> QED
    BY <2>1, <2>2, <2>3
<1>3. CASE e.type = "press" /\ ~g.ownKeys /\ ~g.press
  <2>1. SpriteEvent(p, e) = Strike(g, p, e.code)
    BY <1>3 DEF SpriteEvent
  <2> QED
    BY <1>0, <2>1, StrikeMoves
<1>4. CASE e.type = "click"
  <2>1. SpriteEvent(p, e) = Click(g, p)
    BY <1>4 DEF SpriteEvent
  <2>2. Moves(p, Click(g, p))
    BY ClickMoves
  <2>3. ~SpriteChanged(p, e) => SpriteEvent(p, e).cur = p.cur
    BY <1>4, <2>1 DEF SpriteChanged, Click
  <2> QED
    BY <2>1, <2>2, <2>3
<1>5. CASE ~(\/ e.type = "press" /\ ~g.ownKeys /\ g.press
             \/ e.type = "release" /\ ~g.ownKeys /\ g.press
             \/ e.type = "press" /\ ~g.ownKeys /\ ~g.press
             \/ e.type = "click")
  <2>1. SpriteEvent(p, e) = p
    BY <1>5 DEF SpriteEvent
  <2> QED
    BY <1>0, <2>1
<1> QED
  BY <1>1, <1>2, <1>3, <1>4, <1>5

\* And to the keys of a press-mode sprite.
LEMMA SpriteEventKeys ==
  ASSUME g \in Package, g.press, NEW p \in PetType, NEW e \in Event
  PROVE  LET q == SpriteEvent(p, e)
         IN  /\ Balanced(p) => Balanced(q)
             /\ g.ownKeys => q.held = p.held
             /\ \A c \in Codes(q.held) :
                  \/ c \in Codes(p.held) /\ (g.ownKeys \/ ~(e.type = "release" /\ e.code = c))
                  \/ e.type = "press" /\ e.code = c
<1>0. e.code \in Nat
  BY DEF Event
<1>1. CASE e.type = "press" /\ ~g.ownKeys
  <2>1. SpriteEvent(p, e) = PressKey(g, p, e.code)
    BY <1>1 DEF SpriteEvent
  <2>2. Pressed(p, PressKey(g, p, e.code), e.code) /\ PressKey(g, p, e.code) \in PetType
    BY <1>0, PressKeyPresses DEF Moves
  <2>3. /\ Balanced(p) => Balanced(PressKey(g, p, e.code))
        /\ Codes(PressKey(g, p, e.code).held) \subseteq Codes(p.held) \cup {e.code}
    BY <1>0, <2>2, PressBalances
  <2> QED
    BY <1>1, <2>1, <2>3
<1>2. CASE e.type = "release" /\ ~g.ownKeys
  <2>1. SpriteEvent(p, e) = ReleaseKey(p, e.code)
    BY <1>2 DEF SpriteEvent
  <2>2. /\ Balanced(p) => Balanced(ReleaseKey(p, e.code))
        /\ Codes(ReleaseKey(p, e.code).held) = Codes(p.held) \ {e.code}
    BY <1>0, ReleaseKeyReleases
  <2> QED
    BY <1>2, <2>1, <2>2
<1>3. CASE e.type = "click"
  <2>1. SpriteEvent(p, e) = Click(g, p)
    BY <1>3 DEF SpriteEvent
  <2>2. Click(g, p).held = p.held /\ (Balanced(p) => Balanced(Click(g, p)))
    BY ClickMoves
  <2> QED
    BY <1>3, <2>1, <2>2
<1>4. CASE ~(e.type \in {"press", "release"} /\ ~g.ownKeys) /\ e.type # "click"
  <2>1. SpriteEvent(p, e) = p
    BY <1>4 DEF SpriteEvent
  <2> QED
    BY <1>4, <2>1
<1> QED
  BY <1>1, <1>2, <1>3, <1>4

-----------------------------------------------------------------------------
\* Events and ticks of the three kinds.

\* The cat.
LEMMA BongoEventDoes ==
  ASSUME NEW p \in PetType, NEW e
  PROVE  LET q == BongoEvent(p, e)
         IN  /\ q \in PetType
             /\ q.last = p.last /\ q.hop = p.hop /\ q.speech = p.speech
<1>1. CASE e.type # "press" \/ (g.scheduled /\ night)
  BY <1>1 DEF BongoEvent
<1>2. CASE ~(e.type # "press" \/ (g.scheduled /\ night))
  <2> DEFINE w == BongoPaw(p, e.code)
             r == IF g.hands THEN p.random ELSE Other(p.random)
             d == IF g.naps THEN {Nap} ELSE p.doze
             q == [p EXCEPT ![w] = Strokes, !.random = r, !.doze = d]
  <2>0. \A x : Other(x) \in {"left", "right"}
    BY DEF Other, Side
  <2>1. w \in {"left", "right"}
    BY <2>0, PawIsSide DEF BongoPaw, PetType
  <2>2. BongoEvent(p, e) = [p EXCEPT ![w] = Strokes,
                 !.random = IF g.hands THEN @ ELSE Other(@),
                 !.doze = IF g.naps THEN {Nap} ELSE @]
    BY <1>2 DEF BongoEvent
  <2>3. r \in {"left", "right"} /\ d \in SUBSET Nat /\ Strokes \in Nat
    BY <2>0, PetsAssumption DEF PetType
  <2> HIDE DEF w
  <2>4. BongoEvent(p, e) = q
    <3>1. CASE w = "left"
      BY <2>2, <3>1 DEF PetType
    <3>2. CASE w = "right"
      BY <2>2, <3>2 DEF PetType
    <3> QED
      BY <2>1, <3>1, <3>2
  <2> HIDE DEF r, d
  <2>5. CASE w = "left"
    <3> DEFINE z == [p EXCEPT !.left = Strokes, !.random = r, !.doze = d]
    <3>1. z \in PetType /\ z.last = p.last /\ z.hop = p.hop /\ z.speech = p.speech
      BY <2>3 DEF PetType
    <3>2. BongoEvent(p, e) = z
      BY <2>4, <2>5
    <3> HIDE DEF z
    <3> QED
      BY <3>1, <3>2
  <2>6. CASE w = "right"
    <3> DEFINE z == [p EXCEPT !.right = Strokes, !.random = r, !.doze = d]
    <3>1. z \in PetType /\ z.last = p.last /\ z.hop = p.hop /\ z.speech = p.speech
      BY <2>3 DEF PetType
    <3>2. BongoEvent(p, e) = z
      BY <2>4, <2>6
    <3> HIDE DEF z
    <3> QED
      BY <3>1, <3>2
  <2> QED
    BY <2>1, <2>5, <2>6
<1> QED
  BY <1>1, <1>2

\* The script's handlers, before the sprite sees the event.
LEMMA ScriptedDoes ==
  ASSUME NEW p \in PetType, NEW e \in Event
  PROVE  LET q == Scripted(p, e)
         IN  /\ q \in PetType
             /\ q.last = p.last /\ q.doze = p.doze /\ q.anim = p.anim /\ q.said = p.said
             /\ e.type \notin {"press", "release"} =>
                  q.cur = p.cur /\ q.frame = p.frame /\ q.hop = p.hop
<1>0. Hops \in Nat /\ Bubble \in Nat
  BY PetsAssumption
<1>1. CASE e.type \in {"press", "release"}
  <2> DEFINE h == IF "hop" \in g.script /\ e.type = "press" THEN Hops ELSE p.hop
             b == IF "speak" \in g.script /\ e.type = "press" THEN {Bubble} ELSE p.speech
             a == IF e.type = "press" THEN "left" ELSE Rest
             q == [p EXCEPT !.hop = h, !.speech = b]
  <2>1. Scripted(p, e) = IF "pose" \in g.script THEN Play(q, a) ELSE q
    BY <1>1 DEF Scripted, OnKey
  <2>2. h \in Nat /\ b \in SUBSET Nat /\ a \in Animations
    BY <1>0 DEF PetType, Animations
  <2> HIDE DEF h, b, a
  <2>3. q \in PetType /\ q.last = p.last /\ q.doze = p.doze /\ q.anim = p.anim /\ q.said = p.said
    BY <2>2 DEF PetType
  <2> HIDE DEF q
  <2>4. Moves(q, Play(q, a))
    BY <2>2, <2>3, PlayMoves
  <2> QED
    BY <1>1, <2>1, <2>3, <2>4 DEF Moves
<1>2. CASE e.type = "system" /\ "chat" \in g.script
  <2>1. Scripted(p, e) = [p EXCEPT !.speech = {Bubble}]
    BY <1>2 DEF Scripted
  <2> DEFINE b == {Bubble}
             q == [p EXCEPT !.speech = b]
  <2>2. b \in SUBSET Nat
    BY <1>0
  <2>3. Scripted(p, e) = q
    BY <2>1
  <2> HIDE DEF b
  <2>4. /\ q \in PetType /\ q.last = p.last /\ q.doze = p.doze /\ q.anim = p.anim
        /\ q.said = p.said /\ q.cur = p.cur /\ q.frame = p.frame /\ q.hop = p.hop
    BY <2>2 DEF PetType
  <2> HIDE DEF q
  <2> QED
    BY <2>3, <2>4
<1>3. CASE e.type \notin {"press", "release"} /\ ~(e.type = "system" /\ "chat" \in g.script)
  <2>1. Scripted(p, e) = p
    BY <1>3 DEF Scripted
  <2> QED
    BY <2>1
<1> QED
  BY <1>1, <1>2, <1>3

\* The pet of a script.
LEMMA LuaEventDoes ==
  ASSUME g \in Package, NEW p \in PetType, NEW e \in Event
  PROVE  LET q == LuaEvent(p, e)
         IN  /\ q \in PetType
             /\ q.last = p.last /\ q.doze = p.doze /\ q.said = p.said
             /\ (g.ownKeys /\ (p.hop > 0 => p.anim)) => (q.hop > 0 => q.anim)
             /\ (g.ownPixels /\ ~LuaChanged(p, e)) =>
                  q.cur = p.cur /\ q.frame = p.frame /\ q.hop = p.hop
<1> DEFINE s == Scripted(p, e)
           t == SpriteEvent(s, e)
           k == g.ownKeys /\ e.type \in {"press", "release"}
           n == t.anim \/ k
           q == [t EXCEPT !.anim = n]
<1>1. LuaEvent(p, e) = q
  BY DEF LuaEvent
<1>2. /\ s \in PetType
      /\ s.last = p.last /\ s.doze = p.doze /\ s.anim = p.anim /\ s.said = p.said
      /\ e.type \notin {"press", "release"} => s.cur = p.cur /\ s.frame = p.frame /\ s.hop = p.hop
  BY ScriptedDoes
<1> HIDE DEF s
<1>3. Moves(s, t) /\ (~SpriteChanged(s, e) => t.cur = s.cur)
  BY <1>2, SpriteEventMoves
<1>4. g.ownPixels /\ ~LuaChanged(p, e) =>
        e.type \notin {"press", "release"} /\ ~SpriteChanged(s, e)
  BY DEF LuaChanged, s
<1> HIDE DEF t
<1>5. n \in BOOLEAN /\ (k => n) /\ (~k => n = t.anim)
  <2>1. t.anim \in BOOLEAN
    BY <1>3 DEF Moves, PetType
  <2> QED
    BY <2>1, Zenon
<1>6. ~k => ~g.ownKeys \/ e.type \notin {"press", "release"}
  OBVIOUS
<1> HIDE DEF n, k
<1>7. /\ q \in PetType /\ q.last = t.last /\ q.doze = t.doze /\ q.said = t.said /\ q.anim = n
      /\ q.cur = t.cur /\ q.frame = t.frame /\ q.hop = t.hop
  BY <1>3, <1>5 DEF PetType, Moves
<1> HIDE DEF q
<1>8. ASSUME g.ownKeys, p.hop > 0 => p.anim, q.hop > 0
      PROVE  q.anim
  <2>1. CASE k
    BY <1>5, <1>7, <2>1
  <2>2. CASE ~k
    <3>1. s.hop = p.hop /\ t.hop = s.hop /\ t.anim = s.anim
      BY <1>2, <1>3, <1>6, <1>8, <2>2 DEF Moves
    <3>2. t.anim
      BY <1>2, <1>7, <1>8, <3>1
    <3> QED
      BY <1>5, <1>7, <2>2, <3>2
  <2> QED
    BY <2>1, <2>2
<1>9. ASSUME g.ownPixels, ~LuaChanged(p, e)
      PROVE  q.cur = p.cur /\ q.frame = p.frame /\ q.hop = p.hop
  BY <1>2, <1>3, <1>4, <1>7, <1>9 DEF Moves
<1> QED
  BY <1>1, <1>2, <1>3, <1>7, <1>8, <1>9 DEF Moves

\* Any pet: what an event does not ask a redraw for does not show.
LEMMA OnEventDoes ==
  ASSUME g \in Package, NEW p \in PetType, Apart(p), NEW e \in Event
  PROVE  LET q == OnEvent(p, e)
         IN  /\ q \in PetType /\ Apart(q)
             /\ (~Changed(p, e) /\ (g.kind = "lua" => g.ownPixels)) =>
                  /\ Known(q) = Known(p)
                  /\ g.kind # "bongo" => q.last = p.last /\ q.frame = p.frame
<1>0. g.kind \in {"bongo", "sprite", "lua"}
  BY DEF Package
<1>1. CASE g.kind = "bongo"
  <2>1. OnEvent(p, e) = BongoEvent(p, e)
    BY <1>1 DEF OnEvent
  <2>2. /\ BongoEvent(p, e) \in PetType
        /\ BongoEvent(p, e).last = p.last /\ BongoEvent(p, e).hop = p.hop
        /\ BongoEvent(p, e).speech = p.speech
    BY BongoEventDoes
  <2> QED
    BY <1>1, <2>1, <2>2 DEF Apart, Known
<1>2. CASE g.kind = "sprite"
  <2>1. OnEvent(p, e) = SpriteEvent(p, e) /\ Changed(p, e) = SpriteChanged(p, e)
    BY <1>2 DEF OnEvent, Changed
  <2>2. Moves(p, SpriteEvent(p, e)) /\ (~SpriteChanged(p, e) => SpriteEvent(p, e).cur = p.cur)
    BY SpriteEventMoves
  <2> QED
    BY <1>2, <2>1, <2>2 DEF Apart, Known, Moves
<1>3. CASE g.kind = "lua"
  <2>1. OnEvent(p, e) = LuaEvent(p, e) /\ Changed(p, e) = LuaChanged(p, e)
    BY <1>3 DEF OnEvent, Changed
  <2> DEFINE q == LuaEvent(p, e)
  <2>2. /\ q \in PetType
        /\ q.last = p.last /\ q.doze = p.doze /\ q.said = p.said
        /\ (g.ownKeys /\ (p.hop > 0 => p.anim)) => (q.hop > 0 => q.anim)
        /\ (g.ownPixels /\ ~LuaChanged(p, e)) =>
             q.cur = p.cur /\ q.frame = p.frame /\ q.hop = p.hop
    BY LuaEventDoes
  <2> HIDE DEF q
  <2>3. OnEvent(p, e) = q
    BY <2>1 DEF q
  <2>4. Apart(q)
    BY <1>3, <2>2 DEF Apart
  <2> QED
    BY <1>3, <2>1, <2>2, <2>3, <2>4 DEF Known
<1> QED
  BY <1>0, <1>1, <1>2, <1>3

\* One sprite tick: what the reactions ask for is on show, and the pet knows
\* the frame it draws.
LEMMA TargetIsAnimation ==
  ASSUME g \in Package, NEW p \in PetType
  PROVE  Target(g, p) \in SUBSET Animations
<1>1. p.cur \in Animations /\ Rest \in Animations /\ "both" \in Animations
  BY DEF PetType, Animations
<1>2. \A w \in {"left", "right"} : Reaction(g, w) \in SUBSET Animations
  BY DEF Reaction, Package, Animations
<1> QED
  BY <1>1, <1>2 DEF Target

\* Only the paws' reactions and, where keys or scripts decide, the animation
\* on show count for it; there is never more than one.
LEMMA TargetDepends ==
  ASSUME NEW p, NEW q, q.left > 0 <=> p.left > 0, q.right > 0 <=> p.right > 0,
         p.left \in Nat, p.right \in Nat, q.left \in Nat, q.right \in Nat
  PROVE  /\ g.press \/ g.ownKeys => Target(g, p) = {p.cur} /\ Target(g, q) = {q.cur}
         /\ ~(g.press \/ g.ownKeys) => Target(g, q) = Target(g, p)
         /\ \A x, y \in Target(g, p) : x = y
<1>0. (p.left = 0 <=> q.left = 0) /\ (p.right = 0 <=> q.right = 0)
  OBVIOUS
<1>1. g.press \/ g.ownKeys => Target(g, p) = {p.cur} /\ Target(g, q) = {q.cur}
  BY DEF Target
<1>2. ~(g.press \/ g.ownKeys) => Target(g, q) = Target(g, p)
  BY <1>0 DEF Target
<1>3. \A w : \A x, y \in Reaction(g, w) : x = y
  BY DEF Reaction
<1>4. \A x, y \in Target(g, p) : x = y
  BY <1>3 DEF Target
<1> QED
  BY <1>1, <1>2, <1>4

\* The step of a sprite.
LEMMA SpriteStepDoes ==
  ASSUME g \in Package, NEW p \in PetType
  PROVE  LET q == SpriteStep(p)
         IN  /\ q \in PetType /\ Holds(p, q)
             /\ q.doze = p.doze /\ q.hop = p.hop /\ q.anim = p.anim
             /\ q.speech = p.speech
             /\ q.last = <<q.frame>>
             /\ g.press => q.cur = p.cur
             /\ Target(g, q) \subseteq {q.cur}
<1> DEFINE s == PlayAny(p, Target(g, p))
           n == NextFrame(g, s, due)
           t == [s EXCEPT !.frame = n]
           q == [t EXCEPT !.last = <<t.frame>>]
<1>1. Target(g, p) \in SUBSET Animations
  BY TargetIsAnimation
<1>2. /\ Moves(p, s) /\ Holds(p, s)
      /\ s.cur \in IF Target(g, p) = {} THEN {p.cur} ELSE Target(g, p)
      /\ s.left = p.left /\ s.right = p.right
  BY <1>1, PlayAnyMoves
<1>3. SpriteStep(p) = q
  BY DEF SpriteStep, SpriteTick
<1> HIDE DEF s
<1>4. n \in Nat
  BY <1>2 DEF NextFrame, Frames, Moves, PetType
<1> HIDE DEF n
<1>5. /\ t \in PetType /\ Holds(s, t) /\ t.frame = n /\ t.cur = s.cur
      /\ t.doze = s.doze /\ t.hop = s.hop /\ t.anim = s.anim /\ t.speech = s.speech
      /\ t.left = s.left /\ t.right = s.right
  BY <1>2, <1>4 DEF PetType, Moves, Holds
<1> HIDE DEF t
<1>6. <<t.frame>> \in Seq(Nat)
  BY <1>4, <1>5
<1>7. /\ q \in PetType /\ Holds(t, q) /\ q.last = <<t.frame>> /\ q.frame = t.frame /\ q.cur = t.cur
      /\ q.doze = t.doze /\ q.hop = t.hop /\ q.anim = t.anim /\ q.speech = t.speech
      /\ q.left = t.left /\ q.right = t.right
  BY <1>5, <1>6 DEF PetType, Holds
<1> HIDE DEF q
<1>8. q.left = p.left /\ q.right = p.right /\ q.cur = s.cur
  BY <1>2, <1>5, <1>7
<1>9. p.left \in Nat /\ p.right \in Nat
  BY DEF PetType
<1>10. /\ g.press \/ g.ownKeys => Target(g, p) = {p.cur} /\ Target(g, q) = {q.cur}
       /\ ~(g.press \/ g.ownKeys) => Target(g, q) = Target(g, p)
       /\ \A x, y \in Target(g, p) : x = y
  BY <1>8, <1>9, TargetDepends
<1>11. Target(g, q) \subseteq {q.cur}
  BY <1>2, <1>8, <1>10
<1>12. g.press => q.cur = p.cur
  BY <1>2, <1>8, <1>10
<1> QED
  BY <1>2, <1>3, <1>5, <1>7, <1>11, <1>12 DEF Moves, Holds

\* The script at a tick.
LEMMA OnTickDoes ==
  ASSUME NEW p \in PetType
  PROVE  LET q == OnTick(p)
         IN  /\ q \in PetType /\ q.hop = Capped(p.hop)
             /\ q.cur = p.cur /\ q.frame = p.frame /\ q.doze = p.doze /\ q.anim = p.anim
             /\ q.speech = p.speech /\ q.last = p.last /\ q.left = p.left /\ q.right = p.right
             /\ Target(g, q) = Target(g, p)
<1> DEFINE n == Capped(p.hop)
           q == [p EXCEPT !.hop = n]
<1>1. p.hop \in Nat
  BY DEF PetType
<1>2. n \in Nat
  BY <1>1, CappedFacts
<1>3. OnTick(p) = q
  BY DEF OnTick
<1>6. n = Capped(p.hop)
  OBVIOUS
<1> HIDE DEF n
<1>4. /\ q \in PetType /\ q.hop = n
      /\ q.cur = p.cur /\ q.frame = p.frame /\ q.doze = p.doze /\ q.anim = p.anim
      /\ q.speech = p.speech /\ q.last = p.last /\ q.left = p.left /\ q.right = p.right
  BY <1>2 DEF PetType
<1> HIDE DEF q
<1>5. Target(g, q) = Target(g, p)
  BY <1>4 DEF Target
<1> QED
  BY <1>3, <1>4, <1>5, <1>6

\* A script runs before the sprite and after it, or only after it.
LEMMA LuaTickDoes ==
  ASSUME g \in Package, NEW p \in PetType
  PROVE  LET q == LuaTick(p)
         IN  /\ q \in PetType /\ q.doze = p.doze /\ q.speech = p.speech
             /\ q.said = Speaking(p)
             /\ q.last = <<q.frame>>
             /\ Target(g, q) \subseteq {q.cur}
             /\ (p.hop > 0 => p.anim) => (q.hop > 0 => q.anim)
<1> DEFINE i == IF g.ownPixels THEN OnTick(p) ELSE p
           a == SpriteStep(i)
           b == OnTick(a)
           n == IF g.ownPixels THEN b.anim /\ b.hop # a.hop ELSE b.anim
           v == Speaking(p)
           q == [b EXCEPT !.anim = n, !.said = v]
<1>1. LuaTick(p) = q
  BY DEF LuaTick
<1>2. /\ i \in PetType /\ i.doze = p.doze /\ i.speech = p.speech /\ i.anim = p.anim
      /\ i.hop = p.hop \/ i.hop = Capped(p.hop)
  BY OnTickDoes
<1> HIDE DEF i
<1>3. /\ a \in PetType /\ a.doze = i.doze /\ a.hop = i.hop /\ a.anim = i.anim
      /\ a.speech = i.speech /\ a.last = <<a.frame>>
      /\ Target(g, a) \subseteq {a.cur}
  BY <1>2, SpriteStepDoes
<1> HIDE DEF a
<1>4. /\ b \in PetType /\ b.hop = Capped(a.hop)
      /\ b.cur = a.cur /\ b.frame = a.frame /\ b.doze = a.doze /\ b.anim = a.anim
      /\ b.speech = a.speech /\ b.last = a.last
      /\ Target(g, b) = Target(g, a) /\ b.left = a.left /\ b.right = a.right
  BY <1>3, OnTickDoes
<1> HIDE DEF b
<1>5. v \in BOOLEAN
  BY Zenon DEF Speaking
<1>6. b.anim \in BOOLEAN
  BY <1>4 DEF PetType
<1>7. n \in BOOLEAN /\ (b.hop # a.hop /\ b.anim => n) /\ (~g.ownPixels /\ b.anim => n)
  BY <1>6, Zenon
<1>0. v = Speaking(p)
  OBVIOUS
<1> HIDE DEF n, v
<1>8. /\ q \in PetType /\ q.hop = b.hop /\ q.cur = b.cur /\ q.frame = b.frame /\ q.doze = b.doze
      /\ q.speech = b.speech /\ q.last = b.last /\ q.anim = n /\ q.said = v
      /\ q.left = b.left /\ q.right = b.right
  BY <1>4, <1>5, <1>7, ZenonT(30) DEF PetType
<1> HIDE DEF q
<1>9. Target(g, q) \subseteq {q.cur}
  <2>1. q.left = b.left /\ q.right = b.right /\ q.cur = b.cur
    BY <1>8
  <2>2. Target(g, q) = Target(g, b)
    BY <2>1 DEF Target
  <2> QED
    BY <1>3, <1>4, <1>8, <2>2
<1>10. ASSUME p.hop > 0 => p.anim, q.hop > 0
       PROVE  q.anim
  <2>1. p.hop \in Nat /\ a.hop \in Nat
    BY <1>3 DEF PetType
  <2>2. a.hop > 1 /\ b.hop = a.hop - 1
    BY <1>4, <1>8, <1>10, <2>1, CappedFacts
  <2>3. p.hop > 0
    BY <1>2, <1>3, <2>1, <2>2, CappedFacts
  <2>4. b.anim /\ b.hop # a.hop
    BY <1>2, <1>3, <1>4, <1>10, <2>1, <2>2, <2>3
  <2> QED
    BY <1>7, <1>8, <2>4
<1> QED
  BY <1>0, <1>1, <1>2, <1>3, <1>4, <1>8, <1>9, <1>10

\* Any pet: what a tick leaves is known, drawn as it is when it changed, and
\* a tick that asks for no redraw shows nothing new.
LEMMA TickPetDoes ==
  ASSUME g \in Package, NEW p \in PetType, Apart(p)
  PROVE  LET q == TickPet(p)
         IN  /\ q \in PetType /\ Apart(q)
             /\ (g.kind = "sprite" /\ g.press) => Holds(p, q) /\ q.cur = p.cur
             /\ Known(q) = View(q)
             /\ g.kind # "bongo" => q.last = <<q.frame>> /\ Target(g, q) \subseteq {q.cur}
             /\ ~TickChanged(p) =>
                  /\ g.kind = "lua" => g.ownPixels
                  /\ (g.kind # "bongo" => p.last = <<p.frame>>) => Known(q) = Known(p)
<1>0. g.kind \in {"bongo", "sprite", "lua"}
  BY DEF Package
<1>00. \A x, y : <<x>> = <<y>> => x = y
  OBVIOUS
<1>1. CASE g.kind = "bongo"
  <2> DEFINE f == FrameId(p)
             q == [p EXCEPT !.last = <<f>>]
  <2>1. TickPet(p) = q
    BY <1>1 DEF TickPet
  <2>2. f \in CatFrames
    BY DEF FrameId, SelectFrame, CatFrames
  <2> HIDE DEF f
  <2>3. <<f>> \in Seq(CatFrames) /\ <<f>>[1] = f
    BY <2>2
  <2>4. /\ q \in PetType /\ q.last = <<f>> /\ q.left = p.left /\ q.right = p.right
        /\ q.doze = p.doze /\ q.hop = p.hop /\ q.speech = p.speech
    BY <2>3 DEF PetType
  <2> HIDE DEF q
  <2>5. FrameId(q) = f
    BY <2>4 DEF FrameId, SelectFrame, Sleeping, f
  <2>6. Known(q) = View(q)
    BY <1>1, <2>3, <2>4, <2>5 DEF Known, View
  <2>7. Apart(q)
    BY <1>1, <2>4 DEF Apart
  <2>8. ~TickChanged(p) => Known(q) = Known(p)
    BY <1>1, <2>1 DEF TickChanged, Known
  <2> QED
    BY <1>1, <2>1, <2>4, <2>6, <2>7, <2>8
<1>2. CASE g.kind = "sprite"
  <2> DEFINE q == SpriteStep(p)
  <2>1. TickPet(p) = q
    BY <1>2 DEF TickPet
  <2>2. /\ q \in PetType /\ Holds(p, q)
        /\ q.doze = p.doze /\ q.hop = p.hop /\ q.anim = p.anim /\ q.speech = p.speech
        /\ q.last = <<q.frame>>
        /\ g.press => q.cur = p.cur
        /\ Target(g, q) \subseteq {q.cur}
    BY SpriteStepDoes
  <2> HIDE DEF q
  <2>3. Apart(q) /\ q.hop = 0 /\ q.speech = {}
    BY <1>2, <2>2 DEF Apart
  <2>4. Speaking(q) = FALSE
    BY <2>3 DEF Speaking
  <2>5. Known(q) = View(q)
    BY <1>2, <2>3, <2>4 DEF Known, View
  <2>6. ASSUME ~TickChanged(p), p.last = <<p.frame>>
        PROVE  Known(q) = Known(p)
    <3>1. q.cur = p.cur /\ q.last = p.last
      BY <1>2, <2>1, <2>6 DEF TickChanged
    <3>2. q.frame = p.frame
      BY <1>00, <2>2, <2>6, <3>1
    <3> QED
      BY <1>2, <3>1, <3>2 DEF Known
  <2> QED
    BY <1>2, <2>1, <2>2, <2>3, <2>5, <2>6
<1>3. CASE g.kind = "lua"
  <2> DEFINE q == LuaTick(p)
  <2>1. TickPet(p) = q
    BY <1>3 DEF TickPet
  <2>2. /\ q \in PetType /\ q.doze = p.doze /\ q.speech = p.speech
        /\ q.said = Speaking(p)
        /\ q.last = <<q.frame>>
        /\ Target(g, q) \subseteq {q.cur}
        /\ (p.hop > 0 => p.anim) => (q.hop > 0 => q.anim)
    BY LuaTickDoes
  <2> HIDE DEF q
  <2>3. Apart(q)
    BY <1>3, <2>2 DEF Apart
  <2>4. Speaking(q) = Speaking(p)
    BY <2>2 DEF Speaking
  <2>5. Known(q) = View(q)
    BY <1>3, <2>2, <2>4 DEF Known, View
  <2>6. ASSUME ~TickChanged(p)
        PROVE  /\ g.ownPixels
               /\ q.cur = p.cur /\ q.last = p.last /\ q.hop = p.hop /\ q.said = p.said
    BY <1>3, <2>1, <2>6 DEF TickChanged
  <2>7. ASSUME ~TickChanged(p), p.last = <<p.frame>>
        PROVE  Known(q) = Known(p)
    <3>1. q.frame = p.frame
      BY <1>00, <2>2, <2>6, <2>7
    <3> QED
      BY <1>3, <2>6, <2>7, <3>1 DEF Known
  <2> QED
    BY <1>3, <2>1, <2>2, <2>3, <2>5, <2>6, <2>7
<1> QED
  BY <1>0, <1>1, <1>2, <1>3

-----------------------------------------------------------------------------
\* The last word on a key.

Word(type, c) == [type |-> type, code |-> c]

\* Words are equal when they say the same of the same key.
LEMMA WordsDiffer ==
  ASSUME NEW c, NEW d, NEW s, NEW t
  PROVE  Word(s, c) = Word(t, d) <=> s = t /\ c = d
<1>1. Word(s, c) = Word(t, d) => Word(s, c).type = Word(t, d).type /\ Word(s, c).code = Word(t, d).code
  OBVIOUS
<1>2. /\ Word(s, c).type = s /\ Word(s, c).code = c
      /\ Word(t, d).type = t /\ Word(t, d).code = d
  BY DEF Word
<1> QED
  BY <1>1, <1>2, Zenon DEF Word

LEMMA EventIsWord ==
  ASSUME NEW e \in Event
  PROVE  e = Word(e.type, e.code)
BY DEF Event, Word

\* One event more: it is the last word on its key.
LEMMA AppendWord ==
  ASSUME queue \in Seq(Event), NEW e \in Event, queue' = Append(queue, e), pet' = pet,
         NEW c, LastDown(c)'
  PROVE  e = Word("press", c) \/ (LastDown(c) /\ e # Word("release", c))
<1> DEFINE n == Len(queue)
<1>1. /\ n \in Nat /\ DOMAIN queue = 1 .. n /\ DOMAIN queue' = 1 .. n + 1
      /\ queue'[n + 1] = e /\ \A i \in 1 .. n : queue'[i] = queue[i]
  OBVIOUS
<1>2. /\ \A i \in 1 .. n : i \in 1 .. n + 1
      /\ \A i \in 1 .. n + 1 : i = n + 1 \/ i \in 1 .. n
      /\ n + 1 \in 1 .. n + 1 /\ n + 1 > 0 /\ \A i \in 1 .. n : n + 1 > i
  BY <1>1
<1> HIDE DEF n
<1>3. \A m : Released(c, m) => Released(c, m)'
  BY <1>1, <1>2 DEF Released
<1>4. ASSUME NEW m, e = Word("release", c), n + 1 > m
      PROVE  Released(c, m)'
  BY <1>1, <1>2, <1>4 DEF Released, Word
<1>5. HeldCodes(pet)' = HeldCodes(pet)
  BY DEF HeldCodes
<1>6. CASE c \in HeldCodes(pet) /\ ~Released(c, 0)'
  <2>1. LastDown(c)
    BY <1>3, <1>6 DEF LastDown
  <2> QED
    BY <1>2, <1>4, <1>6, <2>1
<1>7. ASSUME NEW m \in DOMAIN queue', queue'[m] = Word("press", c), ~Released(c, m)'
      PROVE  e = Word("press", c) \/ (LastDown(c) /\ e # Word("release", c))
  <2>1. CASE m = n + 1
    BY <1>1, <1>7, <2>1
  <2>2. CASE m \in 1 .. n
    <3>1. queue[m] = Word("press", c) /\ ~Released(c, m) /\ m \in DOMAIN queue
      BY <1>1, <1>3, <1>7, <2>2
    <3>2. LastDown(c)
      BY <3>1 DEF LastDown, Word
    <3> QED
      BY <1>2, <1>4, <1>7, <2>2, <3>2
  <2> QED
    BY <1>1, <1>2, <1>7, <2>1, <2>2
<1>8. \/ c \in HeldCodes(pet) /\ ~Released(c, 0)'
      \/ \E m \in DOMAIN queue' : queue'[m] = Word("press", c) /\ ~Released(c, m)'
  BY <1>5 DEF LastDown, Word
<1> QED
  BY <1>6, <1>7, <1>8

\* One event less: what it said is now said by the pet.
LEMMA TailWord ==
  ASSUME queue \in Seq(Event), queue # <<>>, queue' = Tail(queue),
         NEW c, LastDown(c)',
         c \in HeldCodes(pet)' =>
           \/ c \in HeldCodes(pet) /\ Head(queue) # Word("release", c)
           \/ Head(queue) = Word("press", c)
  PROVE  LastDown(c)
<1> DEFINE n == Len(queue)
<1>1. /\ n \in Nat /\ n > 0 /\ DOMAIN queue = 1 .. n /\ DOMAIN queue' = 1 .. n - 1
      /\ Head(queue) = queue[1] /\ \A i \in 1 .. n - 1 : queue'[i] = queue[i + 1]
  OBVIOUS
<1>2. /\ \A i \in 1 .. n - 1 : i + 1 \in 1 .. n
      /\ \A i \in 1 .. n : i = 1 \/ (i - 1 \in 1 .. n - 1 /\ (i - 1) + 1 = i)
      /\ 1 \in 1 .. n
  BY <1>1
<1> HIDE DEF n
<1>3. ASSUME NEW m \in Nat, Released(c, m + 1)
      PROVE  Released(c, m)'
  <2>1. PICK i \in 1 .. n : i > m + 1 /\ queue[i] = Word("release", c)
    BY <1>1, <1>3 DEF Released, Word
  <2>2. i - 1 \in 1 .. n - 1 /\ i - 1 > m /\ queue'[i - 1] = Word("release", c)
    <3>1. i # 1 /\ i - 1 > m
      BY <1>3, <2>1
    <3> QED
      BY <1>1, <1>2, <2>1, <3>1
  <2> QED
    BY <1>1, <2>2 DEF Released, Word
<1>4. CASE c \in HeldCodes(pet)' /\ ~Released(c, 0)'
  <2>1. ~Released(c, 0 + 1)
    BY <1>3, <1>4
  <2>2. CASE Head(queue) = Word("press", c)
    <3>1. 1 \in DOMAIN queue /\ queue[1] = Word("press", c) /\ ~Released(c, 1)
      BY <1>1, <1>2, <2>1, <2>2
    <3> QED
      BY <3>1 DEF LastDown, Word
  <2>3. CASE c \in HeldCodes(pet) /\ Head(queue) # Word("release", c)
    <3>1. ~Released(c, 0)
      <4> SUFFICES ASSUME Released(c, 0)
                   PROVE  FALSE
        OBVIOUS
      <4>1. PICK i \in 1 .. n : queue[i] = Word("release", c)
        BY <1>1 DEF Released, Word
      <4>2. i # 1
        BY <1>1, <2>3, <4>1
      <4>3. Released(c, 1)
        BY <1>1, <4>1, <4>2 DEF Released, Word
      <4> QED
        BY <2>1, <4>3
    <3> QED
      BY <2>3, <3>1 DEF LastDown
  <2> QED
    BY <1>4, <2>2, <2>3
<1>5. ASSUME NEW m \in DOMAIN queue', queue'[m] = Word("press", c), ~Released(c, m)'
      PROVE  LastDown(c)
  <2>1. m + 1 \in DOMAIN queue /\ queue[m + 1] = Word("press", c)
    BY <1>1, <1>2, <1>5
  <2>2. ~Released(c, m + 1)
    BY <1>1, <1>3, <1>5
  <2> QED
    BY <2>1, <2>2 DEF LastDown, Word
<1>6. \/ c \in HeldCodes(pet)' /\ ~Released(c, 0)'
      \/ \E m \in DOMAIN queue' : queue'[m] = Word("press", c) /\ ~Released(c, m)'
  BY DEF LastDown, Word
<1> QED
  BY <1>4, <1>5, <1>6

\* Without an event and a change of the pet's keys nothing is said.
LEMMA SameWord ==
  ASSUME queue' = queue, HeldCodes(pet)' = HeldCodes(pet), NEW c
  PROVE  LastDown(c)' <=> LastDown(c)
<1>1. \A m : Released(c, m)' <=> Released(c, m)
  BY DEF Released
<1> QED
  BY <1>1 DEF LastDown

-----------------------------------------------------------------------------
\* Nothing but the loop changes the pet and what is on show.

\* What a pet shows and waits for depends on the package and the night only.
LEMMA SameView ==
  ASSUME g' = g, night' = night, NEW p
  PROVE  /\ View(p)' = View(p) /\ Known(p)' = Known(p) /\ Pending(p)' = Pending(p)
         /\ Target(g, p)' = Target(g, p) /\ Apart(p)' = Apart(p)
         /\ (drawn' = drawn => Fresh(p)' = Fresh(p))
<1>1. View(p)' = View(p)
  BY DEF View, FrameId, Sleeping
<1>2. Known(p)' = Known(p)
  BY DEF Known
<1>3. Pending(p)' = Pending(p)
  BY DEF Pending, BongoDeadlines
<1>4. Target(g, p)' = Target(g, p)
  BY DEF Target
<1>5. Apart(p)' = Apart(p)
  BY DEF Apart
<1>6. drawn' = drawn => Fresh(p)' = Fresh(p)
  BY <1>1, <1>4 DEF Fresh
<1> QED
  BY <1>1, <1>2, <1>3, <1>4, <1>5, <1>6

\* The loop's part of the invariant is about the loop's variables.
LEMMA LoopSame ==
  ASSUME Apart(pet), Alarmed, Follows, UpToDate,
         UNCHANGED <<g, pet, loop, paused, night>>
  PROVE  Apart(pet)' /\ Alarmed' /\ Follows' /\ UpToDate'
<1>1. PICK p : p = pet
  OBVIOUS
<1>2. /\ View(p)' = View(p) /\ Known(p)' = Known(p) /\ Pending(p)' = Pending(p)
      /\ Target(g, p)' = Target(g, p) /\ Apart(p)' = Apart(p)
      /\ Fresh(p)' = Fresh(p)
  BY SameView DEF loop
<1>3. pet = p /\ pet' = p
  BY <1>1
<1>4. Apart(pet)'
  BY <1>2, <1>3
<1>5. Alarmed'
  BY <1>2, <1>3 DEF Alarmed, loop
<1>6. Follows'
  BY <1>2, <1>3 DEF Follows, loop
<1>7. UpToDate'
  BY <1>2, <1>3 DEF UpToDate, loop
<1> QED
  BY <1>4, <1>5, <1>6, <1>7

-----------------------------------------------------------------------------
\* The keyboard, its reader and the other senders.

\* What the reader sends about a key.
LEMMA Reads ==
  ASSUME queue \in Seq(Event), pet' = pet, NEW type \in {"press", "release"}, NEW c \in Nat,
         Read(type, c)
  PROVE  /\ queue' \in Seq(Event)
         /\ \A d : LastDown(d)' => \/ type = "press" /\ d = c /\ reader = "live"
                                   \/ /\ LastDown(d)
                                      /\ reader = "live" => ~(type = "release" /\ d = c)
<1>1. CASE reader = "live"
  <2> DEFINE e == Word(type, c)
  <2>1. queue' = Append(queue, e)
    BY <1>1 DEF Read, Send, Word
  <2>2. e \in Event
    BY DEF Word, Event
  <2> HIDE DEF e
  <2>3. queue' \in Seq(Event)
    BY <2>1, <2>2
  <2>4. ASSUME NEW d, LastDown(d)'
        PROVE  \/ type = "press" /\ d = c
               \/ LastDown(d) /\ ~(type = "release" /\ d = c)
    <3>1. e = Word("press", d) \/ (LastDown(d) /\ e # Word("release", d))
      BY <2>1, <2>2, <2>4, AppendWord
    <3>2. /\ e = Word("press", d) => type = "press" /\ d = c
          /\ type = "release" /\ d = c => e = Word("release", d)
      BY WordsDiffer DEF e
    <3> QED
      BY <3>1, <3>2
  <2> QED
    BY <1>1, <2>3, <2>4
<1>2. CASE reader # "live"
  <2>1. queue' = queue
    BY <1>2 DEF Read
  <2>2. HeldCodes(pet)' = HeldCodes(pet)
    BY DEF HeldCodes
  <2>3. \A d : LastDown(d)' <=> LastDown(d)
    BY <2>1, <2>2, SameWord
  <2> QED
    BY <1>2, <2>1, <2>3
<1> QED
  BY <1>1, <1>2

\* A key goes down, and is let go.
LEMMA KeyDownHeard ==
  ASSUME Typed, Heard, NEW c \in g.codes, KeyDown(c)
  PROVE  Typed' /\ Heard'
<1>0. c \in Nat /\ g \in Package
  BY DEF Typed, Package
<1>1. /\ board /\ c \notin keys /\ keys' = keys \cup {c} /\ Read("press", c)
      /\ inputs' = inputs + 1
      /\ UNCHANGED <<board, reader, lost>> /\ UNCHANGED <<g, pet, loop, paused, night>>
  BY DEF KeyDown, Spend, Sleeper
<1>2. /\ queue' \in Seq(Event)
      /\ \A d : LastDown(d)' => \/ d = c /\ reader = "live"
                                \/ LastDown(d)
  BY <1>0, <1>1, Reads DEF Typed
<1>3. Typed'
  <2>1. keys' \in SUBSET Nat /\ inputs' \in Nat
    BY <1>0, <1>1 DEF Typed
  <2> QED
    BY <1>1, <1>2, <2>1 DEF Typed, loop
<1>4. Heard'
  <2>1. \A p : Balanced(p)' = Balanced(p)
    BY DEF Balanced
  <2> QED
    BY <1>1, <1>2 DEF Heard, Balanced
<1> QED
  BY <1>3, <1>4

LEMMA KeyUpHeard ==
  ASSUME Typed, Heard, NEW c \in g.codes, KeyUp(c)
  PROVE  Typed' /\ Heard'
<1>0. c \in Nat /\ g \in Package
  BY DEF Typed, Package
<1>1. /\ c \in keys /\ keys' = keys \ {c} /\ Read("release", c) /\ inputs' = inputs
      /\ UNCHANGED <<board, reader, lost>> /\ UNCHANGED <<g, pet, loop, paused, night>>
  BY DEF KeyUp, Sleeper
<1>2. /\ queue' \in Seq(Event)
      /\ \A d : LastDown(d)' => LastDown(d) /\ (reader = "live" => d # c)
  BY <1>0, <1>1, Reads DEF Typed
<1>3. Typed'
  BY <1>1, <1>2 DEF Typed, loop
<1>4. Heard'
  BY <1>1, <1>2 DEF Heard, Balanced
<1> QED
  BY <1>3, <1>4

\* The steps that touch neither the pet nor the channel.
LEMMA BoardHeard ==
  ASSUME Typed, Heard, Unplug \/ Plug \/ Scan
  PROVE  Typed' /\ Heard'
<1>1. queue' = queue /\ UNCHANGED <<g, pet, loop, paused, night>>
  BY DEF Unplug, Plug, Scan, Sleeper
<1>2. HeldCodes(pet)' = HeldCodes(pet)
  BY <1>1 DEF HeldCodes
<1>3. \A d : LastDown(d)' <=> LastDown(d)
  BY <1>1, <1>2, SameWord
<1>4. CASE Unplug
  <2>1. /\ board' = FALSE /\ keys' = {} /\ lost' = lost \cup keys /\ inputs' = inputs + 1
        /\ reader' = IF reader = "live" THEN "dead" ELSE reader
    BY <1>4 DEF Unplug, Happens, Spend
  <2>4. reader' \in {"none", "live", "dead"}
    BY <2>1 DEF Typed
  <2>5. keys' \in SUBSET Nat /\ lost' \in SUBSET Nat
    BY <2>1 DEF Typed
  <2>6. inputs' \in Nat
    BY <2>1 DEF Typed
  <2>7. board' \in BOOLEAN
    BY <2>1, Zenon
  <2>2. Typed'
    BY <1>1, <2>4, <2>5, <2>6, <2>7 DEF Typed, loop
  <2>3. Heard'
    BY <1>1, <1>3, <2>1 DEF Heard, Balanced
  <2> QED
    BY <2>2, <2>3
<1>5. CASE Plug
  <2>1. board' = TRUE /\ UNCHANGED <<keys, reader, lost, inputs>>
    BY <1>5 DEF Plug
  <2>2. Typed'
    BY <1>1, <2>1 DEF Typed, loop
  <2>3. Heard'
    BY <1>1, <1>3, <2>1 DEF Heard, Balanced
  <2> QED
    BY <2>2, <2>3
<1>6. CASE Scan
  <2>1. /\ reader' = CASE board /\ reader # "dead" -> "live" [] OTHER -> "none"
        /\ reader' # reader /\ UNCHANGED <<keys, board, lost, inputs>>
    BY <1>6 DEF Scan
  <2>2. reader' \in {"live", "none"} /\ (reader' = "live" => board)
    BY <2>1
  <2>3. reader # "live"
    BY <2>1 DEF Heard, Typed
  <2>4. Typed'
    BY <1>1, <2>1, <2>2 DEF Typed, loop
  <2>5. Heard'
    BY <1>1, <1>3, <2>1, <2>2, <2>3 DEF Heard, Balanced
  <2> QED
    BY <2>4, <2>5
<1> QED
  BY <1>4, <1>5, <1>6

\* The other senders say nothing of a key.
LEMMA OthersHeard ==
  ASSUME Typed, Heard, ClickPet \/ Sample
  PROVE  Typed' /\ Heard'
<1>1. /\ \E t \in {"click", "system"} : Send(Word(t, 0))
      /\ UNCHANGED env /\ UNCHANGED <<g, pet, loop, paused, night>>
      /\ inputs' \in {inputs, inputs + 1}
  BY DEF ClickPet, Sample, Sleeper, Word, Happens, Spend
<1>2. PICK t \in {"click", "system"} : queue' = Append(queue, Word(t, 0))
  BY <1>1 DEF Send
<1>3. Word(t, 0) \in Event
  BY DEF Word, Event
<1>4. ASSUME NEW d, LastDown(d)'
      PROVE  LastDown(d)
  <2>1. Word(t, 0) = Word("press", d) \/ LastDown(d)
    BY <1>1, <1>2, <1>3, <1>4, AppendWord DEF Typed
  <2>2. Word(t, 0) # Word("press", d)
    BY WordsDiffer
  <2> QED
    BY <2>1, <2>2
<1>5. queue' \in Seq(Event)
  BY <1>2, <1>3 DEF Typed
<1>6. Typed'
  BY <1>1, <1>5 DEF Typed, loop, env
<1>7. Heard'
  BY <1>1, <1>4 DEF Heard, Balanced, env
<1> QED
  BY <1>6, <1>7

-----------------------------------------------------------------------------
\* The loop.

\* The pet handles an event, and wakes the loop.
LEMMA HandleSound ==
  ASSUME IInv, Handle
  PROVE  IInv'
<1>0. Typed /\ Apart(pet) /\ Heard /\ Alarmed /\ Follows /\ UpToDate
  BY DEF IInv
<1> DEFINE e == Head(queue)
<1>1. PICK p, q : p = pet /\ q = OnEvent(p, e)
  OBVIOUS
<1>2. /\ queue # <<>> /\ queue' = Tail(queue) /\ pc \in {"asleep", "woken"} /\ pc' = "woken"
      /\ pet = p /\ pet' = q
      /\ dirty' = (dirty \/ Changed(p, e))
      /\ late' = IF paused /\ Changed(p, e) THEN "frozen" ELSE late
      /\ UNCHANGED <<g, env, wake, drawn, due, paused, night, inputs>>
  BY <1>1 DEF Handle
<1>3. g \in Package /\ p \in PetType /\ queue \in Seq(Event)
  BY <1>0, <1>2 DEF Typed
<1>4. e \in Event /\ queue' \in Seq(Event)
  BY <1>2, <1>3
<1> HIDE DEF e
<1>5. /\ q \in PetType /\ Apart(q)
      /\ (~Changed(p, e) /\ (g.kind = "lua" => g.ownPixels)) =>
           /\ Known(q) = Known(p)
           /\ g.kind # "bongo" => q.last = p.last /\ q.frame = p.frame
  BY <1>0, <1>1, <1>2, <1>3, <1>4, OnEventDoes
<1>6. /\ Known(p)' = Known(p) /\ Known(q)' = Known(q) /\ Apart(q)' = Apart(q)
  BY <1>2, SameView
<1>7. Typed'
  <2>1. dirty' \in BOOLEAN
    <3>1. dirty' \in {TRUE, FALSE}
      BY <1>2, Zenon
    <3> QED
      BY <3>1
  <2>2. late' \in {"no", "slow", "frozen"}
    BY <1>0, <1>2 DEF Typed
  <2> QED
    BY <1>0, <1>2, <1>4, <1>5, <2>1, <2>2 DEF Typed, env
<1>8. Apart(pet)'
  BY <1>2, <1>5, <1>6
<1>9. Heard'
  <2>1. ASSUME g.kind = "sprite", g.press
        PROVE  /\ Balanced(q) /\ (g.ownKeys => q.held = <<>>)
               /\ \A c \in Nat : LastDown(c)' => LastDown(c)
    <3>1. q = SpriteEvent(p, e)
      BY <1>1, <2>1 DEF OnEvent
    <3>2. Balanced(p) /\ (g.ownKeys => p.held = <<>>)
      BY <1>0, <1>2, <2>1 DEF Heard
    <3>3. /\ Balanced(p) => Balanced(q)
          /\ g.ownKeys => q.held = p.held
          /\ \A c \in Codes(q.held) :
               \/ c \in Codes(p.held) /\ (g.ownKeys \/ ~(e.type = "release" /\ e.code = c))
               \/ e.type = "press" /\ e.code = c
      BY <1>3, <1>4, <2>1, <3>1, SpriteEventKeys
    <3>4. Codes(<<>>) = {}
      BY DEF Codes
    <3>5. e = Word(e.type, e.code)
      BY <1>4, EventIsWord
    <3>6. \A c : HeldCodes(pet) = Codes(p.held) /\ HeldCodes(pet)' = Codes(q.held)
      BY <1>2 DEF HeldCodes, Codes
    <3>7. ASSUME NEW c \in Nat, LastDown(c)'
          PROVE  LastDown(c)
      <4>1. c \in HeldCodes(pet)' =>
              \/ c \in HeldCodes(pet) /\ e # Word("release", c)
              \/ e = Word("press", c)
        <5>1. e = Word("release", c) => e.type = "release" /\ e.code = c
          BY <3>5, WordsDiffer
        <5>2. e.type = "press" /\ e.code = c => e = Word("press", c)
          BY <3>5
        <5> QED
          BY <3>2, <3>3, <3>4, <3>6, <5>1, <5>2
      <4> QED
        BY <1>2, <1>3, <3>7, <4>1, TailWord DEF e
    <3> QED
      BY <3>2, <3>3, <3>7
  <2> QED
    BY <1>0, <1>2, <2>1 DEF Heard, Balanced, env
<1>10. Alarmed'
  BY <1>2 DEF Alarmed
<1>11. Follows'
  <2>1. dirty' => (paused' => late' = "frozen")
    BY <1>0, <1>2 DEF Follows
  <2>2. ASSUME ~dirty', late' # "frozen", g.kind = "lua" => g.ownPixels
        PROVE  drawn = Known(q) /\ (g.kind # "bongo" => q.last = <<q.frame>>)
    <3>1. ~dirty /\ ~Changed(p, e) /\ late # "frozen"
      BY <1>2, <2>2
    <3>2. drawn = Known(p) /\ (g.kind # "bongo" => p.last = <<p.frame>>)
      BY <1>0, <1>2, <2>2, <3>1 DEF Follows
    <3> QED
      BY <1>5, <2>2, <3>1, <3>2
  <2> QED
    BY <1>2, <1>6, <2>1, <2>2 DEF Follows
<1>12. UpToDate'
  BY <1>2 DEF UpToDate
<1> QED
  BY <1>7, <1>8, <1>9, <1>10, <1>11, <1>12 DEF IInv

\* The loop's timeout or a command wakes it; the pet is as it was.
LEMMA WakesSound ==
  ASSUME IInv, Wake \/ TogglePause
  PROVE  IInv'
<1>0. Typed /\ Apart(pet) /\ Heard /\ Alarmed /\ Follows /\ UpToDate
  BY DEF IInv
<1>1. PICK p : p = pet
  OBVIOUS
<1>2. /\ pc = "asleep" /\ pc' = "woken" /\ pet = p /\ pet' = p
      /\ paused' \in {paused, ~paused} /\ inputs' \in {inputs, inputs + 1}
      /\ UNCHANGED <<g, env, queue, wake, dirty, drawn, due, late, night>>
  BY <1>1 DEF Wake, TogglePause, Happens, Spend
<1>3. Known(p)' = Known(p) /\ Apart(p)' = Apart(p)
  BY <1>2, SameView
<1>4. Typed'
  <2>1. paused' \in BOOLEAN
    <3>1. paused' \in {TRUE, FALSE}
      BY <1>0, <1>2 DEF Typed
    <3> QED
      BY <3>1
  <2> QED
    BY <1>0, <1>2, <2>1 DEF Typed, env
<1>5. Apart(pet)'
  BY <1>0, <1>2, <1>3
<1>6. Heard'
  <2>1. HeldCodes(pet)' = HeldCodes(pet)
    BY <1>2 DEF HeldCodes
  <2>2. \A d : LastDown(d)' <=> LastDown(d)
    BY <1>2, <2>1, SameWord
  <2> QED
    BY <1>0, <1>2, <2>2 DEF Heard, Balanced, env
<1>7. Alarmed' /\ UpToDate'
  BY <1>2 DEF Alarmed, UpToDate
<1>8. Follows'
  <2>1. ~dirty
    BY <1>0, <1>2 DEF Follows
  <2> QED
    BY <1>0, <1>2, <1>3, <2>1 DEF Follows
<1> QED
  BY <1>4, <1>5, <1>6, <1>7, <1>8 DEF IInv

\* One tick and one draw.
LEMMA TickSound ==
  ASSUME IInv, Tick
  PROVE  IInv'
<1>0. Typed /\ Apart(pet) /\ Heard /\ Alarmed /\ Follows /\ UpToDate
  BY DEF IInv
<1>1. PICK p, q : p = pet /\ q = IF paused THEN p ELSE TickPet(p)
  OBVIOUS
<1>2. /\ pc = "woken" /\ pc' = "ticked" /\ pet = p /\ pet' = q
      /\ due' = (paused /\ due)
      /\ drawn' = IF dirty \/ (~paused /\ TickChanged(p)) THEN View(q) ELSE drawn
      /\ dirty' = FALSE
      /\ late' = IF late = "frozen" /\ (paused \/ drawn' = drawn) THEN late ELSE "no"
      /\ UNCHANGED <<g, env, queue, wake, paused, night, inputs>>
  BY <1>1 DEF Tick
<1>3. g \in Package /\ p \in PetType /\ Apart(p)
  BY <1>0, <1>2 DEF Typed
<1>4. /\ Known(q)' = Known(q) /\ Apart(q)' = Apart(q) /\ View(q)' = View(q)
      /\ Target(g, q)' = Target(g, q)
  BY <1>2, SameView
<1>5. ~paused => q = TickPet(p)
  BY <1>1
<1>6. paused => q = p
  BY <1>1
<1>7. ~paused =>
        /\ q \in PetType /\ Apart(q)
        /\ (g.kind = "sprite" /\ g.press) => Holds(p, q) /\ q.cur = p.cur
        /\ Known(q) = View(q)
        /\ g.kind # "bongo" => q.last = <<q.frame>> /\ Target(g, q) \subseteq {q.cur}
        /\ ~TickChanged(p) =>
             /\ g.kind = "lua" => g.ownPixels
             /\ (g.kind # "bongo" => p.last = <<p.frame>>) => Known(q) = Known(p)
  BY <1>3, <1>5, TickPetDoes
<1>8. Typed'
  <2>1. due' \in BOOLEAN
    <3>1. due' \in {TRUE, FALSE}
      BY <1>2, Zenon
    <3> QED
      BY <3>1
  <2>2. late' \in {"no", "slow", "frozen"} /\ dirty' \in BOOLEAN
    BY <1>0, <1>2 DEF Typed
  <2>3. q \in PetType
    BY <1>3, <1>6, <1>7
  <2> QED
    BY <1>0, <1>2, <2>1, <2>2, <2>3 DEF Typed, env
<1>9. Apart(pet)'
  BY <1>2, <1>3, <1>4, <1>6, <1>7
<1>10. Heard'
  <2>1. (g.kind = "sprite" /\ g.press) => Holds(p, q) /\ q.cur = p.cur
    BY <1>6, <1>7 DEF Holds
  <2>2. ASSUME g.kind = "sprite", g.press
        PROVE  \A d : LastDown(d)' <=> LastDown(d)
    <3>1. HeldCodes(pet)' = HeldCodes(pet)
      BY <1>2, <2>1, <2>2 DEF HeldCodes, Holds
    <3> QED
      BY <1>2, <3>1, SameWord
  <2> QED
    BY <1>0, <1>2, <2>1, <2>2 DEF Heard, Balanced, env, Holds
<1>11. Alarmed'
  BY <1>2 DEF Alarmed
<1>12. \/ ~paused /\ drawn' = View(q)
       \/ ~paused /\ ~dirty /\ ~TickChanged(p) /\ drawn' = drawn /\ (late' = "no" => late # "frozen")
       \/ paused /\ ~dirty /\ drawn' = drawn /\ q = p /\ (late' # "frozen" => late # "frozen")
       \/ paused /\ dirty /\ late' = "frozen"
  <2>1. dirty /\ paused => late = "frozen"
    BY <1>0, <1>2 DEF Follows
  <2>2. CASE dirty \/ (~paused /\ TickChanged(p))
    BY <1>2, <2>1, <2>2
  <2>3. CASE ~(dirty \/ (~paused /\ TickChanged(p)))
    BY <1>2, <1>6, <2>1, <2>3
  <2> QED
    BY <2>2, <2>3
<1>13. ASSUME ~paused, late' # "frozen"
       PROVE  drawn' = View(q)
  <2>1. CASE drawn' = View(q)
    BY <2>1
  <2>2. CASE drawn' # View(q)
    <3>1. ~dirty /\ ~TickChanged(p) /\ drawn' = drawn /\ late # "frozen"
      <4>1. ~dirty /\ ~TickChanged(p) /\ drawn' = drawn /\ (late' = "no" => late # "frozen")
        BY <1>12, <1>13, <2>2
      <4>2. late # "frozen"
        BY <1>2, <1>13, <4>1
      <4> QED
        BY <4>1, <4>2
    <3>2. g.kind = "lua" => g.ownPixels
      BY <1>7, <1>13, <3>1
    <3>3. drawn = Known(p) /\ (g.kind # "bongo" => p.last = <<p.frame>>)
      BY <1>0, <1>2, <3>1, <3>2 DEF Follows
    <3> QED
      BY <1>7, <1>13, <3>1, <3>3
  <2> QED
    BY <2>1, <2>2
<1>14. Follows'
  <2>1. ASSUME late' # "frozen", g.kind = "lua" => g.ownPixels
        PROVE  drawn' = Known(q) /\ (g.kind # "bongo" => q.last = <<q.frame>>)
    <3>1. CASE ~paused
      BY <1>7, <1>13, <2>1, <3>1
    <3>2. CASE paused
      <4>1. ~dirty /\ drawn' = drawn /\ q = p /\ late # "frozen"
        BY <1>12, <2>1, <3>2
      <4> QED
        BY <1>0, <1>2, <2>1, <4>1 DEF Follows
    <3> QED
      BY <3>1, <3>2
  <2> QED
    BY <1>2, <1>4, <2>1 DEF Follows
<1>15. UpToDate'
  BY <1>2, <1>4, <1>7, <1>13 DEF UpToDate, Fresh
<1> QED
  BY <1>8, <1>9, <1>10, <1>11, <1>14, <1>15 DEF IInv

\* The loop asks for the next deadline and sleeps until then: the deadlines
\* are all the pet waits for, and the earliest is taken.
LEMMA DeadlineCovers ==
  ASSUME g \in Package, NEW p \in PetType, Apart(p)
  PROVE  /\ NextDeadline(p) \in SUBSET Nat
         /\ NextDeadline(p) = {} => p.hop = 0 \/ ~g.ownKeys
         /\ \A t \in Pending(p) : \E w \in NextDeadline(p) : w <= t
<1>0. g.kind \in {"bongo", "sprite", "lua"}
  BY DEF Package
<1>1. p.left \in Nat /\ p.right \in Nat /\ p.doze \in SUBSET Nat /\ p.speech \in SUBSET Nat /\ p.hop \in Nat
  BY DEF PetType
<1> DEFINE ds == CASE g.kind = "bongo"  -> BongoDeadlines(p)
                   [] g.kind = "sprite" -> SpriteDeadlines(g, p)
                   [] g.kind = "lua"    -> LuaDeadlines(p)
<1>2. NextDeadline(p) = IF ds = {} THEN {} ELSE {Min(ds)}
  BY DEF NextDeadline
<1>3. SpriteDeadlines(g, p) \in SUBSET Nat /\ {p.left, p.right} \ {0} \subseteq SpriteDeadlines(g, p)
  BY <1>1 DEF SpriteDeadlines
<1>4. ds \in SUBSET Nat /\ Pending(p) \subseteq ds /\ (ds = {} => p.hop = 0 \/ ~g.ownKeys)
  <2>1. CASE g.kind = "bongo"
    <3>1. BongoDeadlines(p) \in SUBSET Nat
      BY <1>1 DEF BongoDeadlines
    <3>2. ds = BongoDeadlines(p) /\ Pending(p) = BongoDeadlines(p) /\ p.hop = 0
      BY <2>1 DEF Pending, Apart
    <3> QED
      BY <3>1, <3>2
  <2>2. CASE g.kind = "sprite"
    <3>1. ds = SpriteDeadlines(g, p) /\ Pending(p) = {p.left, p.right} \ {0} /\ p.hop = 0
      BY <2>2 DEF Pending, Apart
    <3> QED
      BY <1>3, <3>1
  <2>3. CASE g.kind = "lua"
    <3>1. ds = LuaDeadlines(p) /\ Pending(p) = ({p.left, p.right} \ {0}) \cup p.speech
      BY <2>3 DEF Pending
    <3>2. CASE p.anim /\ SpriteDeadlines(g, p) = {}
      <4>1. LuaDeadlines(p) = {1} \cup p.speech
        BY <3>2 DEF LuaDeadlines
      <4>2. {p.left, p.right} \ {0} = {}
        BY <1>3, <3>2
      <4>3. ds = {1} \cup p.speech /\ Pending(p) = p.speech
        BY <3>1, <4>1, <4>2
      <4>4. 1 \in ds
        BY <4>3
      <4>5. {1} \in SUBSET Nat
        OBVIOUS
      <4>6. ds \in SUBSET Nat
        BY <1>1, <4>3, <4>5
      <4>7. Pending(p) \subseteq ds
        BY <4>3
      <4> HIDE DEF ds
      <4> QED
        BY <4>4, <4>6, <4>7
    <3>3. CASE ~(p.anim /\ SpriteDeadlines(g, p) = {})
      <4>1. LuaDeadlines(p) = SpriteDeadlines(g, p) \cup p.speech
        BY <3>3 DEF LuaDeadlines
      <4>2. ds = {} => ~p.anim
        BY <3>1, <3>3, <4>1
      <4>3. ds = {} => p.hop = 0 \/ ~g.ownKeys
        BY <1>1, <2>3, <4>2 DEF Apart
      <4> QED
        BY <1>1, <1>3, <3>1, <4>1, <4>3
    <3> QED
      BY <3>2, <3>3
  <2> QED
    BY <1>0, <2>1, <2>2, <2>3
<1> HIDE DEF ds
<1>5. CASE ds = {}
  BY <1>2, <1>4, <1>5
<1>6. CASE ds # {}
  <2>1. \E m \in ds : \A j \in ds : m <= j
    BY <1>4, <1>6, Smallest
  <2>2. Min(ds) \in ds /\ \A j \in ds : Min(ds) <= j
    BY <2>1 DEF Min
  <2>3. NextDeadline(p) = {Min(ds)}
    BY <1>2, <1>6
  <2> QED
    BY <1>4, <2>2, <2>3
<1> QED
  BY <1>5, <1>6

\* The loop goes to sleep.
LEMMA SleepSound ==
  ASSUME IInv, Sleep
  PROVE  IInv'
<1>0. Typed /\ Apart(pet) /\ Heard /\ Alarmed /\ Follows /\ UpToDate
  BY DEF IInv
<1>1. PICK p : p = pet
  OBVIOUS
<1>2. /\ pc = "ticked" /\ pc' = "asleep" /\ pet = p /\ pet' = p
      /\ wake' = IF paused THEN {} ELSE NextDeadline(p)
      /\ UNCHANGED <<g, env, queue, dirty, drawn, due, late, paused, night, inputs>>
  BY <1>1 DEF Sleep
<1>3. g \in Package /\ p \in PetType /\ Apart(p)
  BY <1>0, <1>2 DEF Typed
<1>4. /\ View(p)' = View(p) /\ Known(p)' = Known(p) /\ Pending(p)' = Pending(p)
      /\ Apart(p)' = Apart(p) /\ Fresh(p)' = Fresh(p)
  BY <1>2, SameView
<1>5. /\ NextDeadline(p) \in SUBSET Nat
      /\ NextDeadline(p) = {} => p.hop = 0 \/ ~g.ownKeys
      /\ \A t \in Pending(p) : \E w \in NextDeadline(p) : w <= t
  BY <1>3, DeadlineCovers
<1>6. Typed'
  <2>1. wake' \in SUBSET Nat
    BY <1>2, <1>5
  <2> QED
    BY <1>0, <1>2, <2>1 DEF Typed, env
<1>7. Apart(pet)'
  BY <1>2, <1>3, <1>4
<1>8. Heard'
  <2>1. HeldCodes(pet)' = HeldCodes(pet)
    BY <1>2 DEF HeldCodes
  <2>2. \A d : LastDown(d)' <=> LastDown(d)
    BY <1>2, <2>1, SameWord
  <2> QED
    BY <1>0, <1>2, <2>2 DEF Heard, Balanced, env
<1>9. Alarmed'
  BY <1>2, <1>4, <1>5 DEF Alarmed
<1>10. Follows'
  BY <1>0, <1>2, <1>4 DEF Follows
<1>11. UpToDate'
  BY <1>0, <1>2, <1>4 DEF UpToDate
<1> QED
  BY <1>6, <1>7, <1>8, <1>9, <1>10, <1>11 DEF IInv

\* Time passes: every timer loses a step, and so does the loop's timeout.
Older(p) == [p EXCEPT !.left = Capped(@), !.right = Capped(@),
                      !.doze = Count(@), !.speech = Count(@)]

\* What a step of time does to a pet.
LEMMA OlderDoes ==
  ASSUME NEW p \in PetType
  PROVE  LET q == Older(p)
         IN  /\ q \in PetType /\ Holds(p, q) /\ q.cur = p.cur /\ q.frame = p.frame
             /\ q.last = p.last /\ q.hop = p.hop /\ q.anim = p.anim /\ q.said = p.said
             /\ q.left = Capped(p.left) /\ q.right = Capped(p.right)
             /\ q.doze = Count(p.doze) /\ q.speech = Count(p.speech)
<1>1. p.left \in Nat /\ p.right \in Nat /\ p.doze \in SUBSET Nat /\ p.speech \in SUBSET Nat
  BY DEF PetType
<1> DEFINE l == Capped(p.left)  r == Capped(p.right)  d == Count(p.doze)  s == Count(p.speech)
           q == [p EXCEPT !.left = l, !.right = r, !.doze = d, !.speech = s]
<1>2. l \in Nat /\ r \in Nat
  BY <1>1, CappedFacts
<1>3. d \in SUBSET Nat /\ s \in SUBSET Nat
  BY <1>1, CappedFacts DEF Count
<1>4. Older(p) = q
  BY DEF Older
<1>5. l = Capped(p.left) /\ r = Capped(p.right) /\ d = Count(p.doze) /\ s = Count(p.speech)
  OBVIOUS
<1> HIDE DEF l, r, d, s
<1>6. /\ q \in PetType /\ Holds(p, q) /\ q.cur = p.cur /\ q.frame = p.frame
      /\ q.last = p.last /\ q.hop = p.hop /\ q.anim = p.anim /\ q.said = p.said
      /\ q.left = l /\ q.right = r /\ q.doze = d /\ q.speech = s
  BY <1>2, <1>3 DEF PetType, Holds
<1> HIDE DEF q
<1> QED
  BY <1>4, <1>5, <1>6

\* The timeout still covers what is pending.
LEMMA OlderCovered ==
  ASSUME g \in Package, NEW p \in PetType, NEW W \in SUBSET Nat,
         \A t \in Pending(p) : \E w \in W : w <= t
  PROVE  \A t \in Pending(Older(p)) : \E w \in Count(W) : w <= t
<1>0. g.kind \in {"bongo", "sprite", "lua"}
  BY DEF Package
<1>1. p.left \in Nat /\ p.right \in Nat /\ p.doze \in SUBSET Nat /\ p.speech \in SUBSET Nat
  BY DEF PetType
<1> DEFINE q == Older(p)
<1>2. /\ q.left = Capped(p.left) /\ q.right = Capped(p.right)
      /\ q.doze = Count(p.doze) /\ q.speech = Count(p.speech)
  BY OlderDoes
<1> HIDE DEF q
<1>3. Pending(p) \in SUBSET Nat
  BY <1>0, <1>1 DEF Pending, BongoDeadlines
<1>4. ASSUME NEW u \in Pending(p), NEW t \in Nat, Capped(u) <= t
      PROVE  \E w \in Count(W) : w <= t
  <2>1. PICK w \in W : w <= u
    OBVIOUS
  <2>2. u \in Nat /\ w \in Nat
    BY <1>3
  <2>3. Capped(w) <= Capped(u) /\ Capped(w) \in Nat /\ Capped(u) \in Nat
    BY <2>1, <2>2, CappedFacts
  <2>4. Capped(w) \in Count(W) /\ Capped(w) <= t
    BY <1>4, <2>3 DEF Count
  <2> QED
    BY <2>4
<1>5. \A n \in Nat : Capped(n) \in Nat /\ (Capped(n) # 0 => n # 0)
  BY CappedFacts
<1>6. ASSUME NEW t \in Pending(q)
      PROVE  t \in Nat /\ \E u \in Pending(p) : Capped(u) <= t
  <2>1. ASSUME t \in {q.left, q.right} \ {0}
        PROVE  t \in Nat /\ \E u \in {p.left, p.right} \ {0} : Capped(u) <= t
    BY <1>1, <1>2, <1>5, <2>1
  <2>2. CASE g.kind = "bongo"
    <3>1. Pending(q) = ({q.left, q.right} \ {0}) \cup (q.doze \ {0})
                         \cup (IF g.scheduled THEN {1} ELSE {})
      BY <2>2 DEF Pending, BongoDeadlines
    <3>2. Pending(p) = ({p.left, p.right} \ {0}) \cup (p.doze \ {0})
                         \cup (IF g.scheduled THEN {1} ELSE {})
      BY <2>2 DEF Pending, BongoDeadlines
    <3>3. CASE t \in {q.left, q.right} \ {0}
      BY <2>1, <3>2, <3>3
    <3>4. CASE t \in q.doze \ {0}
      <4>1. PICK u \in p.doze : t = Capped(u)
        BY <1>2, <3>4 DEF Count
      <4>2. u \in Nat /\ u # 0 /\ t \in Nat
        BY <1>1, <1>5, <3>4, <4>1
      <4>3. u \in Pending(p) /\ Capped(u) <= t
        BY <3>2, <4>1, <4>2
      <4> QED
        BY <4>2, <4>3
    <3>5. CASE g.scheduled /\ t = 1
      <4>1. Capped(1) <= 1
        BY CappedFacts
      <4> QED
        BY <3>2, <3>5, <4>1
    <3> QED
      BY <3>1, <3>3, <3>4, <3>5
  <2>3. CASE g.kind = "sprite"
    BY <2>1, <2>3 DEF Pending
  <2>4. CASE g.kind = "lua"
    <3>1. /\ Pending(q) = ({q.left, q.right} \ {0}) \cup q.speech
          /\ Pending(p) = ({p.left, p.right} \ {0}) \cup p.speech
      BY <2>4 DEF Pending
    <3>2. CASE t \in {q.left, q.right} \ {0}
      BY <2>1, <3>1, <3>2
    <3>3. CASE t \in q.speech
      <4>1. PICK u \in p.speech : t = Capped(u)
        BY <1>2, <3>3 DEF Count
      <4>2. u \in Nat /\ t \in Nat /\ Capped(u) <= t
        BY <1>1, <1>5, <4>1
      <4> QED
        BY <3>1, <4>2
    <3> QED
      BY <3>1, <3>2, <3>3
  <2> QED
    BY <1>0, <2>2, <2>3, <2>4
<1> QED
  BY <1>4, <1>6 DEF q

\* What a pet waits for is in the future, or now.
LEMMA PendingIsNat ==
  ASSUME g \in Package, NEW p \in PetType
  PROVE  Pending(p) \in SUBSET Nat
<1>0. g.kind \in {"bongo", "sprite", "lua"}
  BY DEF Package
<1>1. p.left \in Nat /\ p.right \in Nat /\ p.doze \in SUBSET Nat /\ p.speech \in SUBSET Nat
  BY DEF PetType
<1> QED
  BY <1>0, <1>1 DEF Pending, BongoDeadlines

\* A pet none of whose timers is about to run out looks the same a step later.
LEMMA OlderShows ==
  ASSUME g \in Package, g' = g, NEW p \in PetType, Apart(p),
         \A t \in Pending(p) : t > 1
  PROVE  LET q == Older(p)
         IN  /\ View(q)' = View(p)
             /\ (Target(g, p) \subseteq {p.cur}) => (Target(g, q) \subseteq {q.cur})
<1>0. g.kind \in {"bongo", "sprite", "lua"}
  BY DEF Package
<1>1. p.left \in Nat /\ p.right \in Nat /\ p.doze \in SUBSET Nat /\ p.speech \in SUBSET Nat
  BY DEF PetType
<1> DEFINE q == Older(p)
<1>2. /\ q.cur = p.cur /\ q.frame = p.frame /\ q.hop = p.hop
      /\ q.left = Capped(p.left) /\ q.right = Capped(p.right)
      /\ q.doze = Count(p.doze) /\ q.speech = Count(p.speech)
  BY OlderDoes
<1> HIDE DEF q
<1>3. {p.left, p.right} \ {0} \subseteq Pending(p)
  BY <1>0 DEF Pending, BongoDeadlines
<1>4. (p.left > 1 \/ p.left = 0) /\ (p.right > 1 \/ p.right = 0)
  BY <1>1, <1>3
<1>5. \A n \in Nat : /\ Capped(n) \in Nat
                     /\ (n > 1 => Capped(n) > 0) /\ (n = 0 => Capped(n) = 0)
  BY CappedFacts
<1>6. /\ q.left \in Nat /\ q.right \in Nat
      /\ q.left > 0 <=> p.left > 0
      /\ q.right > 0 <=> p.right > 0
      /\ q.left = 0 <=> p.left = 0
      /\ q.right = 0 <=> p.right = 0
  BY <1>1, <1>2, <1>4, <1>5
<1>7. (Target(g, p) \subseteq {p.cur}) => (Target(g, q) \subseteq {q.cur})
  BY <1>1, <1>2, <1>6, TargetDepends
<1>8. CASE g.kind = "bongo"
  <2>1. Pending(p) = BongoDeadlines(p)
    BY <1>8 DEF Pending
  <2>2. ~g.scheduled /\ \A t \in p.doze : t = 0 \/ t > 1
    BY <1>1, <2>1 DEF BongoDeadlines
  <2>3. 0 \in q.doze <=> 0 \in p.doze
    <3>1. ASSUME 0 \in q.doze
          PROVE  0 \in p.doze
      <4>1. PICK t \in p.doze : Capped(t) = 0
        BY <1>2, <3>1 DEF Count
      <4> QED
        BY <1>1, <1>5, <2>2, <4>1
    <3>2. ASSUME 0 \in p.doze
          PROVE  0 \in q.doze
      BY <1>2, <1>5, <3>2 DEF Count
    <3> QED
      BY <3>1, <3>2
  <2>4. SelectFrame(q) = SelectFrame(p)
    BY <1>6 DEF SelectFrame
  <2>5. Sleeping(q)' <=> Sleeping(p)
    BY <2>2, <2>3 DEF Sleeping
  <2>6. SelectFrame(q)' = SelectFrame(q)
    BY DEF SelectFrame
  <2>7. FrameId(q)' = FrameId(p)
    BY <2>4, <2>5, <2>6 DEF FrameId
  <2> QED
    BY <1>7, <1>8, <2>7 DEF View, q
<1>9. CASE g.kind # "bongo"
  <2>1. \A t \in p.speech : t > 1
    BY <1>0, <1>9 DEF Pending, Apart
  <2>2. Speaking(q) <=> Speaking(p)
    <3>1. ASSUME Speaking(q)
          PROVE  Speaking(p)
      <4>1. PICK u \in p.speech : TRUE
        BY <1>2, <3>1 DEF Speaking, Count
      <4>2. u > 0
        BY <1>1, <2>1
      <4> QED
        BY <4>2 DEF Speaking
    <3>2. ASSUME Speaking(p)
          PROVE  Speaking(q)
      <4>1. PICK u \in p.speech : TRUE
        BY <3>2 DEF Speaking
      <4>2. Capped(u) > 0 /\ Capped(u) \in q.speech
        BY <1>1, <1>2, <1>5, <2>1 DEF Count
      <4> QED
        BY <4>2 DEF Speaking
    <3> QED
      BY <3>1, <3>2
  <2>3. Speaking(q)' <=> Speaking(q)
    BY DEF Speaking
  <2>5. Speaking(q) = Speaking(p) /\ Speaking(q)' = Speaking(q)
    <3>1. Speaking(q) \in BOOLEAN /\ Speaking(p) \in BOOLEAN /\ Speaking(q)' \in BOOLEAN
      BY DEF Speaking
    <3> QED
      BY <2>2, <2>3, <3>1
  <2>4. View(q)' = View(p)
    BY <1>2, <1>9, <2>5 DEF View
  <2> QED
    BY <1>7, <2>4 DEF q
<1> QED
  BY <1>8, <1>9

\* Time passes, asleep or between the tick and the deadline.
LEMMA ElapseSound ==
  ASSUME IInv, Elapse
  PROVE  IInv'
<1>0. Typed /\ Apart(pet) /\ Heard /\ Alarmed /\ Follows /\ UpToDate
  BY DEF IInv
<1>1. PICK p, q : p = pet /\ q = Older(p)
  OBVIOUS
<1>2. /\ pc = "asleep" \/ pc = "ticked"
      /\ pet = p /\ pet' = q /\ wake' = Count(wake) /\ due' = TRUE
      /\ late' = IF pc = "ticked" /\ late = "no" THEN "slow" ELSE late
      /\ night' \in IF g.scheduled THEN BOOLEAN ELSE {night}
      /\ g' = g /\ pc' = pc /\ UNCHANGED <<env, queue, dirty, drawn, paused, inputs>>
  BY <1>1 DEF Elapse, Older
<1>3. g \in Package /\ p \in PetType /\ Apart(p) /\ wake \in SUBSET Nat
  BY <1>0, <1>2 DEF Typed
<1>4. /\ q \in PetType /\ Holds(p, q) /\ q.cur = p.cur /\ q.frame = p.frame
      /\ q.last = p.last /\ q.hop = p.hop /\ q.anim = p.anim /\ q.said = p.said
      /\ q.left = Capped(p.left) /\ q.right = Capped(p.right)
      /\ q.doze = Count(p.doze) /\ q.speech = Count(p.speech)
  BY <1>1, <1>3, OlderDoes
<1>5. Typed'
  <2>1. wake' \in SUBSET Nat
    <3>1. \A n \in wake : Capped(n) \in Nat
      BY <1>3, CappedFacts
    <3> QED
      BY <1>2, <3>1 DEF Count
  <2>2. due' \in BOOLEAN
    BY <1>2, Zenon
  <2>3. night' \in BOOLEAN
    BY <1>0, <1>2 DEF Typed
  <2>4. late' \in {"no", "slow", "frozen"}
    BY <1>0, <1>2 DEF Typed
  <2> QED
    BY <1>0, <1>2, <1>4, <2>1, <2>2, <2>3, <2>4 DEF Typed, env
<1>6. Apart(pet)'
  <2>1. Apart(q)
    BY <1>3, <1>4 DEF Apart, Count
  <2>2. Apart(q)' <=> Apart(q)
    BY <1>2 DEF Apart
  <2> QED
    BY <1>2, <2>1, <2>2
<1>7. Heard'
  <2>1. HeldCodes(pet)' = HeldCodes(pet)
    BY <1>2, <1>4 DEF HeldCodes, Holds
  <2>2. \A d : LastDown(d)' <=> LastDown(d)
    BY <1>2, <2>1, SameWord
  <2> QED
    BY <1>0, <1>2, <1>4, <2>2 DEF Heard, Balanced, env, Holds
<1>8. Alarmed'
  <2> SUFFICES ASSUME pc = "asleep", ~paused
               PROVE  /\ wake' = {} => q.hop = 0 \/ ~g.ownKeys
                      /\ \A t \in Pending(q) : \E w \in wake' : w <= t
    <3>1. Pending(q)' = Pending(q)
      BY <1>2 DEF Pending, BongoDeadlines
    <3> QED
      BY <1>2, <3>1 DEF Alarmed
  <2>1. /\ wake = {} => p.hop = 0 \/ ~g.ownKeys
        /\ \A t \in Pending(p) : \E w \in wake : w <= t
    BY <1>0, <1>2 DEF Alarmed
  <2>2. \A t \in Pending(q) : \E w \in Count(wake) : w <= t
    BY <1>1, <1>3, <2>1, OlderCovered
  <2>3. wake' = {} => wake = {}
    BY <1>2 DEF Count
  <2> QED
    BY <1>2, <1>4, <2>1, <2>2, <2>3
<1>9. Follows'
  <2>1. ~dirty
    BY <1>0, <1>2 DEF Follows
  <2>2. Known(q)' = Known(p)
    BY <1>2, <1>4 DEF Known
  <2>3. late' # "frozen" => late # "frozen"
    BY <1>2
  <2> QED
    BY <1>0, <1>2, <1>4, <2>1, <2>2, <2>3 DEF Follows
<1>10. UpToDate'
  <2> SUFFICES ASSUME pc = "asleep", ~paused, late = "no", 0 \notin Count(wake)
               PROVE  Fresh(q)'
    <3>1. pc = "ticked" => late' # "no"
      BY <1>2
    <3> QED
      BY <1>2, <3>1 DEF UpToDate
  <2>1. \A w \in wake : w > 1
    <3>1. \A w \in wake : w \in Nat /\ Capped(w) # 0
      BY <1>3 DEF Count
    <3>2. \A n \in Nat : Capped(n) \in Nat /\ (Capped(n) > 0 => n > 1)
      BY CappedFacts
    <3> QED
      BY <3>1, <3>2
  <2>2. Fresh(p)
    <3>1. 0 \notin wake
      BY <2>1
    <3> QED
      BY <1>0, <1>2, <3>1 DEF UpToDate
  <2>3. \A t \in Pending(p) : t > 1
    <3>1. \A t \in Pending(p) : \E w \in wake : w <= t
      BY <1>0, <1>2 DEF Alarmed
    <3>2. Pending(p) \in SUBSET Nat
      BY <1>3, PendingIsNat
    <3> QED
      BY <1>3, <2>1, <3>1, <3>2
  <2>4. /\ View(q)' = View(p)
        /\ (Target(g, p) \subseteq {p.cur}) => (Target(g, q) \subseteq {q.cur})
    BY <1>1, <1>2, <1>3, <2>3, OlderShows
  <2>5. Target(g, q)' = Target(g, q)
    BY <1>2 DEF Target
  <2>6. drawn' = drawn
    BY <1>2
  <2> QED
    BY <1>2, <2>2, <2>4, <2>5, <2>6 DEF Fresh
<1> QED
  BY <1>5, <1>6, <1>7, <1>8, <1>9, <1>10 DEF IInv

-----------------------------------------------------------------------------
\* The invariant.

\* Nothing was heard, drawn or waited for.
LEMMA InitSound ==
  ASSUME Init
  PROVE  IInv
<1> USE PetsAssumption
<1>1. PICK p : p = pet
  OBVIOUS
<1>2. /\ g \in Package /\ pet = p
      /\ p = IF g.kind = "bongo" THEN [NewPet EXCEPT !.last = <<"idle">>] ELSE NewPet
      /\ keys = {} /\ board = TRUE /\ reader = "none" /\ lost = {}
      /\ queue = <<>> /\ pc = "woken" /\ wake = {} /\ dirty = TRUE
      /\ paused = FALSE /\ night = FALSE /\ due = FALSE /\ late = "no" /\ inputs = 0
  BY <1>1 DEF Init
<1>3. /\ <<>> \in Seq(Key) /\ <<>> \in Seq(Nat) /\ <<"idle">> \in Seq(CatFrames)
      /\ <<>> \in Seq(Event) /\ Len(<<>>) = 0
  BY DEF CatFrames
<1>4. p \in PetType /\ p.hop = 0 /\ p.speech = {} /\ p.doze = {} /\ p.held = <<>>
      /\ p.down = 0 /\ p.any = FALSE /\ p.cur = Rest
  BY <1>2, <1>3 DEF NewPet, PetType, Animations
<1>5. Typed
  <2>1. board \in BOOLEAN /\ dirty \in BOOLEAN
    BY <1>2, Zenon
  <2>2. paused \in BOOLEAN /\ night \in BOOLEAN /\ due \in BOOLEAN
    BY <1>2, Zenon
  <2> QED
    BY <1>2, <1>3, <1>4, <2>1, <2>2 DEF Typed
<1>6. Apart(pet)
  BY <1>2, <1>4 DEF Apart
<1>7. Heard
  <2>1. DOMAIN p.held = {} /\ DOMAIN queue = {}
    BY <1>2, <1>4
  <2>2. HeldCodes(pet) = {}
    BY <1>2, <2>1 DEF HeldCodes
  <2>3. \A c : ~LastDown(c)
    BY <2>1, <2>2 DEF LastDown
  <2>4. Balanced(pet)
    BY <1>2, <1>3, <1>4, <2>1 DEF Balanced, Distinct
  <2> QED
    BY <1>2, <1>4, <2>3, <2>4 DEF Heard
<1>8. Alarmed /\ Follows /\ UpToDate
  BY <1>2 DEF Alarmed, Follows, UpToDate
<1> QED
  BY <1>5, <1>6, <1>7, <1>8 DEF IInv

\* A step of the keyboard's side: the loop and its pet are as they were.
LEMMA SendersSound ==
  ASSUME IInv, Keyboard \/ ClickPet \/ Sample
  PROVE  IInv'
<1>0. Typed /\ Apart(pet) /\ Heard /\ Alarmed /\ Follows /\ UpToDate
  BY DEF IInv
<1>1. UNCHANGED <<g, pet, loop, paused, night>>
  BY DEF Keyboard, KeyDown, KeyUp, Unplug, Plug, Scan, ClickPet, Sample, Sleeper
<1>2. Typed' /\ Heard'
  BY <1>0, KeyDownHeard, KeyUpHeard, BoardHeard, OthersHeard DEF Keyboard
<1> QED
  BY <1>0, <1>1, <1>2, LoopSame DEF IInv

\* Nothing happens.
LEMMA StutterSound ==
  ASSUME IInv, UNCHANGED vars
  PROVE  IInv'
<1>0. Typed /\ Apart(pet) /\ Heard /\ Alarmed /\ Follows /\ UpToDate
  BY DEF IInv
<1>1. /\ UNCHANGED <<g, pet, loop, paused, night>>
      /\ UNCHANGED <<env, queue, inputs>>
  BY DEF vars
<1>2. Typed'
  BY <1>0, <1>1 DEF Typed, env, loop
<1>3. Heard'
  <2>1. HeldCodes(pet)' = HeldCodes(pet)
    BY <1>1 DEF HeldCodes
  <2>2. \A d : LastDown(d)' <=> LastDown(d)
    BY <1>1, <2>1, SameWord
  <2> QED
    BY <1>0, <1>1, <2>2 DEF Heard, Balanced, env
<1> QED
  BY <1>0, <1>1, <1>2, <1>3, LoopSame DEF IInv

\* Whatever happens.
LEMMA NextSound ==
  ASSUME IInv, [Next]_vars
  PROVE  IInv'
<1>1. CASE Handle
  BY <1>1, HandleSound
<1>2. CASE Wake \/ TogglePause
  BY <1>2, WakesSound
<1>3. CASE Tick
  BY <1>3, TickSound
<1>4. CASE Sleep
  BY <1>4, SleepSound
<1>5. CASE Keyboard \/ ClickPet \/ Sample
  BY <1>5, SendersSound
<1>6. CASE Elapse
  BY <1>6, ElapseSound
<1>7. CASE UNCHANGED vars
  BY <1>7, StutterSound
<1> QED
  BY <1>1, <1>2, <1>3, <1>4, <1>5, <1>6, <1>7 DEF Next, Turn

\* The invariant holds from the first turn on: whatever is typed, clicked,
\* plugged and paused, the channel, the pet, the timeout and the surface agree
\* in the way the six parts say.
THEOREM PetsInvariant == Spec => []IInv
<1>1. Init => IInv
  BY InitSound
<1>2. IInv /\ [Next]_vars => IInv'
  BY NextSound
<1> QED
  BY <1>1, <1>2, PTL DEF Spec

-----------------------------------------------------------------------------
\* What it implies.

\* The keys of a held sequence; none means that it is empty.
LEMMA CodesAreNat ==
  ASSUME NEW h \in Seq(Key)
  PROVE  Codes(h) \in SUBSET Nat /\ (Codes(h) = {} => h = <<>>)
<1>1. Len(h) \in Nat /\ DOMAIN h = 1 .. Len(h) /\ \A i \in DOMAIN h : h[i] \in Key
  OBVIOUS
<1>2. Codes(h) \in SUBSET Nat
  BY <1>1 DEF Codes, Key
<1>3. ASSUME Codes(h) = {}
      PROVE  Len(h) = 0
  <2>1. h[1].code \in Codes(h) \/ 1 \notin DOMAIN h
    BY DEF Codes
  <2> QED
    BY <1>1, <1>3, <2>1
<1> QED
  BY <1>2, <1>3

\* The key bookkeeping of a press-mode sprite (sprite.rs press_key, release_key):
\* with the channel drained, a key is held only if it is down or was lost with
\* its board, held once, counted at most once, and with all keys up the pet is at
\* rest.
THEOREM KeysBalanceHolds == Spec => []KeysBalance
<1>1. ASSUME IInv
      PROVE  KeysBalance
  <2> SUFFICES ASSUME queue = <<>>, g.kind = "sprite", g.press
               PROVE  /\ HeldCodes(pet) \subseteq keys \cup lost
                      /\ Cardinality(HeldCodes(pet)) = Len(pet.held) /\ pet.down <= Len(pet.held)
                      /\ (keys = {} /\ lost = {}) =>
                           pet.held = <<>> /\ ~pet.any /\ pet.cur \in {Rest, "click"}
    BY DEF KeysBalance
  <2>1. Typed /\ Heard
    BY <1>1 DEF IInv
  <2>2. /\ Distinct(pet.held) /\ pet.down <= Len(pet.held)
        /\ pet.down = 0 => ~pet.any /\ pet.cur \in {Rest, "click"}
        /\ \A c \in Nat : LastDown(c) => c \in lost \/ c \in keys
    BY <2>1 DEF Heard, Balanced
  <2>3. pet.held \in Seq(Key) /\ pet.down \in Nat
    BY <2>1 DEF Typed, PetType
  <2>4. HeldCodes(pet) = Codes(pet.held)
    BY DEF HeldCodes, Codes
  <2>5. HeldCodes(pet) \subseteq keys \cup lost
    <3>1. \A c \in Codes(pet.held) : c \in Nat
      BY <2>3, CodesAreNat
    <3>2. \A c : ~Released(c, 0)
      BY DEF Released
    <3>3. \A c \in HeldCodes(pet) : LastDown(c)
      BY <3>2 DEF LastDown
    <3> QED
      BY <2>2, <2>4, <3>1, <3>3
  <2>6. Cardinality(HeldCodes(pet)) = Len(pet.held)
    BY <2>2, <2>3, <2>4, DistinctCount
  <2>7. ASSUME keys = {}, lost = {}
        PROVE  pet.held = <<>> /\ ~pet.any /\ pet.cur \in {Rest, "click"}
    <3>1. Codes(pet.held) = {}
      BY <2>4, <2>5, <2>7
    <3>2. pet.held = <<>>
      BY <2>3, <3>1, CodesAreNat
    <3>3. pet.down = 0
      BY <2>2, <2>3, <3>2
    <3> QED
      BY <2>2, <3>2, <3>3
  <2> QED
    BY <2>2, <2>5, <2>6, <2>7
<1> QED
  BY <1>1, PetsInvariant, PTL

\* A loop that sleeps without a timeout (app.rs next_deadline) has a pet with
\* nothing to come: no reaction, no nap, no bubble and no hop of a script that
\* owns the keys.
THEOREM PendingWakesHolds == Spec => []PendingWakes
<1>1. ASSUME IInv
      PROVE  PendingWakes
  <2> SUFFICES ASSUME pc = "asleep", wake = {}, ~paused
               PROVE  /\ pet.left = 0 /\ pet.right = 0
                      /\ pet.speech = {} /\ pet.doze \subseteq {0}
                      /\ g.ownKeys => pet.hop = 0
    BY DEF PendingWakes
  <2>1. Typed /\ Apart(pet) /\ Alarmed
    BY <1>1 DEF IInv
  <2>2. Pending(pet) = {} /\ (g.ownKeys => pet.hop = 0)
    BY <2>1 DEF Alarmed
  <2>3. g.kind \in {"bongo", "sprite", "lua"}
    BY <2>1 DEF Typed, Package
  <2> QED
    BY <2>1, <2>2, <2>3 DEF Pending, BongoDeadlines, Apart
<1> QED
  BY <1>1, PetsInvariant, PTL

\* A tick leaves the animation it wants on show.
LEMMA ShownStays ==
  ASSUME g \in Package, NEW p \in PetType, g.kind \in {"sprite", "lua"},
         Target(g, p) \subseteq {p.cur}
  PROVE  /\ TickPet(p) \in PetType /\ TickPet(p).cur = p.cur
         /\ TickPet(p).speech = p.speech
<1>1. ASSUME NEW i \in PetType, Target(g, i) \subseteq {i.cur}
      PROVE  SpriteStep(i).cur = i.cur
  <2>1. PlayAny(i, Target(g, i)) = i
    <3>1. CASE Target(g, i) = {}
      BY <3>1 DEF PlayAny
    <3>2. CASE Target(g, i) # {}
      <4>1. (CHOOSE a \in Target(g, i) : TRUE) = i.cur
        BY <1>1, <3>2
      <4> QED
        BY <3>2, <4>1 DEF PlayAny, Play
    <3> QED
      BY <3>1, <3>2
  <2> DEFINE n == NextFrame(g, i, due)
             t == [i EXCEPT !.frame = n]
             s == [t EXCEPT !.last = <<t.frame>>]
  <2>2. SpriteStep(i) = s
    BY <2>1 DEF SpriteStep, SpriteTick
  <2>3. s.cur = i.cur
    BY DEF PetType
  <2> QED
    BY <2>2, <2>3
<1>2. CASE g.kind = "sprite"
  <2>1. TickPet(p) = SpriteStep(p)
    BY <1>2 DEF TickPet
  <2> QED
    BY <1>1, <2>1, SpriteStepDoes
<1>3. CASE g.kind = "lua"
  <2> DEFINE i == IF g.ownPixels THEN OnTick(p) ELSE p
             a == SpriteStep(i)
             b == OnTick(a)
             n == IF g.ownPixels THEN b.anim /\ b.hop # a.hop ELSE b.anim
             v == Speaking(p)
             q == [b EXCEPT !.anim = n, !.said = v]
  <2>1. LuaTick(p) = q
    BY DEF LuaTick
  <2>2. i \in PetType /\ i.cur = p.cur /\ Target(g, i) = Target(g, p)
    BY OnTickDoes
  <2> HIDE DEF i
  <2>3. a \in PetType /\ a.cur = p.cur
    BY <1>1, <2>2, SpriteStepDoes
  <2> HIDE DEF a
  <2>4. b \in PetType /\ b.cur = p.cur
    BY <2>3, OnTickDoes
  <2> HIDE DEF b, n, v
  <2>5. q.cur = p.cur
    BY <2>4 DEF PetType
  <2>6. TickPet(p) = LuaTick(p)
    BY <1>3 DEF TickPet
  <2> QED
    BY <2>1, <2>5, <2>6, LuaTickDoes
<1> QED
  BY <1>2, <1>3

\* A loop that sleeps with no timer run out shows what another tick would draw
\* (app.rs tick and draw): no change of state went without its redraw.
THEOREM ScreenCurrentHolds == Spec => []ScreenCurrent
<1>1. ASSUME g \in Package, NEW p \in PetType, Apart(p), Fresh(p)
      PROVE  View(Settled(p)) = View(p)
  <2>0. g.kind \in {"bongo", "sprite", "lua"}
    BY <1>1 DEF Package
  <2>1. CASE g.kind = "bongo"
    <3> DEFINE f == FrameId(p)
               q == [[p EXCEPT !.last = <<f>>] EXCEPT !.frame = p.frame, !.hop = p.hop]
    <3>1. Settled(p) = q
      BY <2>1 DEF Settled, TickPet
    <3>2. q.left = p.left /\ q.right = p.right /\ q.doze = p.doze
      BY <1>1 DEF PetType
    <3> HIDE DEF q
    <3>3. FrameId(q) = FrameId(p)
      BY <3>2 DEF FrameId, SelectFrame, Sleeping
    <3> QED
      BY <2>1, <3>1, <3>3 DEF View
  <2>2. CASE g.kind # "bongo"
    <3> DEFINE t == TickPet(p)
               q == [t EXCEPT !.frame = p.frame, !.hop = p.hop]
    <3>1. t \in PetType /\ t.cur = p.cur /\ t.speech = p.speech
      BY <1>1, <2>0, <2>2, ShownStays DEF Fresh
    <3>2. Settled(p) = q
      BY DEF Settled
    <3> HIDE DEF t
    <3>3. q.cur = p.cur /\ q.frame = p.frame /\ q.hop = p.hop /\ q.speech = p.speech
      BY <3>1 DEF PetType
    <3> HIDE DEF q
    <3>4. Speaking(q) = Speaking(p)
      BY <3>3 DEF Speaking
    <3> QED
      BY <2>2, <3>2, <3>3, <3>4 DEF View
  <2> QED
    BY <2>1, <2>2
<1>2. ASSUME IInv
      PROVE  ScreenCurrent
  <2> SUFFICES ASSUME pc = "asleep", ~paused, late = "no", 0 \notin wake
               PROVE  drawn = View(Settled(pet))
    BY DEF ScreenCurrent
  <2>1. Typed /\ Apart(pet) /\ Fresh(pet)
    BY <1>2 DEF IInv, UpToDate
  <2>2. View(Settled(pet)) = View(pet)
    BY <1>1, <2>1 DEF Typed
  <2> QED
    BY <2>1, <2>2 DEF Fresh
<1> QED
  BY <1>2, PetsInvariant, PTL
=============================================================================
