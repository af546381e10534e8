--------------------------- MODULE StackerProofs ----------------------------
(* Theorems about Stacker: for any number of blocks, retries and grasps.    *)
EXTENDS Stacker, SequenceTheorems, TLAPS

(* In every module that extends this one, and in TLC's runs, the constants  *)
(* are as Stacker assumes.                                                  *)
USE StackerAssumption

-----------------------------------------------------------------------------
(* The order of the blocks, and its beginnings.                             *)

N == Len(Order)

Base == Order[1]

LEMMA OrderFacts ==
    /\ N \in Nat /\ N >= 2 /\ DOMAIN Order = 1 .. N
    /\ \A i \in 1 .. N : Order[i] \in Blocks
    /\ \A i, j \in 1 .. N : Order[i] = Order[j] => i = j
    /\ \A b \in Blocks : \E i \in 1 .. N : b = Order[i]
    /\ Base \in Blocks
<1>1. N \in Nat /\ N >= 2 /\ DOMAIN Order = 1 .. N
  BY DEF N
<1>2. \A i \in 1 .. N : Order[i] \in Blocks
  BY DEF N
<1>3. \A i, j \in 1 .. N : Order[i] = Order[j] => i = j
  BY <1>1
<1>4. \A b \in Blocks : \E i \in 1 .. N : b = Order[i]
  BY <1>1 DEF Blocks, Members
<1> QED
  BY <1>1, <1>2, <1>3, <1>4 DEF Base

LEMMA FirstFacts ==
    ASSUME NEW m \in 0 .. N
    PROVE  /\ First(m) \in Seq(Blocks) /\ Len(First(m)) = m
           /\ \A i \in 1 .. m : First(m)[i] = Order[i]
<1>1. m \in Nat /\ m <= Len(Order)
  BY OrderFacts DEF N
<1>2. /\ SubSeq(Order, 1, m) \in Seq(Blocks)
      /\ Len(SubSeq(Order, 1, m)) = m
      /\ \A i \in 1 .. m : SubSeq(Order, 1, m)[i] = Order[i]
  BY <1>1
<1> QED
  BY <1>2 DEF First

LEMMA FirstGrows ==
    ASSUME NEW m \in 0 .. N - 1
    PROVE  Append(First(m), Order[m + 1]) = First(m + 1)
<1>1. m \in 0 .. N /\ m + 1 \in 0 .. N /\ m + 1 \in 1 .. N /\ m \in Nat
  BY OrderFacts
<1>2. First(m) \in Seq(Blocks) /\ Len(First(m)) = m /\ Order[m + 1] \in Blocks
  BY <1>1, OrderFacts, FirstFacts
<1> DEFINE s == Append(First(m), Order[m + 1])
<1>3. s \in Seq(Blocks) /\ Len(s) = m + 1 /\ s[m + 1] = Order[m + 1]
      /\ \A i \in 1 .. m : s[i] = First(m)[i]
  BY <1>1, <1>2
<1>4. First(m + 1) \in Seq(Blocks) /\ Len(First(m + 1)) = m + 1
      /\ \A i \in 1 .. m + 1 : First(m + 1)[i] = Order[i]
  BY <1>1, FirstFacts
<1>5. \A i \in 1 .. m : s[i] = Order[i]
  BY <1>1, <1>3, FirstFacts
<1>6. \A i \in 1 .. m + 1 : s[i] = First(m + 1)[i]
  BY <1>1, <1>3, <1>4, <1>5
<1> HIDE DEF s
<1> QED
  BY <1>3, <1>4, <1>6, SeqEqual DEF s

LEMMA FirstIsAll == First(N) = Order
<1>1. N \in 0 .. N
  BY OrderFacts
<1>2. /\ First(N) \in Seq(Blocks) /\ Len(First(N)) = N
      /\ \A i \in 1 .. N : First(N)[i] = Order[i]
  BY <1>1, FirstFacts
<1> QED
  BY <1>2, SeqEqual DEF N

-----------------------------------------------------------------------------
(* The inductive invariant.                                                 *)

(* Every block is once in the stacks, or in g, or in f.                     *)
Once(s) ==
    \A p, r \in Blocks : \A i \in 1 .. Len(s[p]), j \in 1 .. Len(s[r]) :
        s[p][i] = s[r][j] => p = r /\ i = j

Apart(s, g, f) ==
    /\ s \in [Blocks -> Seq(Blocks)] /\ g \subseteq Blocks /\ f \subseteq Blocks
    /\ Once(s)
    /\ \A b \in g : b \notin f /\ \A p \in Blocks : b \notin Members(s[p])
    /\ \A b \in f : \A p \in Blocks : b \notin Members(s[p])
    /\ \A b \in Blocks : b \in g \/ b \in f \/ \E p \in Blocks : b \in Members(s[p])

Jaws == IF held = None THEN {} ELSE {held}

WorldFits ==
    /\ Apart(stack, gone, Jaws)
    /\ held \in Blocks \cup {None} /\ at \in Blocks \cup {None}

CountsFit ==
    /\ pc \in Moving \cup Ended \cup {"build", "unstable"}
    /\ retries \in 0 .. Retries /\ grip \in 0 .. Grips
    /\ known \in BOOLEAN /\ foreign \in BOOLEAN /\ piled \in BOOLEAN
    /\ pc = "setdown" => grip < Grips

(* What is remembered is a beginning of the order.                          *)
ProgressFits ==
    progress # None =>
        /\ progress \in [placed : Seq(Blocks), at : Blocks]
        /\ Len(progress.placed) \in 2 .. N
        /\ progress.placed = First(Len(progress.placed))

K == Len(plan.placed)

(* The build under way goes on from what is remembered.                     *)
PlanFits ==
    pc \in Moving =>
        /\ plan \in [placed : Seq(Blocks), at : Blocks, surface : Nat]
        /\ K \in 1 .. N /\ plan.placed = First(K)
        /\ \/ progress = None /\ K = 1
           \/ progress # None /\ progress.placed = plan.placed
        /\ pc \notin {"tier", "park"} => K < N /\ block = Order[K + 1]

InAir == {"lift", "setdown", "carry", "lower"}

StepFits ==
    /\ pc \in InAir \cup {"descend", "verify"} => at \in Blocks
    /\ pc \in {"descend", "verify"} => held = None

(* How many blocks of the order the agent takes to stand on one another.    *)
Remembered == IF progress = None THEN 1 ELSE Len(progress.placed)

Tower == stack[Base]

(* The lowest n blocks of stack t are the first n of the order.             *)
Stands(t, n) == Len(t) >= n /\ \A i \in 1 .. n : t[i] = Order[i]

(* A block among the first n is in t only on those before it: once off the  *)
(* tower, it is not put back before it is its turn.                         *)
Kept(t, n) == \A i \in 1 .. n : Order[i] \in Members(t) => Stands(t, i)

(* No other stack than the tower ...                                        *)
PlainStacks ==
    /\ \A p \in Blocks : p # Base => stack[p] = << >> \/ stack[p] = <<p>>
    /\ Kept(Tower, Remembered)
    /\ held # None => /\ at = held \/ at = Base
                      /\ \A i \in 2 .. Remembered : held # Order[i]
                      /\ held = Base => Tower = << >>

(* ... and that is what the agent builds on.                                *)
PlainBuild ==
    /\ pc \in Moving => plan.at = Base
    /\ pc = "descend" => at = block \/ at = Base
    /\ pc = "lower" => at = Base
    /\ pc = "verify" /\ block \in Members(Tower) => Tower[Len(Tower)] = block
    /\ progress # None /\ progress.at # Base =>
          pc \notin Moving /\ held = None
              /\ Order[Len(progress.placed)] \notin Members(Tower)

PlainFits == ~foreign /\ ~piled /\ pc # "done" => PlainStacks /\ PlainBuild

(* The stack of an attempt that knows of every stack.                       *)
Site == stack[plan.at]

KnownStacks ==
    /\ \A p \in Blocks : p # plan.at => stack[p] = << >> \/ stack[p] = <<p>>
    /\ plan.surface = K
    /\ \E i \in 1 .. K : plan.at = Order[i]
    /\ pc \in {"tier", "descend"} \/ (pc \in InAir /\ held # None) =>
          Len(Site) <= K /\ \A i \in 1 .. Len(Site) : Site[i] = Order[i]
    /\ pc = "verify" =>
          /\ Len(Site) <= K + 1
          /\ \A i \in 1 .. Len(Site) :
                Site[i] = Order[i] \/ (i = Len(Site) /\ Site[i] = block)

KnownTool ==
    /\ pc \in {"tier", "park"} => held = None
    /\ pc \in InAir /\ held # None => held = block
    /\ pc \in {"descend", "lift", "setdown", "carry"} => at = block
    /\ pc = "lower" => at = plan.at

KnownFits == known /\ pc \in Moving => KnownStacks /\ KnownTool

IInv ==
    /\ WorldFits /\ CountsFit /\ ProgressFits /\ PlanFits /\ StepFits
    /\ PlainFits /\ KnownFits

-----------------------------------------------------------------------------
(* Sequences: what is in one, and what adding to and cutting it leaves.     *)

LEMMA MemberAt ==
    ASSUME NEW s \in Seq(Blocks), NEW b
    PROVE  b \in Members(s) <=> \E i \in 1 .. Len(s) : s[i] = b
BY DEF Members

LEMMA AppendFacts ==
    ASSUME NEW s \in Seq(Blocks), NEW b \in Blocks
    PROVE  /\ Append(s, b) \in Seq(Blocks) /\ Len(Append(s, b)) = Len(s) + 1
           /\ \A i \in 1 .. Len(s) : Append(s, b)[i] = s[i]
           /\ Append(s, b)[Len(s) + 1] = b
           /\ \A c : c \in Members(Append(s, b)) <=> c \in Members(s) \/ c = b
<1> DEFINE t == Append(s, b)
<1>1. /\ t \in Seq(Blocks) /\ Len(t) = Len(s) + 1
      /\ \A i \in 1 .. Len(s) : t[i] = s[i]
      /\ t[Len(s) + 1] = b /\ Len(s) \in Nat
  OBVIOUS
<1> HIDE DEF t
<1>2. ASSUME NEW c PROVE c \in Members(t) <=> c \in Members(s) \/ c = b
  <2>1. c \in Members(t) <=> \E i \in 1 .. Len(t) : t[i] = c
    BY <1>1, MemberAt
  <2>2. c \in Members(s) <=> \E i \in 1 .. Len(s) : s[i] = c
    BY MemberAt
  <2>3. ASSUME c \in Members(t) PROVE c \in Members(s) \/ c = b
    <3>1. PICK i \in 1 .. Len(t) : t[i] = c
      BY <2>1, <2>3
    <3>2. i \in 1 .. Len(s) \/ i = Len(s) + 1
      BY <1>1
    <3> QED
      BY <1>1, <2>2, <3>1, <3>2
  <2>4. ASSUME c \in Members(s) PROVE c \in Members(t)
    <3>1. PICK i \in 1 .. Len(s) : s[i] = c
      BY <2>2, <2>4
    <3>2. i \in 1 .. Len(t) /\ t[i] = c
      BY <1>1, <3>1
    <3> QED
      BY <2>1, <3>2
  <2>5. ASSUME c = b PROVE c \in Members(t)
    <3>1. Len(s) + 1 \in 1 .. Len(t)
      BY <1>1
    <3> QED
      BY <1>1, <2>1, <2>5, <3>1
  <2> QED
    BY <2>3, <2>4, <2>5
<1> QED
  BY <1>1, <1>2 DEF t

LEMMA CutFacts ==
    ASSUME NEW s \in Seq(Blocks), NEW n \in 0 .. Len(s)
    PROVE  /\ SubSeq(s, 1, n) \in Seq(Blocks) /\ Len(SubSeq(s, 1, n)) = n
           /\ \A i \in 1 .. n : SubSeq(s, 1, n)[i] = s[i]
           /\ \A c : c \in Members(SubSeq(s, 1, n)) <=> \E i \in 1 .. n : s[i] = c
<1> DEFINE t == SubSeq(s, 1, n)
<1>1. Len(s) \in Nat /\ n \in Nat /\ n <= Len(s)
  OBVIOUS
<1>2. t \in Seq(Blocks) /\ Len(t) = n /\ \A i \in 1 .. n : t[i] = s[i]
  BY <1>1
<1> HIDE DEF t
<1>3. ASSUME NEW c PROVE c \in Members(t) <=> \E i \in 1 .. n : s[i] = c
  BY <1>2, MemberAt
<1> QED
  BY <1>2, <1>3 DEF t

LEMMA RestFacts ==
    ASSUME NEW s \in Seq(Blocks), NEW n \in 0 .. Len(s), NEW c
    PROVE  c \in Members(SubSeq(s, n + 1, Len(s)))
               <=> \E i \in n + 1 .. Len(s) : s[i] = c
<1> DEFINE t == SubSeq(s, n + 1, Len(s))
<1>1. Len(s) \in Nat /\ n \in Nat /\ n <= Len(s)
  OBVIOUS
<1>2. DOMAIN t = 1 .. Len(s) - n /\ \A i \in 1 .. Len(s) - n : t[i] = s[n + i]
  BY <1>1
<1> HIDE DEF t
<1>3. c \in Members(t) <=> \E i \in 1 .. Len(s) - n : t[i] = c
  BY <1>2 DEF Members
<1>4. ASSUME c \in Members(t) PROVE \E i \in n + 1 .. Len(s) : s[i] = c
  <2>1. PICK i \in 1 .. Len(s) - n : t[i] = c
    BY <1>3, <1>4
  <2>2. n + i \in n + 1 .. Len(s) /\ s[n + i] = c
    BY <1>1, <1>2, <2>1
  <2> QED
    BY <2>2
<1>5. ASSUME NEW i \in n + 1 .. Len(s), s[i] = c PROVE c \in Members(t)
  <2>1. i - n \in 1 .. Len(s) - n /\ t[i - n] = s[n + (i - n)] /\ n + (i - n) = i
    BY <1>1, <1>2
  <2> QED
    BY <1>3, <1>5, <2>1
<1> QED
  BY <1>4, <1>5 DEF t

-----------------------------------------------------------------------------
(* Every block is somewhere, once, after blocks fall, land or are lifted.   *)

(* Of the stacks s, some get one of these blocks each, and become t.        *)
Gains(s, t, kept, to) ==
    /\ t \in [Blocks -> Seq(Blocks)]
    /\ \A b \in kept : t[to[b]] = Append(s[to[b]], b)
    /\ \A p \in Blocks : (\A b \in kept : to[b] # p) => t[p] = s[p]

LEMMA GainsApart ==
    ASSUME NEW s, NEW g, NEW fallen, NEW f, Apart(s, g, fallen \cup f),
           fallen \cap f = {},
           NEW kept \in SUBSET fallen, NEW to \in [kept -> Blocks],
           \A b, c \in kept : to[b] = to[c] => b = c,
           NEW t, Gains(s, t, kept, to)
    PROVE  Apart(t, g \cup (fallen \ kept), f)
<1>1. /\ s \in [Blocks -> Seq(Blocks)] /\ g \subseteq Blocks
      /\ fallen \subseteq Blocks /\ f \subseteq Blocks /\ Once(s)
      /\ \A b \in g : b \notin fallen /\ b \notin f
      /\ \A b \in g : \A p \in Blocks : b \notin Members(s[p])
      /\ \A b \in fallen : \A p \in Blocks : b \notin Members(s[p])
      /\ \A b \in f : \A p \in Blocks : b \notin Members(s[p])
      /\ \A b \in Blocks : b \in g \/ b \in fallen \/ b \in f
                              \/ \E p \in Blocks : b \in Members(s[p])
  BY DEF Apart
<1> DEFINE h == g \cup (fallen \ kept)
<1>3. h = g \cup (fallen \ kept)
  OBVIOUS
<1> HIDE DEF h
<1>4. \A b \in kept : b \in Blocks /\ b \in fallen /\ to[b] \in Blocks
  BY <1>1
<1>5. \A b \in kept : t[to[b]] = Append(s[to[b]], b)
  BY DEF Gains
<1>6. \A p \in Blocks : (\A b \in kept : to[b] # p) => t[p] = s[p]
  BY DEF Gains
<1>7. ASSUME NEW p \in Blocks
      PROVE  /\ t[p] \in Seq(Blocks) /\ Len(t[p]) \in Nat /\ Len(s[p]) \in Nat
             /\ Len(t[p]) >= Len(s[p])
             /\ \A i \in 1 .. Len(s[p]) : t[p][i] = s[p][i]
             /\ \A i \in 1 .. Len(t[p]) : i > Len(s[p]) =>
                    /\ i = Len(s[p]) + 1
                    /\ t[p][i] \in kept /\ to[t[p][i]] = p
  <2>1. CASE \E b \in kept : to[b] = p
    <3>1. PICK b \in kept : to[b] = p
      BY <2>1
    <3>2. t[p] = Append(s[p], b) /\ s[p] \in Seq(Blocks) /\ b \in Blocks
      BY <1>1, <1>4, <1>5, <3>1
    <3>3. /\ Append(s[p], b) \in Seq(Blocks) /\ Len(Append(s[p], b)) = Len(s[p]) + 1
          /\ \A i \in 1 .. Len(s[p]) : Append(s[p], b)[i] = s[p][i]
          /\ Append(s[p], b)[Len(s[p]) + 1] = b
      BY <3>2, AppendFacts
    <3> QED
      BY <3>1, <3>2, <3>3
  <2>2. CASE \A b \in kept : to[b] # p
    <3>1. t[p] = s[p] /\ s[p] \in Seq(Blocks)
      BY <1>1, <1>6, <2>2
    <3>2. Len(s[p]) \in Nat
      BY <3>1
    <3> QED
      BY <3>1, <3>2
  <2> QED
    BY <2>1, <2>2
<1>8. t \in [Blocks -> Seq(Blocks)]
  BY DEF Gains
<1>9. ASSUME NEW p \in Blocks, NEW b
      PROVE  b \in Members(t[p]) <=> b \in Members(s[p]) \/ (b \in kept /\ to[b] = p)
  <2>0. t[p] \in Seq(Blocks) /\ s[p] \in Seq(Blocks)
    BY <1>1, <1>7
  <2>1. b \in Members(t[p]) <=> \E i \in 1 .. Len(t[p]) : t[p][i] = b
    BY <2>0, MemberAt
  <2>2. b \in Members(s[p]) <=> \E i \in 1 .. Len(s[p]) : s[p][i] = b
    BY <1>1, MemberAt
  <2>3. ASSUME b \in Members(t[p]) PROVE b \in Members(s[p]) \/ (b \in kept /\ to[b] = p)
    <3>1. PICK i \in 1 .. Len(t[p]) : t[p][i] = b
      BY <2>1, <2>3
    <3>2. i \in 1 .. Len(s[p]) \/ i > Len(s[p])
      BY <1>7
    <3> QED
      BY <1>7, <2>2, <3>1, <3>2
  <2>4. ASSUME b \in Members(s[p]) PROVE b \in Members(t[p])
    <3>1. PICK i \in 1 .. Len(s[p]) : s[p][i] = b
      BY <2>2, <2>4
    <3>2. i \in 1 .. Len(t[p]) /\ t[p][i] = b
      BY <1>7, <3>1
    <3> QED
      BY <2>1, <3>2
  <2>5. ASSUME b \in kept, to[b] = p PROVE b \in Members(t[p])
    <3>1. s[p] \in Seq(Blocks) /\ b \in Blocks /\ t[p] = Append(s[p], b)
      BY <1>1, <1>4, <1>5, <2>5
    <3> QED
      BY <3>1, AppendFacts
  <2> QED
    BY <2>3, <2>4, <2>5
<1>10. Once(t)
  <2> SUFFICES ASSUME NEW p \in Blocks, NEW r \in Blocks,
                      NEW i \in 1 .. Len(t[p]), NEW j \in 1 .. Len(t[r]),
                      t[p][i] = t[r][j]
               PROVE  p = r /\ i = j
    BY DEF Once
  <2>1. CASE i <= Len(s[p]) /\ j <= Len(s[r])
    <3>1. i \in 1 .. Len(s[p]) /\ j \in 1 .. Len(s[r])
      BY <1>7, <2>1
    <3>2. s[p][i] = s[r][j]
      BY <1>7, <3>1
    <3>3. \A v \in 1 .. Len(s[p]), w \in 1 .. Len(s[r]) : s[p][v] = s[r][w] => p = r /\ v = w
      BY <1>1 DEF Once
    <3> QED
      BY <3>1, <3>2, <3>3
  <2>2. CASE i <= Len(s[p]) /\ j > Len(s[r])
    <3>1. i \in 1 .. Len(s[p]) /\ t[p][i] = s[p][i]
      BY <1>7, <2>2
    <3>2. t[r][j] \in fallen
      BY <1>4, <1>7, <2>2
    <3>3. s[p][i] \in Members(s[p])
      BY <1>1, <3>1, MemberAt
    <3> QED
      BY <1>1, <3>1, <3>2, <3>3
  <2>3. CASE i > Len(s[p]) /\ j <= Len(s[r])
    <3>1. j \in 1 .. Len(s[r]) /\ t[r][j] = s[r][j]
      BY <1>7, <2>3
    <3>2. t[p][i] \in fallen
      BY <1>4, <1>7, <2>3
    <3>3. s[r][j] \in Members(s[r])
      BY <1>1, <3>1, MemberAt
    <3> QED
      BY <1>1, <3>1, <3>2, <3>3
  <2>4. CASE i > Len(s[p]) /\ j > Len(s[r])
    <3>1. p = r
      BY <1>7, <2>4
    <3> QED
      BY <1>7, <2>4, <3>1
  <2> QED
    BY <1>7, <2>1, <2>2, <2>3, <2>4
<1>11. h \subseteq Blocks
  BY <1>1, <1>3
<1>12. ASSUME NEW b \in h PROVE b \notin f /\ \A p \in Blocks : b \notin Members(t[p])
  <2>1. b \in g \/ (b \in fallen /\ b \notin kept)
    BY <1>3
  <2> QED
    BY <1>1, <1>9, <2>1
<1>13. ASSUME NEW b \in f PROVE \A p \in Blocks : b \notin Members(t[p])
  BY <1>1, <1>4, <1>9
<1>14. ASSUME NEW b \in Blocks
       PROVE  b \in h \/ b \in f \/ \E p \in Blocks : b \in Members(t[p])
  <2>1. CASE b \in g \/ b \in f \/ \E p \in Blocks : b \in Members(s[p])
    BY <1>3, <1>9, <2>1
  <2>2. CASE b \in fallen
    <3>1. b \notin kept => b \in h
      BY <1>3, <2>2
    <3>2. b \in kept => to[b] \in Blocks /\ b \in Members(t[to[b]])
      BY <1>4, <1>9
    <3> QED
      BY <3>1, <3>2
  <2> QED
    BY <1>1, <2>1, <2>2
<1> QED
  BY <1>1, <1>3, <1>8, <1>10, <1>11, <1>12, <1>13, <1>14 DEF Apart

LEMMA FallsApart ==
    ASSUME NEW s, NEW fallen, NEW f, Apart(s, gone, fallen \cup f),
           fallen \cap f = {}, Falls(s, fallen)
    PROVE  Apart(stack', gone', f)
<1>1. PICK kept \in SUBSET fallen :
          \E to \in [kept -> Lone(s) \cup {b \in fallen : s[b] = << >>}] :
            /\ \A b, c \in kept : to[b] = to[c] => b = c
            /\ stack' = [p \in Blocks |->
                            IF \E b \in kept : to[b] = p
                            THEN Append(s[p], CHOOSE b \in kept : to[b] = p)
                            ELSE s[p]]
            /\ gone' = gone \cup (fallen \ kept)
  BY DEF Falls
<1>2. PICK to \in [kept -> Lone(s) \cup {b \in fallen : s[b] = << >>}] :
            /\ \A b, c \in kept : to[b] = to[c] => b = c
            /\ stack' = [p \in Blocks |->
                            IF \E b \in kept : to[b] = p
                            THEN Append(s[p], CHOOSE b \in kept : to[b] = p)
                            ELSE s[p]]
            /\ gone' = gone \cup (fallen \ kept)
  BY <1>1
<1>3. Lone(s) \cup {b \in fallen : s[b] = << >>} \subseteq Blocks
  BY DEF Lone, Apart
<1>4. to \in [kept -> Blocks]
  BY <1>3
<1>5. ASSUME NEW b \in kept PROVE stack'[to[b]] = Append(s[to[b]], b)
  <2>1. b = CHOOSE c \in kept : to[c] = to[b]
    BY <1>2
  <2>2. to[b] \in Blocks
    BY <1>4
  <2> QED
    BY <1>2, <2>1, <2>2
<1>6. ASSUME NEW p \in Blocks, \A b \in kept : to[b] # p PROVE stack'[p] = s[p]
  BY <1>2, <1>6
<1>7. stack' \in [Blocks -> Seq(Blocks)]
  <2>1. s \in [Blocks -> Seq(Blocks)] /\ fallen \subseteq Blocks
    BY DEF Apart
  <2>2. ASSUME NEW p \in Blocks PROVE stack'[p] \in Seq(Blocks)
    <3>1. CASE \A b \in kept : to[b] # p
      BY <1>6, <2>1, <3>1
    <3>2. CASE \E b \in kept : to[b] = p
      <4>1. PICK b \in kept : to[b] = p
        BY <3>2
      <4>2. stack'[p] = Append(s[p], b) /\ b \in Blocks /\ s[p] \in Seq(Blocks)
        BY <1>5, <2>1, <4>1
      <4> QED
        BY <4>2, AppendFacts
    <3> QED
      BY <3>1, <3>2
  <2>3. stack' = [p \in Blocks |-> stack'[p]]
    BY <1>2
  <2> QED
    BY <2>2, <2>3
<1>8. Gains(s, stack', kept, to)
  BY <1>5, <1>6, <1>7 DEF Gains
<1>9. Apart(stack', gone \cup (fallen \ kept), f)
  BY <1>2, <1>4, <1>8, GainsApart
<1> QED
  BY <1>2, <1>9

LEMMA LandsApart ==
    ASSUME NEW b \in Blocks, NEW p \in Blocks, NEW f, b \notin f,
           Apart(stack, gone, {b} \cup f), Lands(b, p)
    PROVE  Apart(stack', gone', f)
<1>1. stack \in [Blocks -> Seq(Blocks)]
  BY DEF Apart
<1>2. stack' = [stack EXCEPT ![p] = Append(stack[p], b)] /\ gone' = gone
  BY DEF Lands
<1> DEFINE to == [c \in {b} |-> p]
<1>3. to \in [{b} -> Blocks] /\ \A c, d \in {b} : to[c] = to[d] => c = d
  OBVIOUS
<1>4. to[b] = p
  OBVIOUS
<1> HIDE DEF to
<1>5. Append(stack[p], b) \in Seq(Blocks)
  BY <1>1, AppendFacts
<1>6. Gains(stack, stack', {b}, to)
  BY <1>1, <1>2, <1>4, <1>5 DEF Gains
<1>7. {b} \cap f = {} /\ {b} \in SUBSET {b} /\ gone \cup ({b} \ {b}) = gone
  OBVIOUS
<1>8. Apart(stack', gone \cup ({b} \ {b}), f)
  BY <1>3, <1>6, <1>7, GainsApart
<1> QED
  BY <1>2, <1>7, <1>8

(* The blocks above the lowest n of a stack are taken off it.               *)
Cut(s, p, n) == s = [stack EXCEPT ![p] = SubSeq(stack[p], 1, n)]

LEMMA CutApart ==
    ASSUME NEW f, Apart(stack, gone, f), NEW p \in Blocks, NEW n \in 0 .. Len(stack[p]),
           NEW s, Cut(s, p, n), NEW rest, rest = Members(SubSeq(stack[p], n + 1, Len(stack[p])))
    PROVE  Apart(s, gone, rest \cup f) /\ rest \cap f = {} /\ rest \subseteq Blocks
<1>1. /\ stack \in [Blocks -> Seq(Blocks)] /\ gone \subseteq Blocks
      /\ f \subseteq Blocks /\ Once(stack)
      /\ \A b \in gone : b \notin f
      /\ \A b \in gone : \A q \in Blocks : b \notin Members(stack[q])
      /\ \A b \in f : \A q \in Blocks : b \notin Members(stack[q])
      /\ \A b \in Blocks : b \in gone \/ b \in f \/ \E q \in Blocks : b \in Members(stack[q])
  BY DEF Apart
<1>2. /\ stack[p] \in Seq(Blocks) /\ Len(stack[p]) \in Nat
      /\ n \in Nat /\ n <= Len(stack[p])
  BY <1>1
<1>3. /\ s \in [Blocks -> Seq(Blocks)]
      /\ \A q \in Blocks : q # p => s[q] = stack[q]
      /\ s[p] = SubSeq(stack[p], 1, n)
  <2>1. SubSeq(stack[p], 1, n) \in Seq(Blocks)
    BY <1>2, CutFacts
  <2> QED
    BY <1>1, <2>1 DEF Cut
<1>4. /\ Len(s[p]) = n /\ \A i \in 1 .. n : s[p][i] = stack[p][i]
      /\ \A c : c \in Members(s[p]) <=> \E i \in 1 .. n : stack[p][i] = c
  <2> DEFINE u == SubSeq(stack[p], 1, n)
  <2>1. /\ Len(u) = n /\ \A i \in 1 .. n : u[i] = stack[p][i]
        /\ \A c : c \in Members(u) <=> \E i \in 1 .. n : stack[p][i] = c
    BY <1>2, CutFacts
  <2>2. s[p] = u
    BY <1>3
  <2> HIDE DEF u
  <2> QED
    BY <2>1, <2>2
<1>5. \A c : c \in rest <=> \E i \in n + 1 .. Len(stack[p]) : stack[p][i] = c
  BY <1>2, RestFacts
<1>6. \A q \in Blocks : /\ Len(s[q]) \in Nat /\ Len(s[q]) <= Len(stack[q])
                        /\ \A i \in 1 .. Len(s[q]) : s[q][i] = stack[q][i]
  <2> TAKE q \in Blocks
  <2>1. CASE q = p
    <3>1. Len(s[p]) \in Nat /\ Len(s[p]) <= Len(stack[p])
      BY <1>2, <1>4
    <3>2. \A i \in 1 .. Len(s[p]) : s[p][i] = stack[p][i]
      BY <1>4
    <3> QED
      BY <2>1, <3>1, <3>2
  <2>2. CASE q # p
    <3>1. s[q] = stack[q] /\ Len(stack[q]) \in Nat
      BY <1>1, <1>3, <2>2
    <3> QED
      BY <3>1
  <2> QED
    BY <2>1, <2>2
<1>7. Once(s)
  <2>1. ASSUME NEW q \in Blocks, NEW r \in Blocks, NEW i \in 1 .. Len(s[q]),
               NEW j \in 1 .. Len(s[r]), s[q][i] = s[r][j]
        PROVE  q = r /\ i = j
    <3>0. Len(stack[q]) \in Nat /\ Len(stack[r]) \in Nat
      BY <1>1
    <3>1. i \in 1 .. Len(stack[q]) /\ j \in 1 .. Len(stack[r])
      BY <1>6, <3>0
    <3>2. stack[q][i] = stack[r][j]
      BY <1>6, <2>1
    <3>3. \A v \in 1 .. Len(stack[q]), w \in 1 .. Len(stack[r]) :
              stack[q][v] = stack[r][w] => q = r /\ v = w
      BY <1>1 DEF Once
    <3> QED
      BY <3>1, <3>2, <3>3
  <2> QED
    BY <2>1 DEF Once
<1>8. \A q \in Blocks : \A c : c \in Members(s[q]) => c \in Members(stack[q])
  <2> TAKE q \in Blocks
  <2> TAKE c
  <2>1. ASSUME q = p, c \in Members(s[q]) PROVE c \in Members(stack[q])
    <3>1. PICK i \in 1 .. n : stack[p][i] = c
      BY <1>4, <2>1
    <3>2. i \in 1 .. Len(stack[p])
      BY <1>2
    <3> QED
      BY <1>2, <2>1, <3>1, <3>2, MemberAt
  <2> QED
    BY <1>3, <2>1
<1>9. ASSUME NEW c \in rest
      PROVE  c \in Blocks /\ c \in Members(stack[p]) /\ \A q \in Blocks : c \notin Members(s[q])
  <2>1. PICK i \in n + 1 .. Len(stack[p]) : stack[p][i] = c
    BY <1>5
  <2>2. i \in 1 .. Len(stack[p]) /\ i > n
    BY <1>2
  <2>3. c \in Blocks /\ c \in Members(stack[p])
    BY <1>2, <2>1, <2>2, MemberAt
  <2>4. ASSUME NEW q \in Blocks, c \in Members(s[q]) PROVE FALSE
    <3>1. s[q] \in Seq(Blocks)
      BY <1>3
    <3>2. PICK j \in 1 .. Len(s[q]) : s[q][j] = c
      BY <2>4, <3>1, MemberAt
    <3>0. Len(stack[q]) \in Nat
      BY <1>1
    <3>3. j \in 1 .. Len(stack[q]) /\ stack[q][j] = c
      BY <1>6, <3>0, <3>2
    <3>4. \A v \in 1 .. Len(stack[q]), w \in 1 .. Len(stack[p]) :
              stack[q][v] = stack[p][w] => q = p /\ v = w
      BY <1>1 DEF Once
    <3>5. q = p /\ j = i
      BY <2>1, <2>2, <3>3, <3>4
    <3> QED
      BY <1>2, <1>4, <2>2, <3>2, <3>5
  <2> QED
    BY <2>3, <2>4
<1>10. rest \subseteq Blocks /\ rest \cap f = {}
  BY <1>1, <1>9
<1>11. ASSUME NEW b \in gone PROVE b \notin rest \cup f /\ \A q \in Blocks : b \notin Members(s[q])
  BY <1>1, <1>8, <1>9
<1>12. ASSUME NEW b \in rest \cup f PROVE \A q \in Blocks : b \notin Members(s[q])
  BY <1>1, <1>8, <1>9
<1>13. ASSUME NEW b \in Blocks
       PROVE  b \in gone \/ b \in rest \cup f \/ \E q \in Blocks : b \in Members(s[q])
  <2>1. ASSUME NEW q \in Blocks, b \in Members(stack[q])
        PROVE  b \in rest \/ b \in Members(s[q])
    <3>1. CASE q = p
      <4>1. PICK i \in 1 .. Len(stack[p]) : stack[p][i] = b
        BY <1>2, <2>1, <3>1, MemberAt
      <4>2. i \in 1 .. n \/ i \in n + 1 .. Len(stack[p])
        BY <1>2
      <4> QED
        BY <1>4, <1>5, <3>1, <4>1, <4>2
    <3>2. CASE q # p
      BY <1>3, <2>1, <3>2
    <3> QED
      BY <3>1, <3>2
  <2> QED
    BY <1>1, <2>1
<1> QED
  BY <1>1, <1>3, <1>7, <1>10, <1>11, <1>12, <1>13 DEF Apart

LEMMA TopplesApart ==
    ASSUME NEW p \in Blocks, NEW with, NEW f, Apart(stack, gone, with \cup f),
           with \cap f = {}, Topples(p, with)
    PROVE  Apart(stack', gone', f)
<1>1. PICK n \in 1 .. Len(stack[p]) :
          Falls([stack EXCEPT ![p] = SubSeq(stack[p], 1, n)],
                with \cup Members(SubSeq(stack[p], n + 1, Len(stack[p]))))
  BY DEF Topples
<1> DEFINE s == [stack EXCEPT ![p] = SubSeq(stack[p], 1, n)]
           rest == Members(SubSeq(stack[p], n + 1, Len(stack[p])))
<1>2. n \in 0 .. Len(stack[p])
  OBVIOUS
<1>0. Cut(s, p, n) /\ rest = Members(SubSeq(stack[p], n + 1, Len(stack[p])))
  BY DEF Cut
<1> HIDE DEF s, rest
<1>3. Apart(s, gone, rest \cup (with \cup f)) /\ rest \cap (with \cup f) = {}
  BY <1>0, <1>2, CutApart
<1>4. rest \cup (with \cup f) = (with \cup rest) \cup f /\ (with \cup rest) \cap f = {}
  BY <1>3
<1>5. Falls(s, with \cup rest)
  BY <1>1 DEF s, rest
<1>6. Apart(s, gone, (with \cup rest) \cup f)
  BY <1>3, <1>4
<1> QED
  BY <1>4, <1>5, <1>6, FallsApart

LEMMA LiftApart ==
    ASSUME NEW p \in Blocks, Apart(stack, gone, {}), Len(stack[p]) = 1,
           stack' = [stack EXCEPT ![p] = << >>], gone' = gone
    PROVE  Apart(stack', gone', {stack[p][1]}) /\ stack[p][1] \in Blocks
<1>1. stack \in [Blocks -> Seq(Blocks)] /\ stack[p] \in Seq(Blocks)
  BY DEF Apart
<1>2. PICK n \in 0 .. Len(stack[p]) : n = 0
  OBVIOUS
<1> DEFINE rest == Members(SubSeq(stack[p], n + 1, Len(stack[p])))
<1>3. SubSeq(stack[p], 1, n) = << >>
  BY <1>1, <1>2
<1>4. Cut(stack', p, n)
  BY <1>3 DEF Cut
<1>6. \A c : c \in rest <=> \E i \in n + 1 .. Len(stack[p]) : stack[p][i] = c
  BY <1>1, RestFacts
<1>0. rest = Members(SubSeq(stack[p], n + 1, Len(stack[p]))) /\ Apart(stack, gone, {})
  OBVIOUS
<1> HIDE DEF rest
<1>5. Apart(stack', gone, rest \cup {}) /\ rest \subseteq Blocks
  BY ONLY <1>0, <1>2, <1>4, CutApart, p \in Blocks
<1>7. \A c : c \in rest <=> c = stack[p][1]
  <2>1. n + 1 .. Len(stack[p]) = {1}
    BY <1>2
  <2> QED
    BY <1>6, <2>1
<1>8. rest \cup {} = {stack[p][1]}
  BY <1>7
<1> QED
  BY <1>5, <1>7, <1>8

LEMMA DropsApart ==
    ASSUME NEW b \in Blocks, NEW p \in Blocks \cup {None}, Apart(stack, gone, {b}), Drops(b, p)
    PROVE  Apart(stack', gone', {})
<1>1. {b} = {b} \cup {} /\ {b} \cap {} = {} /\ b \notin {}
  OBVIOUS
<1>2. CASE Falls(stack, {b})
  BY <1>1, <1>2, FallsApart
<1>3. CASE p # None /\ Lands(b, p)
  BY <1>1, <1>3, LandsApart
<1> QED
  BY <1>2, <1>3 DEF Drops

LEMMA OpensApart ==
    ASSUME WorldFits, Opens
    PROVE  Apart(stack', gone', {})
<1>1. CASE held = None
  BY <1>1 DEF WorldFits, Jaws, Opens
<1>2. CASE held # None
  <2>1. held \in Blocks /\ at \in Blocks \cup {None} /\ Apart(stack, gone, {held}) /\ Drops(held, at)
    BY <1>2 DEF WorldFits, Jaws, Opens
  <2> QED
    BY <2>1, DropsApart
<1> QED
  BY <1>1, <1>2

-----------------------------------------------------------------------------
(* How the blocks lie when none has fallen onto another.                    *)

LEMMA WorldTypes ==
    ASSUME WorldFits
    PROVE  /\ stack \in [Blocks -> Seq(Blocks)]
           /\ \A p \in Blocks : stack[p] \in Seq(Blocks) /\ Len(stack[p]) \in Nat
           /\ Tower \in Seq(Blocks) /\ Len(Tower) \in Nat
           /\ \A p, r \in Blocks : \A i \in 1 .. Len(stack[p]), j \in 1 .. Len(stack[r]) :
                  stack[p][i] = stack[r][j] => p = r /\ i = j
           /\ held # None => /\ held \in Blocks /\ held \notin gone
                             /\ \A p \in Blocks : held \notin Members(stack[p])
           /\ held \in Blocks \cup {None} /\ at \in Blocks \cup {None}
<1>1. stack \in [Blocks -> Seq(Blocks)] /\ Once(stack)
      /\ (\A b \in Jaws : \A p \in Blocks : b \notin Members(stack[p]))
      /\ (\A b \in gone : b \notin Jaws)
      /\ held \in Blocks \cup {None} /\ at \in Blocks \cup {None}
  BY DEF WorldFits, Apart
<1>2. \A p \in Blocks : stack[p] \in Seq(Blocks) /\ Len(stack[p]) \in Nat
  BY <1>1
<1>3. Tower \in Seq(Blocks) /\ Len(Tower) \in Nat
  BY <1>2, OrderFacts DEF Tower
<1>4. held # None => /\ held \in Blocks /\ held \notin gone
                     /\ \A p \in Blocks : held \notin Members(stack[p])
  BY <1>1 DEF Jaws
<1> QED
  BY <1>1, <1>2, <1>3, <1>4 DEF Once

LEMMA WhereBlocksAre ==
    ASSUME WorldFits, NEW b \in Blocks, b \notin gone, b # held
    PROVE  \E p \in Blocks : b \in Members(stack[p])
BY DEF WorldFits, Apart, Jaws

LEMMA GhostsMove ==
    ASSUME NEW s, NEW fallen, Falls(s, fallen)
    PROVE  (~piled' => ~piled) /\ (known' => known)
           /\ piled' \in BOOLEAN /\ known' \in BOOLEAN
<1>1. PICK kept \in SUBSET fallen :
          \E to \in [kept -> Lone(s) \cup {b \in fallen : s[b] = << >>}] :
            /\ piled' = (piled \/ \E b \in kept : to[b] \in Lone(s))
            /\ known' = (known /\ \A b \in kept : to[b] \notin Lone(s))
  BY DEF Falls
<1>2. PICK to \in [kept -> Lone(s) \cup {b \in fallen : s[b] = << >>}] :
            /\ piled' = (piled \/ \E b \in kept : to[b] \in Lone(s))
            /\ known' = (known /\ \A b \in kept : to[b] \notin Lone(s))
  BY <1>1
<1> QED
  BY <1>2

(* Of the blocks that fell some lie at home.                                *)
Homes(s, fallen) ==
    \A p \in Blocks :
        \/ stack'[p] = s[p]
        \/ p \in fallen /\ s[p] = << >> /\ stack'[p] = <<p>>

LEMMA FallsHome ==
    ASSUME NEW s, s \in [Blocks -> Seq(Blocks)], NEW fallen, fallen \subseteq Blocks,
           Falls(s, fallen), ~piled' \/ known'
    PROVE  Homes(s, fallen)
<1>1. PICK kept \in SUBSET fallen :
          \E to \in [kept -> Lone(s) \cup {b \in fallen : s[b] = << >>}] :
            /\ \A b \in kept : to[b] = b \/ to[b] \in Lone(s)
            /\ stack' = [p \in Blocks |->
                            IF \E b \in kept : to[b] = p
                            THEN Append(s[p], CHOOSE b \in kept : to[b] = p)
                            ELSE s[p]]
            /\ piled' = (piled \/ \E b \in kept : to[b] \in Lone(s))
            /\ known' = (known /\ \A b \in kept : to[b] \notin Lone(s))
  BY DEF Falls
<1>2. PICK to \in [kept -> Lone(s) \cup {b \in fallen : s[b] = << >>}] :
            /\ \A b \in kept : to[b] = b \/ to[b] \in Lone(s)
            /\ stack' = [p \in Blocks |->
                            IF \E b \in kept : to[b] = p
                            THEN Append(s[p], CHOOSE b \in kept : to[b] = p)
                            ELSE s[p]]
            /\ piled' = (piled \/ \E b \in kept : to[b] \in Lone(s))
            /\ known' = (known /\ \A b \in kept : to[b] \notin Lone(s))
  BY <1>1
<1>3. \A b \in kept : to[b] \notin Lone(s)
  BY <1>2
<1>4. \A b \in kept : to[b] = b /\ b \in fallen /\ b \in Blocks /\ s[b] = << >>
  BY <1>2, <1>3
<1>5. ASSUME NEW p \in Blocks, p \in kept PROVE stack'[p] = <<p>>
  <2>1. p = CHOOSE b \in kept : to[b] = p
    BY <1>4, <1>5
  <2>2. stack'[p] = Append(s[p], p)
    BY <1>2, <1>4, <1>5, <2>1
  <2>3. s[p] = << >> /\ Append(<< >>, p) = <<p>>
    BY <1>4, <1>5
  <2> QED
    BY <2>2, <2>3
<1>6. ASSUME NEW p \in Blocks, p \notin kept PROVE stack'[p] = s[p]
  <2>1. ~\E b \in kept : to[b] = p
    BY <1>4, <1>6
  <2> QED
    BY <1>2, <2>1
<1> QED
  BY <1>4, <1>5, <1>6 DEF Homes

LEMMA TopplesHome ==
    ASSUME WorldFits, NEW p \in Blocks, NEW with \in SUBSET Blocks, Topples(p, with),
           ~piled' \/ known'
    PROVE  \E n \in 1 .. Len(stack[p]) :
              /\ stack'[p] = SubSeq(stack[p], 1, n)
              /\ \A r \in Blocks : r # p =>
                    \/ stack'[r] = stack[r]
                    \/ /\ r \in with \/ r \in Members(stack[p])
                       /\ stack[r] = << >> /\ stack'[r] = <<r>>
<1>1. PICK n \in 1 .. Len(stack[p]) :
          Falls([stack EXCEPT ![p] = SubSeq(stack[p], 1, n)],
                with \cup Members(SubSeq(stack[p], n + 1, Len(stack[p]))))
  BY DEF Topples
<1> DEFINE s == [stack EXCEPT ![p] = SubSeq(stack[p], 1, n)]
           rest == Members(SubSeq(stack[p], n + 1, Len(stack[p])))
<1>2. stack \in [Blocks -> Seq(Blocks)] /\ stack[p] \in Seq(Blocks) /\ Len(stack[p]) \in Nat
      /\ n \in 0 .. Len(stack[p]) /\ n \in Nat /\ n >= 1
  BY WorldTypes
<1>3. SubSeq(stack[p], 1, n) \in Seq(Blocks) /\ Len(SubSeq(stack[p], 1, n)) = n
  BY <1>2, CutFacts
<1>4. s \in [Blocks -> Seq(Blocks)] /\ s[p] = SubSeq(stack[p], 1, n)
      /\ \A r \in Blocks : r # p => s[r] = stack[r]
  BY <1>2, <1>3
<1>5. \A b \in rest : b \in Members(stack[p]) /\ b \in Blocks
  <2> TAKE b \in rest
  <2>1. b \in rest <=> \E i \in n + 1 .. Len(stack[p]) : stack[p][i] = b
    BY <1>2, RestFacts
  <2> HIDE DEF rest
  <2>2. PICK i \in n + 1 .. Len(stack[p]) : stack[p][i] = b
    BY <2>1
  <2>3. i \in 1 .. Len(stack[p])
    BY <1>2
  <2>4. b \in Members(stack[p])
    BY <1>2, <2>2, <2>3, MemberAt
  <2>5. b \in Blocks
    BY <1>2, <2>2, <2>3
  <2> QED
    BY <2>4, <2>5
<1>6. Falls(s, with \cup rest)
  BY <1>1
<1> HIDE DEF s, rest
<1>7. with \cup rest \subseteq Blocks
  BY <1>5
<1>8. Homes(s, with \cup rest)
  BY <1>4, <1>6, <1>7, FallsHome
<1>9. s[p] # << >>
  BY <1>2, <1>3, <1>4
<1>10. stack'[p] = SubSeq(stack[p], 1, n)
  BY <1>4, <1>8, <1>9 DEF Homes
<1>11. \A r \in Blocks : r # p =>
          \/ stack'[r] = stack[r]
          \/ /\ r \in with \/ r \in Members(stack[p])
             /\ stack[r] = << >> /\ stack'[r] = <<r>>
  BY <1>4, <1>5, <1>8 DEF Homes
<1> QED
  BY <1>10, <1>11

LEMMA DropsHome ==
    ASSUME WorldFits, NEW b \in Blocks, NEW p \in Blocks \cup {None}, Drops(b, p),
           ~piled' \/ known'
    PROVE  \/ /\ p # None /\ stack'[p] = Append(stack[p], b)
              /\ \A r \in Blocks : r # p => stack'[r] = stack[r]
           \/ \A r \in Blocks :
                 stack'[r] = stack[r] \/ (r = b /\ stack[b] = << >> /\ stack'[b] = <<b>>)
<1>1. stack \in [Blocks -> Seq(Blocks)]
  BY WorldTypes
<1>2. CASE Falls(stack, {b})
  <2>1. Homes(stack, {b})
    BY <1>1, <1>2, FallsHome
  <2> QED
    BY <2>1 DEF Homes
<1>3. CASE p # None /\ Lands(b, p)
  <2>1. p \in Blocks /\ stack' = [stack EXCEPT ![p] = Append(stack[p], b)]
    BY <1>3 DEF Lands
  <2> QED
    BY <1>1, <1>3, <2>1
<1> QED
  BY <1>2, <1>3 DEF Drops

-----------------------------------------------------------------------------
(* The tower keeps what is remembered of it.                                *)

LEMMA KeptCut ==
    ASSUME NEW t \in Seq(Blocks), NEW m \in 1 .. N, Kept(t, m), NEW n \in 0 .. Len(t),
           \A i, j \in 1 .. Len(t) : t[i] = t[j] => i = j
    PROVE  Kept(SubSeq(t, 1, n), m)
<1> DEFINE u == SubSeq(t, 1, n)
<1>1. Len(t) \in Nat /\ n \in Nat /\ n <= Len(t) /\ m \in Nat /\ N \in Nat
  BY OrderFacts
<1>2. /\ Len(u) = n /\ \A i \in 1 .. n : u[i] = t[i]
      /\ \A c : c \in Members(u) <=> \E i \in 1 .. n : t[i] = c
  BY CutFacts
<1> HIDE DEF u
<1>3. ASSUME NEW i \in 1 .. m, Order[i] \in Members(u) PROVE Stands(u, i)
  <2>1. PICK j \in 1 .. n : t[j] = Order[i]
    BY <1>2, <1>3
  <2>2. j \in 1 .. Len(t)
    BY <1>1
  <2>3. Order[i] \in Members(t)
    BY <2>1, <2>2, MemberAt
  <2>4. Stands(t, i)
    BY <2>3 DEF Kept
  <2>5. i \in 1 .. Len(t) /\ t[i] = Order[i] /\ \A k \in 1 .. i : t[k] = Order[k]
    BY <1>1, <2>4 DEF Stands
  <2>6. i = j
    BY <2>1, <2>2, <2>5
  <2> QED
    BY <1>1, <1>2, <2>5, <2>6 DEF Stands
<1> QED
  BY <1>3 DEF Kept, u

LEMMA KeptAppend ==
    ASSUME NEW t \in Seq(Blocks), NEW m \in 1 .. N, Kept(t, m), NEW b \in Blocks,
           \A i \in 2 .. m : b # Order[i], b = Base => t = << >>
    PROVE  Kept(Append(t, b), m)
<1> DEFINE u == Append(t, b)
<1>1. Len(t) \in Nat /\ m \in Nat /\ N \in Nat
  BY OrderFacts
<1>2. /\ Len(u) = Len(t) + 1 /\ \A i \in 1 .. Len(t) : u[i] = t[i]
      /\ u[Len(t) + 1] = b
      /\ \A c : c \in Members(u) <=> c \in Members(t) \/ c = b
  BY AppendFacts
<1> HIDE DEF u
<1>3. ASSUME NEW i \in 1 .. m, Order[i] \in Members(u) PROVE Stands(u, i)
  <2>1. CASE Order[i] \in Members(t)
    <3>1. Len(t) >= i /\ \A k \in 1 .. i : t[k] = Order[k]
      BY <2>1 DEF Kept, Stands
    <3> QED
      BY <1>1, <1>2, <3>1 DEF Stands
  <2>2. CASE Order[i] = b
    <3>1. i = 1
      BY <1>1, <2>2
    <3>2. b = Base /\ Len(t) = 0
      BY <2>2, <3>1 DEF Base
    <3> QED
      BY <1>2, <2>2, <3>1, <3>2 DEF Stands
  <2> QED
    BY <1>2, <1>3, <2>1, <2>2
<1> QED
  BY <1>3 DEF Kept, u

LEMMA RememberedFits ==
    ASSUME ProgressFits
    PROVE  Remembered \in 1 .. N
BY OrderFacts DEF ProgressFits, Remembered

(* What is cut from the tower, or from another stack, lies at home.         *)
LEMMA PlainTopples ==
    ASSUME WorldFits, ProgressFits, PlainStacks, NEW p \in Blocks,
           NEW with \in SUBSET Blocks, Base \notin with, Topples(p, with), ~piled',
           progress' = progress, at' = at, held' = held \/ held' = None
    PROVE  /\ PlainStacks'
           /\ \E n \in 0 .. Len(Tower) : Tower' = SubSeq(Tower, 1, n)
<1>1. PICK n \in 1 .. Len(stack[p]) :
              /\ stack'[p] = SubSeq(stack[p], 1, n)
              /\ \A r \in Blocks : r # p =>
                    \/ stack'[r] = stack[r]
                    \/ /\ r \in with \/ r \in Members(stack[p])
                       /\ stack[r] = << >> /\ stack'[r] = <<r>>
  BY TopplesHome
<1>2. /\ stack \in [Blocks -> Seq(Blocks)] /\ stack[p] \in Seq(Blocks)
      /\ Len(stack[p]) \in Nat /\ Tower \in Seq(Blocks) /\ Len(Tower) \in Nat
      /\ Base \in Blocks /\ n \in Nat /\ n >= 1 /\ n <= Len(stack[p])
      /\ \A i, j \in 1 .. Len(Tower) : Tower[i] = Tower[j] => i = j
  <2>1. /\ stack \in [Blocks -> Seq(Blocks)] /\ stack[p] \in Seq(Blocks)
        /\ Len(stack[p]) \in Nat /\ Tower \in Seq(Blocks) /\ Len(Tower) \in Nat
        /\ Base \in Blocks
    BY WorldTypes, OrderFacts
  <2>2. n \in Nat /\ n >= 1 /\ n <= Len(stack[p])
    BY <2>1
  <2>3. \A i, j \in 1 .. Len(Tower) : Tower[i] = Tower[j] => i = j
    BY <2>1, WorldTypes DEF Tower
  <2> QED
    BY <2>1, <2>2, <2>3
<1>3. /\ \A q \in Blocks : q # Base => stack[q] = << >> \/ stack[q] = <<q>>
      /\ Kept(Tower, Remembered)
      /\ held # None => /\ at = held \/ at = Base
                        /\ \A i \in 2 .. Remembered : held # Order[i]
                        /\ held = Base => Tower = << >>
  BY DEF PlainStacks
<1>4. p # Base => stack[p] = <<p>> /\ n = 1
  <2>1. stack[p] # << >>
    BY <1>2
  <2>2. Len(<<p>>) = 1
    OBVIOUS
  <2> HAVE p # Base
  <2>3. stack[p] = <<p>>
    BY <1>3, <2>1
  <2>4. Len(stack[p]) = 1
    BY <2>2, <2>3
  <2> QED
    BY <1>2, <2>3, <2>4
<1>5. p # Base => stack'[p] = stack[p]
  <2> HAVE p # Base
  <2>1. Len(stack[p]) = n
    BY <1>4
  <2>2. SubSeq(stack[p], 1, Len(stack[p])) = stack[p]
    BY <1>2
  <2> QED
    BY <1>1, <2>1, <2>2
<1>6. PICK m \in 0 .. Len(Tower) : Tower' = SubSeq(Tower, 1, m)
  <2>1. CASE p = Base
    <3>1. n \in 0 .. Len(Tower) /\ Tower' = SubSeq(Tower, 1, n)
      BY <1>1, <1>2, <2>1 DEF Tower
    <3> QED
      BY <3>1
  <2>2. CASE p # Base
    <3>1. Members(stack[p]) = {p}
      BY <1>4, <2>2 DEF Members
    <3>2. Tower' = Tower
      BY <1>1, <1>2, <2>2, <3>1 DEF Tower
    <3>3. SubSeq(Tower, 1, Len(Tower)) = Tower /\ Len(Tower) \in 0 .. Len(Tower)
      BY <1>2
    <3> QED
      BY <3>2, <3>3
  <2> QED
    BY <2>1, <2>2
<1>7. \A q \in Blocks : q # Base => stack'[q] = << >> \/ stack'[q] = <<q>>
  <2> TAKE q \in Blocks
  <2>1. CASE q = p
    BY <1>3, <1>5, <2>1
  <2>2. CASE q # p
    BY <1>1, <1>3, <2>2
  <2> QED
    BY <2>1, <2>2
<1>8. Kept(Tower', Remembered)
  BY <1>2, <1>3, <1>6, RememberedFits, KeptCut
<1>9. Remembered' = Remembered
  BY DEF Remembered
<1>10. held' # None => held' = held
  OBVIOUS
<1>11. Tower = << >> => Tower' = << >>
  <2> HAVE Tower = << >>
  <2>1. m = 0
    OBVIOUS
  <2> QED
    BY <1>6, <2>1
<1>12. PlainStacks'
  BY <1>3, <1>7, <1>8, <1>9, <1>10, <1>11 DEF PlainStacks
<1> QED
  BY <1>6, <1>12

(* What is let go of lies at home, or on the tower.                         *)
LEMMA PlainDrops ==
    ASSUME WorldFits, ProgressFits, PlainStacks, held # None, Drops(held, at), ~piled',
           progress' = progress, held' = None
    PROVE  /\ PlainStacks'
           /\ Tower' = Tower \/ Tower' = Append(Tower, held)
<1>1. /\ stack \in [Blocks -> Seq(Blocks)] /\ held \in Blocks /\ at \in Blocks \cup {None}
      /\ Tower \in Seq(Blocks) /\ Base \in Blocks
      /\ \A p \in Blocks : held \notin Members(stack[p])
  BY WorldTypes, OrderFacts
<1>2. /\ \A q \in Blocks : q # Base => stack[q] = << >> \/ stack[q] = <<q>>
      /\ Kept(Tower, Remembered)
      /\ at = held \/ at = Base
      /\ \A i \in 2 .. Remembered : held # Order[i]
      /\ held = Base => Tower = << >>
  BY DEF PlainStacks
<1>3. held # Base => stack[held] = << >>
  <2>1. Members(<<held>>) = {held}
    BY DEF Members
  <2> QED
    BY <1>1, <1>2, <2>1
<1>4. \/ /\ stack'[at] = Append(stack[at], held)
         /\ \A r \in Blocks : r # at => stack'[r] = stack[r]
      \/ \A r \in Blocks :
            stack'[r] = stack[r]
            \/ (r = held /\ stack[held] = << >> /\ stack'[held] = <<held>>)
  BY <1>1, DropsHome
<1>5. Append(<< >>, held) = <<held>>
  OBVIOUS
<1>6. \A q \in Blocks : q # Base => stack'[q] = << >> \/ stack'[q] = <<q>>
  <2> TAKE q \in Blocks
  <2>1. CASE /\ stack'[at] = Append(stack[at], held)
             /\ \A r \in Blocks : r # at => stack'[r] = stack[r]
    <3>1. CASE q = at
      <4>1. q # Base => q = held /\ stack'[q] = Append(stack[q], q)
        BY <1>2, <2>1, <3>1
      <4> QED
        BY <1>3, <1>5, <4>1
    <3>2. CASE q # at
      BY <1>2, <2>1, <3>2
    <3> QED
      BY <3>1, <3>2
  <2>2. CASE \A r \in Blocks :
                stack'[r] = stack[r]
                \/ (r = held /\ stack[held] = << >> /\ stack'[held] = <<held>>)
    BY <1>2, <2>2
  <2> QED
    BY <1>4, <2>1, <2>2
<1>7. Tower' = Tower \/ Tower' = Append(Tower, held)
  <2>1. CASE /\ stack'[at] = Append(stack[at], held)
             /\ \A r \in Blocks : r # at => stack'[r] = stack[r]
    BY <1>1, <1>2, <2>1 DEF Tower
  <2>2. CASE \A r \in Blocks :
                stack'[r] = stack[r]
                \/ (r = held /\ stack[held] = << >> /\ stack'[held] = <<held>>)
    BY <1>1, <1>5, <2>2 DEF Tower
  <2> QED
    BY <1>4, <2>1, <2>2
<1>8. Kept(Tower', Remembered)
  <2>1. Kept(Append(Tower, held), Remembered)
    BY <1>1, <1>2, RememberedFits, KeptAppend
  <2> QED
    BY <1>2, <1>7, <2>1
<1>9. Remembered' = Remembered
  BY DEF Remembered
<1>10. PlainStacks'
  BY <1>6, <1>8, <1>9 DEF PlainStacks
<1> QED
  BY <1>7, <1>10

(* Every stack but the one built on is a block at its own place.            *)
Elsewhere == \A p \in Blocks : p # plan.at => stack[p] = << >> \/ stack[p] = <<p>>

LEMMA KnownTopples ==
    ASSUME WorldFits, Elsewhere, plan.at \in Blocks, NEW with \in SUBSET Blocks,
           Topples(plan.at, with), known', plan' = plan
    PROVE  /\ Elsewhere'
           /\ \E n \in 1 .. Len(Site) : Site' = SubSeq(Site, 1, n)
<1>1. PICK n \in 1 .. Len(stack[plan.at]) :
              /\ stack'[plan.at] = SubSeq(stack[plan.at], 1, n)
              /\ \A r \in Blocks : r # plan.at =>
                    \/ stack'[r] = stack[r]
                    \/ /\ r \in with \/ r \in Members(stack[plan.at])
                       /\ stack[r] = << >> /\ stack'[r] = <<r>>
  BY TopplesHome
<1>2. Elsewhere'
  BY <1>1 DEF Elsewhere
<1>3. n \in 1 .. Len(Site) /\ Site' = SubSeq(Site, 1, n)
  BY <1>1 DEF Site
<1> QED
  BY <1>2, <1>3

LEMMA KnownDrops ==
    ASSUME WorldFits, Elsewhere, plan.at \in Blocks, held # None, Drops(held, at),
           known', plan' = plan, at = held \/ at = plan.at
    PROVE  Elsewhere'
<1>1. /\ held \in Blocks /\ at \in Blocks \cup {None}
      /\ \A p \in Blocks : held \notin Members(stack[p])
  BY WorldTypes
<1>2. held # plan.at => stack[held] = << >>
  <2>1. Members(<<held>>) = {held}
    BY DEF Members
  <2> QED
    BY <1>1, <2>1 DEF Elsewhere
<1>3. Append(<< >>, held) = <<held>>
  OBVIOUS
<1>4. \/ /\ stack'[at] = Append(stack[at], held)
         /\ \A r \in Blocks : r # at => stack'[r] = stack[r]
      \/ \A r \in Blocks :
            stack'[r] = stack[r]
            \/ (r = held /\ stack[held] = << >> /\ stack'[held] = <<held>>)
  BY <1>1, DropsHome
<1>5. ASSUME NEW q \in Blocks, q # plan.at PROVE stack'[q] = << >> \/ stack'[q] = <<q>>
  <2>1. CASE /\ stack'[at] = Append(stack[at], held)
             /\ \A r \in Blocks : r # at => stack'[r] = stack[r]
    <3>1. CASE q = at
      <4>1. q = held /\ stack'[q] = Append(stack[q], q)
        BY <1>5, <2>1, <3>1
      <4> QED
        BY <1>2, <1>3, <1>5, <4>1
    <3>2. CASE q # at
      BY <1>5, <2>1, <3>2 DEF Elsewhere
    <3> QED
      BY <3>1, <3>2
  <2>2. CASE \A r \in Blocks :
                stack'[r] = stack[r]
                \/ (r = held /\ stack[held] = << >> /\ stack'[held] = <<held>>)
    BY <1>5, <2>2 DEF Elsewhere
  <2> QED
    BY <1>4, <2>1, <2>2
<1> QED
  BY <1>5 DEF Elsewhere

-----------------------------------------------------------------------------
(* What is seen of a block.                                                 *)

LEMMA SeenAt ==
    ASSUME WorldFits, NEW b \in Blocks, NEW p \in Blocks, NEW i \in 1 .. Len(stack[p]),
           stack[p][i] = b
    PROVE  /\ b # held /\ PlaceOf(b) = p
           /\ IsTop(b) <=> i = Len(stack[p])
           /\ Heights(b) = IF i = Len(stack[p]) THEN {i} ELSE 1 .. i
<1>1. /\ \A q \in Blocks : stack[q] \in Seq(Blocks) /\ Len(stack[q]) \in Nat
      /\ \A q, r \in Blocks : \A v \in 1 .. Len(stack[q]), w \in 1 .. Len(stack[r]) :
             stack[q][v] = stack[r][w] => q = r /\ v = w
      /\ held # None => \A q \in Blocks : held \notin Members(stack[q])
      /\ b # None
  BY WorldTypes
<1>2. b \in Members(stack[p])
  BY <1>1, MemberAt
<1>3. b # held
  BY <1>1, <1>2
<1>4. ASSUME NEW q \in Blocks, b \in Members(stack[q]) PROVE q = p
  <2>1. PICK v \in 1 .. Len(stack[q]) : stack[q][v] = b
    BY <1>1, <1>4, MemberAt
  <2> QED
    BY <1>1, <2>1
<1>5. (CHOOSE q \in Blocks : b \in Members(stack[q])) = p
  BY <1>2, <1>4
<1>6. PlaceOf(b) = p
  BY <1>3, <1>5 DEF PlaceOf
<1>7. IsTop(b) <=> i = Len(stack[p])
  <2>1. ASSUME IsTop(b) PROVE i = Len(stack[p])
    <3>1. PICK q \in Blocks : stack[q] # << >> /\ stack[q][Len(stack[q])] = b
      BY <2>1 DEF IsTop
    <3>2. Len(stack[q]) \in 1 .. Len(stack[q])
      BY <1>1, <3>1
    <3> QED
      BY <1>1, <3>1, <3>2
  <2>2. ASSUME i = Len(stack[p]) PROVE IsTop(b)
    <3>1. stack[p] # << >>
      BY <1>1
    <3> QED
      BY <2>2, <3>1 DEF IsTop
  <2> QED
    BY <2>1, <2>2
<1>8. DOMAIN stack[p] = 1 .. Len(stack[p])
  BY <1>1
<1> DEFINE h == CHOOSE v \in DOMAIN stack[PlaceOf(b)] : stack[PlaceOf(b)][v] = b
<1>9. h = i
  <2>1. (CHOOSE v \in DOMAIN stack[p] : stack[p][v] = b) = i
    BY <1>1, <1>8
  <2> QED
    BY <1>6, <2>1
<1>10. Heights(b) = IF i = Len(stack[p]) THEN {i} ELSE 1 .. i
  <2>1. Heights(b) = IF IsTop(b) THEN {h} ELSE 1 .. h
    BY <1>3 DEF Heights
  <2> HIDE DEF h
  <2> QED
    BY <1>7, <1>9, <2>1
<1> QED
  BY <1>3, <1>6, <1>7, <1>10

(* A block that is not out of reach is held or in a stack.                  *)
LEMMA Somewhere ==
    ASSUME WorldFits, NEW b \in Blocks, b \notin gone, b # held
    PROVE  \E p \in Blocks : \E i \in 1 .. Len(stack[p]) : stack[p][i] = b
<1>1. PICK p \in Blocks : b \in Members(stack[p])
  BY WhereBlocksAre
<1>2. stack[p] \in Seq(Blocks)
  BY WorldTypes
<1> QED
  BY <1>1, <1>2, MemberAt

LEMMA SeenSomewhere ==
    ASSUME WorldFits, NEW b \in Blocks, b \notin gone
    PROVE  /\ PlaceOf(b) \in Blocks
           /\ \A h \in Heights(b) : h \in Nat /\ h >= 1
<1>1. CASE b = held
  <2>1. at \in Blocks \cup {None} /\ N \in Nat
    BY WorldTypes, OrderFacts
  <2>2. PlaceOf(b) \in Blocks
    BY <1>1, <2>1 DEF PlaceOf
  <2>3. Heights(b) = 1 .. N
    BY <1>1 DEF Heights, N
  <2> QED
    BY <2>1, <2>2, <2>3
<1>2. CASE b # held
  <2>1. PICK p \in Blocks : \E i \in 1 .. Len(stack[p]) : stack[p][i] = b
    BY <1>2, Somewhere
  <2>2. PICK i \in 1 .. Len(stack[p]) : stack[p][i] = b
    BY <2>1
  <2>3. PlaceOf(b) = p /\ Heights(b) = IF i = Len(stack[p]) THEN {i} ELSE 1 .. i
    BY <2>2, SeenAt
  <2>4. i \in Nat /\ i >= 1
    OBVIOUS
  <2> QED
    BY <2>3, <2>4
<1> QED
  BY <1>1, <1>2

(* A block covered by another is in a stack, not on top of it.              *)
LEMMA CoveredAt ==
    ASSUME WorldFits, NEW b \in Blocks, Covered(b)
    PROVE  \E p \in Blocks : \E i \in 1 .. Len(stack[p]) :
              stack[p][i] = b /\ i < Len(stack[p])
<1>1. b \notin gone /\ b # held /\ ~IsTop(b)
  BY DEF Covered
<1>2. PICK p \in Blocks : \E i \in 1 .. Len(stack[p]) : stack[p][i] = b
  BY <1>1, Somewhere
<1>3. PICK i \in 1 .. Len(stack[p]) : stack[p][i] = b
  BY <1>2
<1>4. Len(stack[p]) \in Nat
  BY WorldTypes
<1>5. i # Len(stack[p])
  BY <1>1, <1>3, SeenAt
<1>6. i < Len(stack[p])
  BY <1>4, <1>5
<1> QED
  BY <1>3, <1>6

LEMMA TopplesGhosts ==
    ASSUME NEW p, NEW with, Topples(p, with)
    PROVE  (~piled' => ~piled) /\ (known' => known)
           /\ piled' \in BOOLEAN /\ known' \in BOOLEAN
<1>1. PICK n \in 1 .. Len(stack[p]) :
          Falls([stack EXCEPT ![p] = SubSeq(stack[p], 1, n)],
                with \cup Members(SubSeq(stack[p], n + 1, Len(stack[p]))))
  BY DEF Topples
<1> QED
  BY <1>1, GhostsMove

LEMMA DropsGhosts ==
    ASSUME CountsFit, NEW b, NEW p, Drops(b, p)
    PROVE  (~piled' => ~piled) /\ (known' => known)
           /\ piled' \in BOOLEAN /\ known' \in BOOLEAN
<1>1. CASE Falls(stack, {b})
  BY <1>1, GhostsMove
<1>2. CASE Lands(b, p)
  BY <1>2 DEF Lands, CountsFit
<1> QED
  BY <1>1, <1>2 DEF Drops

-----------------------------------------------------------------------------
(* What is left alone still fits.                                           *)

LEMMA WorldKept ==
    ASSUME WorldFits, UNCHANGED <<stack, gone, held>>, at' \in Blocks \cup {None}
    PROVE  WorldFits'
BY DEF WorldFits, Jaws, Apart, Once

LEMMA WorldLetGo ==
    ASSUME Apart(stack', gone', {}), held' = None, at' \in Blocks \cup {None}
    PROVE  WorldFits'
BY DEF WorldFits, Jaws

LEMMA ProgressKept ==
    ASSUME ProgressFits, progress' = progress
    PROVE  ProgressFits'
BY DEF ProgressFits

AtRest == {"build", "unstable"} \cup Ended

LEMMA RestIsNotMoving == AtRest \cap Moving = {}
BY DEF AtRest, Moving, Ended

(* Out of a build nothing is owed of the plan and of the tool.              *)
LEMMA OutOfBuild ==
    ASSUME pc' \in AtRest
    PROVE  PlanFits' /\ StepFits' /\ KnownFits'
<1>1. pc' \notin Moving
  BY RestIsNotMoving
<1>2. pc' \notin InAir \cup {"descend", "verify"}
  BY <1>1 DEF Moving, InAir
<1> QED
  BY <1>1, <1>2 DEF PlanFits, StepFits, KnownFits

LEMMA PlainAtRest ==
    ASSUME pc' \in AtRest, PlainStacks',
           progress' # None /\ progress'.at # Base =>
               held' = None /\ Order[Len(progress'.placed)] \notin Members(Tower')
    PROVE  PlainFits'
<1>1. pc' \notin Moving
  BY RestIsNotMoving
<1>2. pc' # "descend" /\ pc' # "lower" /\ pc' # "verify"
  BY <1>1 DEF Moving
<1> QED
  BY <1>1, <1>2 DEF PlainFits, PlainBuild

(* The agent leaves the build, the world as it is.                          *)
LEMMA LeavesCalmly ==
    ASSUME IInv, pc # "done", pc' \in AtRest,
           UNCHANGED <<stack, gone, held, progress, foreign, piled>>,
           at' = at \/ (at' = None /\ held = None), CountsFit'
    PROVE  IInv'
<1>1. WorldFits'
  <2>1. at \in Blocks \cup {None}
    BY DEF IInv, WorldFits
  <2> QED
    BY <2>1, WorldKept DEF IInv
<1>2. ProgressFits'
  BY ProgressKept DEF IInv
<1>3. PlanFits' /\ StepFits' /\ KnownFits'
  BY OutOfBuild
<1>4. PlainFits'
  <2>1. CASE foreign \/ piled
    BY <2>1 DEF PlainFits
  <2>2. CASE ~foreign /\ ~piled
    <3>1. PlainStacks /\ PlainBuild
      BY <2>2 DEF IInv, PlainFits
    <3>2. PlainStacks'
      BY <3>1 DEF PlainStacks, Tower, Remembered
    <3>3. progress # None /\ progress.at # Base =>
             held = None /\ Order[Len(progress.placed)] \notin Members(Tower)
      BY <3>1 DEF PlainBuild
    <3>4. progress' # None /\ progress'.at # Base =>
             held' = None /\ Order[Len(progress'.placed)] \notin Members(Tower')
      BY <3>3 DEF Tower
    <3> QED
      BY <3>2, <3>4, PlainAtRest
  <2> QED
    BY <2>1, <2>2
<1> QED
  BY <1>1, <1>2, <1>3, <1>4 DEF IInv

-----------------------------------------------------------------------------
(* Every step keeps the invariant.                                          *)

LEMMA SurpriseFits == ASSUME IInv, pc # "done", Surprise PROVE IInv'
<1>1. pc' = "unstable" /\ UNCHANGED <<world, retries, progress, plan, block, grip, ghosts>>
  BY DEF Surprise, GoTo
<1>2. CountsFit'
  BY <1>1 DEF IInv, CountsFit, ghosts
<1>3. pc' \in AtRest
  BY <1>1 DEF AtRest
<1> QED
  BY <1>1, <1>2, <1>3, LeavesCalmly DEF world, ghosts

LEMMA BlockOutOfReachFits == ASSUME IInv, BlockOutOfReach PROVE IInv'
BY SurpriseFits DEF BlockOutOfReach

LEMMA DoesNotConvergeFits == ASSUME IInv, DoesNotConverge PROVE IInv'
BY SurpriseFits DEF DoesNotConverge, Moving

LEMMA LostBlockFits == ASSUME IInv, LostBlock PROVE IInv'
BY SurpriseFits DEF LostBlock

LEMMA RefusedFits == ASSUME IInv, Refused PROVE IInv'
<1>0. pc # "done"
  BY DEF Refused, Refuses, Moving
<1>1. pc' = "refused" /\ UNCHANGED <<world, retries, progress, plan, block, grip, ghosts>>
  BY DEF Refused, GoTo
<1>2. CountsFit'
  BY <1>1 DEF IInv, CountsFit, ghosts, Ended
<1>3. pc' \in AtRest
  BY <1>1 DEF AtRest, Ended
<1> QED
  BY <1>0, <1>1, <1>2, <1>3, LeavesCalmly DEF world, ghosts

LEMMA AgainCounts ==
    ASSUME IInv, Again
    PROVE  pc' \in {"build", "gave_up"} /\ retries' \in 0 .. Retries
<1>1. retries \in 0 .. Retries /\ Retries \in Nat
  BY DEF IInv, CountsFit
<1> QED
  BY <1>1 DEF Again, GoTo

LEMMA RetryUnstoppedFits == ASSUME IInv, RetryUnstopped PROVE IInv'
<1>1. pc = "unstable" /\ Again /\ UNCHANGED <<world, progress, plan, block, grip, ghosts>>
  BY DEF RetryUnstopped
<1>2. pc' \in {"build", "gave_up"} /\ retries' \in 0 .. Retries
  BY <1>1, AgainCounts
<1>3. CountsFit'
  BY <1>1, <1>2 DEF IInv, CountsFit, ghosts, Ended
<1>4. pc' \in AtRest
  BY <1>2 DEF AtRest, Ended
<1> QED
  BY <1>1, <1>3, <1>4, LeavesCalmly DEF world, ghosts

LEMMA StopAndRetryFits == ASSUME IInv, StopAndRetry PROVE IInv'
<1>1. /\ pc = "unstable"
      /\ Opens /\ held' = None /\ at' \in {None, at} /\ Again
      /\ UNCHANGED <<progress, plan, block, grip, foreign>>
  BY DEF StopAndRetry
<1>2. pc' \in {"build", "gave_up"} /\ retries' \in 0 .. Retries
  BY <1>1, AgainCounts
<1>3. pc' \in AtRest
  BY <1>2 DEF AtRest, Ended
<1>4. WorldFits /\ CountsFit /\ ProgressFits /\ PlainFits
  BY DEF IInv
<1>5. at \in Blocks \cup {None}
  BY <1>4 DEF WorldFits
<1>6. WorldFits'
  BY <1>1, <1>4, <1>5, OpensApart, WorldLetGo
<1>7. piled' \in BOOLEAN /\ known' \in BOOLEAN /\ (~piled' => ~piled)
  <2>1. CASE held = None
    BY <1>1, <1>4, <2>1 DEF Opens, CountsFit
  <2>2. CASE held # None
    BY <1>1, <1>4, <2>2, DropsGhosts DEF Opens
  <2> QED
    BY <2>1, <2>2
<1>8. CountsFit'
  BY <1>1, <1>2, <1>4, <1>7 DEF CountsFit, Ended
<1>9. PlainFits'
  <2>1. CASE foreign' \/ piled'
    BY <2>1 DEF PlainFits
  <2>2. CASE ~foreign' /\ ~piled'
    <3>1. PlainStacks /\ PlainBuild
      BY <1>1, <1>4, <1>7, <2>2 DEF PlainFits
    <3>2. CASE held = None
      <4>1. UNCHANGED <<stack, gone>>
        BY <1>1, <3>2 DEF Opens
      <4>2. PlainStacks'
        BY <1>1, <3>1, <4>1 DEF PlainStacks, Tower, Remembered
      <4>3. progress' # None /\ progress'.at # Base =>
               held' = None /\ Order[Len(progress'.placed)] \notin Members(Tower')
        BY <1>1, <3>1, <4>1 DEF PlainBuild, Tower
      <4> QED
        BY <1>3, <4>2, <4>3, PlainAtRest
    <3>3. CASE held # None
      <4>1. Drops(held, at)
        BY <1>1, <3>3 DEF Opens
      <4>2. PlainStacks'
        BY <1>1, <1>4, <2>2, <3>1, <3>3, <4>1, PlainDrops
      <4>3. ~(progress' # None /\ progress'.at # Base)
        BY <1>1, <3>1, <3>3 DEF PlainBuild
      <4> QED
        BY <1>3, <4>2, <4>3, PlainAtRest
    <3> QED
      BY <3>2, <3>3
  <2> QED
    BY <2>1, <2>2
<1>10. PlanFits' /\ StepFits' /\ KnownFits'
  BY <1>3, OutOfBuild
<1>11. ProgressFits'
  BY <1>1, <1>4, ProgressKept
<1> QED
  BY <1>6, <1>8, <1>9, <1>10, <1>11 DEF IInv

LEMMA ToTier ==
    ASSUME pc' = "tier"
    PROVE  StepFits'
BY DEF StepFits, InAir

(* The block remembered on top is seen as high as it should be only in a    *)
(* stack as high.                                                           *)
LEMMA SeenHigh ==
    ASSUME WorldFits, NEW b \in Blocks, b \notin gone, b # held,
           NEW h \in Heights(b)
    PROVE  \E p \in Blocks : \E i \in 1 .. Len(stack[p]) : stack[p][i] = b /\ h <= i
<1>1. PICK p \in Blocks : \E i \in 1 .. Len(stack[p]) : stack[p][i] = b
  BY Somewhere
<1>2. PICK i \in 1 .. Len(stack[p]) : stack[p][i] = b
  BY <1>1
<1>3. Heights(b) = IF i = Len(stack[p]) THEN {i} ELSE 1 .. i
  BY <1>2, SeenAt
<1>4. h <= i
  <2>1. CASE i = Len(stack[p])
    BY <1>3, <2>1
  <2>2. CASE i # Len(stack[p])
    <3>1. h \in 1 .. i
      BY <1>3, <2>2
    <3> QED
      BY <3>1
  <2> QED
    BY <2>1, <2>2
<1> QED
  BY <1>2, <1>4

LEMMA ResumeFits == ASSUME IInv, Resume PROVE IInv'
<1>1. PICK h \in Heights(Believed) :
          /\ Resumes(h)
          /\ plan' = [placed |-> progress.placed, at |-> progress.at, surface |-> h]
  BY DEF Resume
<1>2. /\ pc = "build" /\ pc' = "tier" /\ gone = {}
      /\ known' = (AsRemembered /\ held = None)
      /\ UNCHANGED <<stack, gone, held, at, retries, progress, block, grip, foreign, piled>>
  BY DEF Resume, Reachable, GoTo, world
<1>3. WorldFits /\ CountsFit /\ ProgressFits /\ PlainFits
  BY DEF IInv
<1> DEFINE k == Len(progress.placed)
<1>4. /\ progress # None /\ h = k /\ k \in 2 .. N /\ k \in 1 .. N /\ k \in Nat /\ k >= 2
      /\ progress.placed \in Seq(Blocks) /\ progress.at \in Blocks
      /\ progress.placed = First(k)
  <2>1. progress # None /\ h = k
    BY <1>1 DEF Resumes
  <2>2. /\ k \in 2 .. N /\ N \in Nat
        /\ progress \in [placed : Seq(Blocks), at : Blocks] /\ progress.placed = First(k)
    BY <1>3, <2>1, OrderFacts DEF ProgressFits
  <2> QED
    BY <2>1, <2>2
<1>5. Len(First(k)) = k /\ First(k)[k] = Order[k] /\ Order[k] \in Blocks
      /\ \A i \in 1 .. k : First(k)[i] = Order[i]
  <2>1. k \in 0 .. N /\ k \in 1 .. k
    BY <1>4
  <2> QED
    BY <1>4, <2>1, FirstFacts, OrderFacts
<1>6. Believed = Order[k]
  BY <1>4, <1>5 DEF Believed
<1>7. plan'.placed = progress.placed /\ plan'.at = progress.at /\ plan'.surface = k
      /\ K' = k
  BY <1>1, <1>4 DEF K
<1>8. WorldFits'
  <2>1. at \in Blocks \cup {None}
    BY <1>3 DEF WorldFits
  <2> QED
    BY <1>2, <1>3, <2>1, WorldKept
<1>9. CountsFit'
  BY <1>2, <1>3 DEF CountsFit, Moving
<1>10. ProgressFits'
  BY <1>2, <1>3, ProgressKept
<1>11. PlanFits'
  <2>1. plan' \in [placed : Seq(Blocks), at : Blocks, surface : Nat]
    BY <1>1, <1>4
  <2> QED
    BY <1>2, <1>4, <1>7, <2>1 DEF PlanFits
<1>12. ASSUME held # Order[k]
       PROVE  \E p \in Blocks : \E i \in 1 .. Len(stack[p]) :
                 stack[p][i] = Order[k] /\ k <= i
  BY <1>2, <1>3, <1>4, <1>5, <1>6, <1>12, SeenHigh
<1>13. ASSUME NEW p \in Blocks, stack[p] = << >> \/ stack[p] = <<p>>,
              NEW i \in 1 .. Len(stack[p]), k <= i
       PROVE  FALSE
  <2>1. Len(<< >>) = 0 /\ Len(<<p>>) = 1
    OBVIOUS
  <2>2. Len(stack[p]) = 0 \/ Len(stack[p]) = 1
    BY <1>13, <2>1
  <2>3. k >= 2 /\ k \in Nat /\ k <= i
    BY <1>4, <1>13
  <2>4. i \in 1 .. 0 \/ i \in 1 .. 1
    BY <2>2
  <2> HIDE DEF k
  <2> QED
    BY <2>3, <2>4
<1>14. PlainFits'
  <2>1. CASE foreign \/ piled
    BY <1>2, <2>1 DEF PlainFits
  <2>2. CASE ~foreign /\ ~piled
    <3>1. PlainStacks /\ PlainBuild
      BY <1>2, <1>3, <2>2 DEF PlainFits
    <3>2. PlainStacks'
      BY <1>2, <3>1 DEF PlainStacks, Tower, Remembered
    <3>3. progress.at = Base
      <4>1. SUFFICES ASSUME progress.at # Base PROVE FALSE
        OBVIOUS
      <4>2. held = None /\ Order[k] \notin Members(Tower)
        BY <1>4, <3>1, <4>1 DEF PlainBuild
      <4>3. None \notin Blocks
        BY StackerAssumption
      <4>4. PICK p \in Blocks : \E i \in 1 .. Len(stack[p]) :
                 stack[p][i] = Order[k] /\ k <= i
        BY <1>5, <1>12, <4>2, <4>3
      <4>5. PICK i \in 1 .. Len(stack[p]) : stack[p][i] = Order[k] /\ k <= i
        BY <4>4
      <4>6. p # Base
        <5>1. stack[p] \in Seq(Blocks)
          BY <1>3, WorldTypes
        <5>2. Order[k] \in Members(stack[p])
          BY <4>5, <5>1, MemberAt
        <5> QED
          BY <4>2, <5>2 DEF Tower
      <4>7. stack[p] = << >> \/ stack[p] = <<p>>
        BY <3>1, <4>6 DEF PlainStacks
      <4> QED
        BY <1>13, <4>5, <4>7
    <3>4. PlainBuild'
      BY <1>2, <1>7, <3>3 DEF PlainBuild
    <3> QED
      BY <3>2, <3>4 DEF PlainFits
  <2> QED
    BY <2>1, <2>2
<1>15. KnownFits'
  <2> SUFFICES ASSUME known' PROVE KnownStacks' /\ KnownTool'
    BY DEF KnownFits
  <2>1. AsRemembered /\ held = None
    BY <1>2
  <2>2. \A p \in Blocks : p # progress.at => stack[p] = << >> \/ stack[p] = <<p>>
    BY <2>1 DEF AsRemembered
  <2>3. PICK p \in Blocks : \E i \in 1 .. Len(stack[p]) :
             stack[p][i] = Order[k] /\ k <= i
    <3>1. None \notin Blocks
      BY StackerAssumption
    <3> QED
      BY <1>5, <1>12, <2>1, <3>1
  <2>4. ~(stack[p] = << >> \/ stack[p] = <<p>>)
    BY <1>13, <2>3
  <2>5. p = progress.at /\ stack[progress.at] = First(k)
    BY <1>4, <2>1, <2>4 DEF AsRemembered
  <2>6. \E i \in 1 .. k : progress.at = Order[i]
    <3>1. progress.at \notin gone /\ progress.at # held /\ progress.at \in Blocks
      <4>1. None \notin Blocks
        BY StackerAssumption
      <4> QED
        BY <1>2, <1>4, <2>1, <4>1
    <3>2. PICK q \in Blocks : \E v \in 1 .. Len(stack[q]) : stack[q][v] = progress.at
      BY <1>3, <3>1, Somewhere
    <3>3. PICK v \in 1 .. Len(stack[q]) : stack[q][v] = progress.at
      BY <3>2
    <3>4. q = progress.at
      <4>1. SUFFICES ASSUME q # progress.at PROVE FALSE
        OBVIOUS
      <4>2. stack[q] = << >> \/ stack[q] = <<q>>
        BY <2>2, <4>1
      <4>3. Len(<< >>) = 0 /\ Len(<<q>>) = 1 /\ <<q>>[1] = q
        OBVIOUS
      <4>4. stack[q] = <<q>> /\ v = 1
        BY <3>3, <4>2, <4>3
      <4> QED
        BY <3>3, <4>1, <4>3, <4>4
    <3>5. v \in 1 .. k /\ First(k)[v] = progress.at
      BY <1>5, <2>5, <3>3, <3>4
    <3> QED
      BY <1>5, <3>5
  <2>7. Site' = First(k)
    BY <1>2, <1>7, <2>5 DEF Site
  <2>8. KnownStacks'
    <3>1. Len(Site') <= K' /\ \A i \in 1 .. Len(Site') : Site'[i] = Order[i]
      BY <1>4, <1>5, <1>7, <2>7
    <3>2. \A q \in Blocks : q # plan'.at => stack'[q] = << >> \/ stack'[q] = <<q>>
      BY <1>2, <1>7, <2>2
    <3>3. \E i \in 1 .. K' : plan'.at = Order[i]
      BY <1>7, <2>6
    <3> QED
      BY <1>2, <1>7, <3>1, <3>2, <3>3 DEF KnownStacks
  <2>9. KnownTool'
    BY <1>2, <2>1 DEF KnownTool, InAir
  <2> QED
    BY <2>8, <2>9
<1> QED
  BY <1>2, <1>8, <1>9, <1>10, <1>11, <1>14, <1>15, ToTier DEF IInv

LEMMA PlainPlace ==
    ASSUME WorldFits, PlainStacks, NEW b \in Blocks, b \notin gone
    PROVE  PlaceOf(b) = b \/ PlaceOf(b) = Base
<1>1. CASE b = held
  BY <1>1, StackerAssumption DEF PlaceOf, PlainStacks
<1>2. CASE b # held
  <2>1. PICK p \in Blocks : \E i \in 1 .. Len(stack[p]) : stack[p][i] = b
    BY <1>2, Somewhere
  <2>2. PICK i \in 1 .. Len(stack[p]) : stack[p][i] = b
    BY <2>1
  <2>3. Len(<< >>) = 0 /\ Len(<<p>>) = 1 /\ <<p>>[1] = p
    OBVIOUS
  <2>4. p # Base => stack[p] = << >> \/ stack[p] = <<p>>
    BY DEF PlainStacks
  <2>5. p = Base \/ p = b
    <3>1. CASE stack[p] = << >>
      BY <2>3, <3>1
    <3>2. CASE stack[p] = <<p>>
      <4>1. Len(stack[p]) = 1 /\ stack[p][1] = p
        BY <2>3, <3>2
      <4> QED
        BY <2>2, <4>1
    <3> QED
      BY <2>4, <3>1, <3>2
  <2>6. PlaceOf(b) = p
    BY <2>2, SeenAt
  <2> QED
    BY <2>5, <2>6
<1> QED
  BY <1>1, <1>2

LEMMA HomeStacks ==
    ASSUME WorldFits, held = None, gone = {},
           \A p \in Blocks : stack[p] = << >> \/ stack[p] = <<p>>
    PROVE  \A b \in Blocks : PlaceOf(b) = b /\ Heights(b) = {1} /\ stack[b] = <<b>>
<1> TAKE b \in Blocks
<1>1. b \notin gone /\ b # held
  BY StackerAssumption
<1>2. PICK p \in Blocks : \E i \in 1 .. Len(stack[p]) : stack[p][i] = b
  BY <1>1, Somewhere
<1>3. PICK i \in 1 .. Len(stack[p]) : stack[p][i] = b
  BY <1>2
<1>4. Len(<< >>) = 0 /\ Len(<<p>>) = 1 /\ <<p>>[1] = p
  OBVIOUS
<1>5. stack[p] = <<p>> /\ i = 1 /\ i = Len(stack[p]) /\ p = b
  <2>1. stack[p] # << >>
    BY <1>4
  <2>2. stack[p] = <<p>>
    BY <2>1
  <2>3. Len(stack[p]) = 1 /\ stack[p][1] = p
    BY <1>4, <2>2
  <2>4. i = 1
    BY <2>3
  <2> QED
    BY <1>3, <2>2, <2>3, <2>4
<1> QED
  BY <1>3, <1>5, SeenAt

LEMMA StartOverFits == ASSUME IInv, StartOver PROVE IInv'
<1>1. PICK h \in Heights(Order[1]) :
          plan' = [placed |-> First(1), at |-> PlaceOf(Order[1]), surface |-> h]
  BY DEF StartOver
<1>2. /\ pc = "build" /\ pc' = "tier" /\ gone = {} /\ progress' = None
      /\ known' = (AsRemembered /\ held = None)
      /\ UNCHANGED <<stack, gone, held, at, retries, block, grip, foreign, piled>>
      /\ \E v \in Heights(Believed) : ~Resumes(v)
  BY DEF StartOver, Reachable, GoTo, world
<1>3. WorldFits /\ CountsFit /\ ProgressFits /\ PlainFits
  BY DEF IInv
<1>4. Base \in Blocks /\ Base = Order[1] /\ None \notin Blocks /\ N \in Nat /\ N >= 2
      /\ 1 \in 1 .. N /\ 1 \in 0 .. N
  BY OrderFacts, StackerAssumption DEF Base
<1>5. PlaceOf(Order[1]) \in Blocks /\ h \in Nat
  <2>1. Order[1] \in Blocks /\ Order[1] \notin gone
    BY <1>2, <1>4
  <2> QED
    BY <1>3, <2>1, SeenSomewhere
<1>6. First(1) \in Seq(Blocks) /\ Len(First(1)) = 1
  BY <1>4, FirstFacts
<1>7. plan'.placed = First(1) /\ plan'.at = PlaceOf(Base) /\ plan'.surface = h /\ K' = 1
  BY <1>1, <1>4, <1>6 DEF K
<1>8. WorldFits'
  <2>1. at \in Blocks \cup {None}
    BY <1>3 DEF WorldFits
  <2> QED
    BY <1>2, <1>3, <2>1, WorldKept
<1>9. CountsFit'
  BY <1>2, <1>3 DEF CountsFit, Moving
<1>10. ProgressFits'
  BY <1>2 DEF ProgressFits
<1>11. PlanFits'
  <2>1. plan' \in [placed : Seq(Blocks), at : Blocks, surface : Nat]
    BY <1>1, <1>5, <1>6
  <2> QED
    BY <1>2, <1>4, <1>7, <2>1 DEF PlanFits
<1>12. Remembered \in 1 .. N /\ Remembered' = 1
  BY <1>2, <1>3, RememberedFits DEF Remembered
<1>13. PlainFits'
  <2>1. CASE foreign \/ piled
    BY <1>2, <2>1 DEF PlainFits
  <2>2. CASE ~foreign /\ ~piled
    <3>1. PlainStacks /\ PlainBuild
      BY <1>2, <1>3, <2>2 DEF PlainFits
    <3>2. PlainStacks'
      <4>1. Kept(Tower, 1)
        <5>1. 1 \in 1 .. Remembered
          BY <1>12
        <5> QED
          BY <3>1, <5>1 DEF PlainStacks, Kept
      <4>2. \A i \in 2 .. 1 : FALSE
        OBVIOUS
      <4> QED
        BY <1>2, <1>12, <3>1, <4>1, <4>2 DEF PlainStacks, Tower
    <3>3. PlaceOf(Base) = Base
      BY <1>2, <1>3, <1>4, <3>1, PlainPlace
    <3>4. PlainBuild'
      BY <1>2, <1>7, <3>3 DEF PlainBuild
    <3> QED
      BY <3>2, <3>4 DEF PlainFits
  <2> QED
    BY <2>1, <2>2
<1>14. KnownFits'
  <2> SUFFICES ASSUME known' PROVE KnownStacks' /\ KnownTool'
    BY DEF KnownFits
  <2>1. AsRemembered /\ held = None
    BY <1>2
  <2>2. \A p \in Blocks : stack[p] = << >> \/ stack[p] = <<p>>
    <3>1. SUFFICES ASSUME NEW p \in Blocks, ~(stack[p] = << >> \/ stack[p] = <<p>>)
                   PROVE  FALSE
      OBVIOUS
    <3> DEFINE k == Len(progress.placed)
    <3>2. progress # None /\ p = progress.at /\ stack[p] = progress.placed
      BY <2>1, <3>1 DEF AsRemembered
    <3>3. k \in 2 .. N /\ progress.placed = First(k)
      BY <1>3, <3>2 DEF ProgressFits
    <3>4. k \in 1 .. N /\ k \in 0 .. N /\ k \in 1 .. k
      BY <1>4, <3>3
    <3>5. Len(First(k)) = k /\ First(k)[k] = Order[k] /\ Order[k] \in Blocks
      BY <3>4, FirstFacts, OrderFacts
    <3>6. Believed = Order[k]
      BY <3>2, <3>3, <3>5 DEF Believed
    <3>7. stack[p][k] = Order[k] /\ Len(stack[p]) = k
      BY <3>2, <3>3, <3>5
    <3> HIDE DEF k
    <3>8. Heights(Order[k]) = {k}
      <4>1. k \in 1 .. Len(stack[p])
        BY <3>4, <3>7
      <4> QED
        BY <1>3, <3>5, <3>7, <4>1, SeenAt
    <3>9. Resumes(k)
      BY <3>2 DEF Resumes, k
    <3> QED
      BY <1>2, <3>6, <3>8, <3>9
  <2>3. PlaceOf(Base) = Base /\ Heights(Base) = {1} /\ stack[Base] = <<Base>>
    BY <1>2, <1>3, <1>4, <2>1, <2>2, HomeStacks
  <2>4. h = 1
    BY <1>4, <2>3
  <2>5. Site' = <<Base>> /\ Len(<<Base>>) = 1 /\ <<Base>>[1] = Order[1]
    BY <1>2, <1>4, <1>7, <2>3 DEF Site
  <2>6. KnownStacks'
    <3>1. Len(Site') <= K' /\ \A i \in 1 .. Len(Site') : Site'[i] = Order[i]
      BY <1>7, <2>5
    <3>2. \A q \in Blocks : q # plan'.at => stack'[q] = << >> \/ stack'[q] = <<q>>
      BY <1>2, <2>2
    <3>3. \E i \in 1 .. K' : plan'.at = Order[i]
      BY <1>4, <1>7, <2>3
    <3> QED
      BY <1>2, <1>7, <2>4, <3>1, <3>2, <3>3 DEF KnownStacks
  <2>7. KnownTool'
    BY <1>2, <2>1 DEF KnownTool, InAir
  <2> QED
    BY <2>6, <2>7
<1> QED
  BY <1>2, <1>8, <1>9, <1>10, <1>11, <1>13, <1>14, ToTier DEF IInv

(* The jaws open: what an attempt without piles takes there to be stands.   *)
LEMMA PlainOpens ==
    ASSUME WorldFits, ProgressFits, PlainStacks, Opens, held' = None, ~piled',
           progress' = progress
    PROVE  /\ PlainStacks'
           /\ Tower' = Tower \/ (held # None /\ Tower' = Append(Tower, held))
<1>1. CASE held = None
  <2>1. UNCHANGED stack
    BY <1>1 DEF Opens
  <2> QED
    BY <1>1, <2>1 DEF PlainStacks, Tower, Remembered
<1>2. CASE held # None
  <2>1. Drops(held, at)
    BY <1>2 DEF Opens
  <2> QED
    BY <1>2, <2>1, PlainDrops
<1> QED
  BY <1>1, <1>2

LEMMA OpensGhosts ==
    ASSUME CountsFit, Opens
    PROVE  (~piled' => ~piled) /\ (known' => known)
           /\ piled' \in BOOLEAN /\ known' \in BOOLEAN
<1>1. CASE held = None
  BY <1>1 DEF Opens, CountsFit
<1>2. CASE held # None
  BY <1>2, DropsGhosts DEF Opens
<1> QED
  BY <1>1, <1>2

LEMMA NextBlockFits == ASSUME IInv, NextBlock PROVE IInv'
<1> DEFINE b == Order[K + 1]
<1>1. /\ pc = "tier" /\ K < N /\ block' = b /\ grip' = 1
      /\ \/ /\ b \notin gone /\ Opens /\ held' = None
            /\ at' = PlaceOf(b) /\ pc' = "descend"
         \/ /\ pc' = "unstable"
            /\ UNCHANGED <<world, known, piled>>
      /\ UNCHANGED <<retries, progress, plan, foreign>>
  BY DEF NextBlock, K, N, Over, GoTo
<1>2. WorldFits /\ CountsFit /\ ProgressFits /\ PlainFits /\ PlanFits /\ KnownFits
  BY DEF IInv
<1>3. /\ plan \in [placed : Seq(Blocks), at : Blocks, surface : Nat]
      /\ K \in 1 .. N /\ plan.placed = First(K)
      /\ \/ progress = None /\ K = 1
         \/ progress # None /\ progress.placed = plan.placed
  BY <1>1, <1>2 DEF PlanFits, Moving
<1>4. K \in Nat /\ N \in Nat /\ K + 1 \in 1 .. N /\ b \in Blocks /\ plan.at \in Blocks
  <2>1. N \in Nat
    BY OrderFacts
  <2>2. K \in Nat /\ K + 1 \in 1 .. N
    BY <1>1, <1>3, <2>1
  <2> QED
    BY <1>3, <2>1, <2>2, OrderFacts
<1>5. 1 \in 0 .. Grips
  BY StackerAssumption
<1> HIDE DEF b
<1>6. CASE /\ pc' = "unstable"
           /\ UNCHANGED <<world, known, piled>>
  <2>1. CountsFit'
    BY <1>1, <1>2, <1>5, <1>6 DEF CountsFit
  <2>2. pc' \in AtRest /\ pc # "done"
    BY <1>1, <1>6 DEF AtRest
  <2> QED
    BY <1>1, <1>6, <2>1, <2>2, LeavesCalmly DEF world
<1>7. CASE /\ b \notin gone /\ Opens /\ held' = None
           /\ at' = PlaceOf(b) /\ pc' = "descend"
  <2>1. at' \in Blocks
    BY <1>2, <1>4, <1>7, SeenSomewhere
  <2>2. WorldFits'
    BY <1>2, <1>7, <2>1, OpensApart, WorldLetGo
  <2>3. piled' \in BOOLEAN /\ known' \in BOOLEAN /\ (~piled' => ~piled) /\ (known' => known)
    BY <1>2, <1>7, OpensGhosts
  <2>4. CountsFit'
    BY <1>1, <1>2, <1>5, <1>7, <2>3 DEF CountsFit, Moving
  <2>5. ProgressFits'
    BY <1>1, <1>2, ProgressKept
  <2>6. PlanFits'
    BY <1>1, <1>3, <1>7 DEF PlanFits, K, b
  <2>7. StepFits'
    BY <1>7, <2>1 DEF StepFits
  <2>8. PlainFits'
    <3>1. CASE foreign' \/ piled'
      BY <3>1 DEF PlainFits
    <3>2. CASE ~foreign' /\ ~piled'
      <4>1. PlainStacks /\ PlainBuild
        BY <1>1, <1>2, <2>3, <3>2 DEF PlainFits
      <4>2. PlainStacks'
        BY <1>1, <1>2, <1>7, <3>2, <4>1, PlainOpens
      <4>3. at' = block' \/ at' = Base
        BY <1>1, <1>2, <1>4, <1>7, <4>1, PlainPlace
      <4>4. plan'.at = Base /\ ~(progress' # None /\ progress'.at # Base)
        BY <1>1, <4>1 DEF PlainBuild, Moving
      <4>5. PlainBuild'
        BY <1>7, <4>3, <4>4 DEF PlainBuild
      <4> QED
        BY <4>2, <4>5 DEF PlainFits
    <3> QED
      BY <3>1, <3>2
  <2>9. KnownFits'
    <3> SUFFICES ASSUME known' PROVE KnownStacks' /\ KnownTool'
      BY DEF KnownFits
    <3>1. KnownStacks /\ KnownTool
      BY <1>1, <1>2, <2>3 DEF KnownFits, Moving
    <3>2. held = None /\ UNCHANGED <<stack, gone>>
      <4>1. held = None
        BY <1>1, <3>1 DEF KnownTool
      <4> QED
        BY <1>7, <4>1 DEF Opens
    <3>3. /\ Len(Site) <= K /\ \A i \in 1 .. Len(Site) : Site[i] = Order[i]
          /\ \A p \in Blocks : p # plan.at => stack[p] = << >> \/ stack[p] = <<p>>
      BY <1>1, <3>1 DEF KnownStacks
    <3>4. KnownStacks'
      BY <1>1, <1>7, <3>1, <3>2, <3>3 DEF KnownStacks, Site, K
    <3>5. PlaceOf(b) = b
      <4>1. b # held
        BY <1>4, <3>2, StackerAssumption
      <4>2. PICK p \in Blocks : \E i \in 1 .. Len(stack[p]) : stack[p][i] = b
        BY <1>2, <1>4, <1>7, <4>1, Somewhere
      <4>3. PICK i \in 1 .. Len(stack[p]) : stack[p][i] = b
        BY <4>2
      <4>4. p # plan.at
        <5>1. SUFFICES ASSUME p = plan.at PROVE FALSE
          OBVIOUS
        <5>2. Len(Site) \in Nat
          BY <1>2, <1>4, WorldTypes DEF Site
        <5>3. i \in 1 .. N /\ i <= K /\ Order[i] = b
          BY <1>4, <3>3, <4>3, <5>1, <5>2 DEF Site
        <5>4. i = K + 1
          BY <1>4, <5>3, OrderFacts DEF b
        <5> QED
          BY <1>4, <5>3, <5>4
      <4>5. Len(<< >>) = 0 /\ Len(<<p>>) = 1 /\ <<p>>[1] = p
        OBVIOUS
      <4>6. CASE stack[p] = << >>
        BY <4>5, <4>6
      <4>7. CASE stack[p] = <<p>>
        <5>1. Len(stack[p]) = 1 /\ stack[p][1] = p
          BY <4>5, <4>7
        <5>2. b = p
          BY <4>3, <5>1
        <5> QED
          BY <1>2, <4>3, <5>2, SeenAt
      <4> QED
        BY <3>3, <4>4, <4>6, <4>7
    <3>6. KnownTool'
      BY <1>1, <1>7, <3>5 DEF KnownTool
    <3> QED
      BY <3>4, <3>6
  <2> QED
    BY <2>2, <2>4, <2>5, <2>6, <2>7, <2>8, <2>9 DEF IInv
<1> QED
  BY <1>1, <1>6, <1>7

(* The block being moved is the next one.                                   *)
LEMMA PlanNext ==
    ASSUME PlanFits, pc \in Moving, pc \notin {"tier", "park"}
    PROVE  /\ K \in 1 .. N /\ K \in Nat /\ K < N /\ N \in Nat /\ K + 1 \in 1 .. N
           /\ plan \in [placed : Seq(Blocks), at : Blocks, surface : Nat]
           /\ plan.at \in Blocks /\ plan.placed = First(K)
           /\ block = Order[K + 1] /\ block \in Blocks /\ block # None
           /\ \A i \in 1 .. K : Order[i] # block
           /\ Remembered = K
<1>1. /\ plan \in [placed : Seq(Blocks), at : Blocks, surface : Nat]
      /\ K \in 1 .. N /\ plan.placed = First(K)
      /\ \/ progress = None /\ K = 1
         \/ progress # None /\ progress.placed = plan.placed
      /\ K < N /\ block = Order[K + 1]
  BY DEF PlanFits
<1>2. K \in Nat /\ N \in Nat /\ K + 1 \in 1 .. N
  <2>1. N \in Nat
    BY OrderFacts
  <2> QED
    BY <1>1, <2>1
<1>3. Order[K + 1] \in Blocks /\ \A i \in 1 .. N : Order[i] = Order[K + 1] => i = K + 1
  BY <1>2, OrderFacts
<1>4. \A i \in 1 .. K : Order[i] # block
  BY <1>1, <1>2, <1>3
<1>5. Remembered = K
  BY <1>1 DEF Remembered, K
<1> QED
  BY <1>1, <1>2, <1>3, <1>4, <1>5, StackerAssumption

LEMMA ToAir ==
    ASSUME pc' \in InAir, at' \in Blocks
    PROVE  StepFits'
BY DEF StepFits, InAir

LEMMA LengthOne ==
    ASSUME NEW p, NEW s, s = << >> \/ s = <<p>>
    PROVE  Len(s) \in 0 .. 1 /\ (Len(s) = 1 => s[1] = p /\ s = <<p>>)
<1>1. Len(<< >>) = 0 /\ Len(<<p>>) = 1 /\ <<p>>[1] = p
  OBVIOUS
<1>2. CASE s = << >>
  BY <1>1, <1>2
<1>3. CASE s = <<p>>
  BY <1>1, <1>3
<1> QED
  BY <1>2, <1>3

LEMMA DescendFits == ASSUME IInv, Descend PROVE IInv'
<1>1. /\ pc = "descend" /\ pc' = "lift"
      /\ UNCHANGED <<at, retries, progress, plan, block, grip, foreign>>
      /\ \/ /\ Len(stack[at]) = 1 /\ held' = stack[at][1]
            /\ stack' = [stack EXCEPT ![at] = << >>]
            /\ UNCHANGED <<gone, known, piled>>
         \/ UNCHANGED <<stack, gone, held, known, piled>>
         \/ Len(stack[at]) >= 2 /\ Topples(at, {}) /\ UNCHANGED held
  BY DEF Descend, GoTo
<1>2. WorldFits /\ CountsFit /\ ProgressFits /\ PlainFits /\ PlanFits /\ KnownFits /\ StepFits
  BY DEF IInv
<1>3. at \in Blocks /\ held = None
  BY <1>1, <1>2 DEF StepFits
<1>4. /\ K \in 1 .. N /\ K \in Nat /\ K < N /\ N \in Nat /\ K + 1 \in 1 .. N
      /\ plan \in [placed : Seq(Blocks), at : Blocks, surface : Nat]
      /\ plan.at \in Blocks /\ plan.placed = First(K)
      /\ block = Order[K + 1] /\ block \in Blocks /\ block # None
      /\ \A i \in 1 .. K : Order[i] # block
      /\ Remembered = K
  BY <1>1, <1>2, PlanNext DEF Moving
<1>5. Apart(stack, gone, {}) /\ stack \in [Blocks -> Seq(Blocks)]
  BY <1>2, <1>3 DEF WorldFits, Jaws, Apart
<1>6. piled' \in BOOLEAN /\ known' \in BOOLEAN /\ (~piled' => ~piled) /\ (known' => known)
  <2>1. CASE UNCHANGED <<known, piled>>
    BY <1>2, <2>1 DEF CountsFit
  <2>2. CASE Topples(at, {})
    BY <2>2, TopplesGhosts
  <2> QED
    BY <1>1, <2>1, <2>2
<1>7. CountsFit'
  BY <1>1, <1>2, <1>6 DEF CountsFit, Moving
<1>8. ProgressFits'
  BY <1>1, <1>2, ProgressKept
<1>9. PlanFits'
  BY <1>1, <1>2 DEF PlanFits, K, Moving
<1>10. StepFits'
  BY <1>1, <1>3, ToAir DEF InAir
<1>11. WorldFits'
  <2>1. CASE /\ Len(stack[at]) = 1 /\ held' = stack[at][1]
             /\ stack' = [stack EXCEPT ![at] = << >>] /\ UNCHANGED gone
    <3>1. Apart(stack', gone', {held'}) /\ held' \in Blocks
      BY <1>3, <1>5, <2>1, LiftApart
    <3> QED
      BY <1>1, <1>3, <3>1, StackerAssumption DEF WorldFits, Jaws
  <2>2. CASE UNCHANGED <<stack, gone, held>>
    BY <1>1, <1>2, <1>3, <2>2, WorldKept
  <2>3. CASE Topples(at, {}) /\ UNCHANGED held
    <3>1. {} = {} \cup {} /\ {} \cap {} = {}
      OBVIOUS
    <3>2. Apart(stack', gone', {})
      BY <1>3, <1>5, <2>3, <3>1, TopplesApart
    <3> QED
      BY <1>1, <1>3, <2>3, <3>2, WorldLetGo
  <2> QED
    BY <1>1, <2>1, <2>2, <2>3
<1>12. PlainFits'
  <2>1. CASE foreign' \/ piled'
    BY <2>1 DEF PlainFits
  <2>2. CASE ~foreign' /\ ~piled'
    <3>1. PlainStacks /\ PlainBuild
      BY <1>1, <1>2, <1>6, <2>2 DEF PlainFits
    <3>2. PlainBuild'
      BY <1>1, <3>1 DEF PlainBuild, Moving
    <3>3. PlainStacks'
      <4>1. CASE /\ Len(stack[at]) = 1 /\ held' = stack[at][1]
                 /\ stack' = [stack EXCEPT ![at] = << >>]
        <5>1. stack'[at] = << >> /\ \A q \in Blocks : q # at => stack'[q] = stack[q]
          BY <1>3, <1>5, <4>1
        <5>2. \A q \in Blocks : q # Base => stack'[q] = << >> \/ stack'[q] = <<q>>
          BY <3>1, <5>1 DEF PlainStacks
        <5>3. Remembered' = K
          BY <1>1, <1>4 DEF Remembered
        <5>4. CASE at = Base
          <6>1. Tower' = << >>
            BY <1>1, <5>1, <5>4 DEF Tower
          <6>2. Kept(Tower', K)
            <7>1. Members(<< >>) = {}
              BY DEF Members
            <7> QED
              BY <6>1, <7>1 DEF Kept
          <6>3. ASSUME NEW i \in 2 .. K, held' = Order[i] PROVE FALSE
            <7>1. Tower \in Seq(Blocks) /\ Len(Tower) = 1 /\ Tower[1] = Order[i]
              BY <1>5, <4>1, <5>4, <6>3, OrderFacts DEF Tower
            <7>2. Order[i] \in Members(Tower)
              <8>1. 1 \in 1 .. Len(Tower)
                BY <7>1
              <8> QED
                BY <7>1, <8>1, MemberAt
            <7>3. i \in 1 .. K /\ Kept(Tower, K)
              BY <1>4, <3>1 DEF PlainStacks
            <7>4. Len(Tower) >= i
              BY <7>2, <7>3 DEF Kept, Stands
            <7> QED
              BY <7>1, <7>4
          <6> QED
            BY <1>1, <5>2, <5>3, <5>4, <6>1, <6>2, <6>3 DEF PlainStacks
        <5>5. CASE at # Base
          <6>1. at = block
            BY <1>1, <3>1, <5>5 DEF PlainBuild
          <6>2. stack[at] = << >> \/ stack[at] = <<at>>
            BY <1>3, <3>1, <5>5 DEF PlainStacks
          <6>3. held' = block
            BY <4>1, <6>1, <6>2, LengthOne
          <6>4. Base \in Blocks /\ Base # block
            <7>1. 1 \in 1 .. K
              BY <1>4
            <7> QED
              BY <1>4, <7>1, OrderFacts DEF Base
          <6>5. Tower' = Tower
            BY <5>1, <5>5, <6>4 DEF Tower
          <6>6. \A i \in 2 .. K : held' # Order[i]
            BY <1>4, <6>3
          <6> QED
            BY <1>1, <1>4, <3>1, <5>2, <5>3, <6>1, <6>3, <6>4, <6>5, <6>6 DEF PlainStacks
        <5> QED
          BY <5>4, <5>5
      <4>2. CASE UNCHANGED <<stack, held>>
        BY <1>1, <3>1, <4>2 DEF PlainStacks, Tower, Remembered
      <4>3. CASE Topples(at, {}) /\ UNCHANGED held
        <5>1. {} \in SUBSET Blocks /\ Base \notin {}
          OBVIOUS
        <5> QED
          BY <1>1, <1>2, <1>3, <2>2, <3>1, <4>3, <5>1, PlainTopples
      <4> QED
        BY <1>1, <4>1, <4>2, <4>3
    <3> QED
      BY <3>2, <3>3 DEF PlainFits
  <2> QED
    BY <2>1, <2>2
<1>13. KnownFits'
  <2> SUFFICES ASSUME known' PROVE KnownStacks' /\ KnownTool'
    BY DEF KnownFits
  <2>1. KnownStacks /\ KnownTool
    BY <1>1, <1>2, <1>6 DEF KnownFits, Moving
  <2>2. at = block /\ block # plan.at
    <3>1. at = block
      BY <1>1, <2>1 DEF KnownTool
    <3>2. PICK i \in 1 .. K : plan.at = Order[i]
      BY <2>1 DEF KnownStacks
    <3> QED
      BY <1>4, <3>1, <3>2
  <2>3. stack[at] = << >> \/ stack[at] = <<at>>
    BY <1>3, <2>1, <2>2 DEF KnownStacks
  <2>4. Len(stack[at]) \in 0 .. 1 /\ (Len(stack[at]) = 1 => stack[at][1] = at)
    BY <2>3, LengthOne
  <2>5. CASE /\ Len(stack[at]) = 1 /\ held' = stack[at][1]
             /\ stack' = [stack EXCEPT ![at] = << >>]
    <3>1. held' = block'
      BY <1>1, <2>2, <2>4, <2>5
    <3>2. stack'[at] = << >> /\ \A q \in Blocks : q # at => stack'[q] = stack[q]
      BY <1>3, <1>5, <2>5
    <3>3. Site' = Site
      BY <1>1, <1>4, <2>2, <3>2 DEF Site
    <3>4. \A q \in Blocks : q # plan'.at => stack'[q] = << >> \/ stack'[q] = <<q>>
      BY <1>1, <2>1, <3>2 DEF KnownStacks
    <3>5. KnownStacks'
      BY <1>1, <2>1, <3>3, <3>4 DEF KnownStacks, K
    <3>6. KnownTool'
      BY <1>1, <2>2, <3>1 DEF KnownTool
    <3> QED
      BY <3>5, <3>6
  <2>6. CASE UNCHANGED <<stack, held>>
    <3>1. KnownStacks'
      BY <1>1, <1>3, <2>1, <2>6 DEF KnownStacks, K, Site
    <3>2. KnownTool'
      BY <1>1, <1>3, <2>2, <2>6 DEF KnownTool
    <3> QED
      BY <3>1, <3>2
  <2>7. ~(Len(stack[at]) >= 2)
    BY ONLY <2>4
  <2> QED
    BY <1>1, <2>5, <2>6, <2>7
<1> QED
  BY <1>7, <1>8, <1>9, <1>10, <1>11, <1>12, <1>13 DEF IInv

LEMMA ShedsFits == ASSUME IInv, Sheds PROVE IInv'
<1>1. /\ pc \notin Ended /\ pc # "done" /\ held # None /\ Drops(held, at) /\ held' = None
      /\ UNCHANGED <<at, pc, retries, progress, plan, block, grip, foreign>>
  BY DEF Sheds, Ended
<1>2. WorldFits /\ CountsFit /\ ProgressFits /\ PlainFits /\ PlanFits /\ KnownFits /\ StepFits
  BY DEF IInv
<1>3. held \in Blocks /\ at \in Blocks \cup {None} /\ Apart(stack, gone, {held})
  BY <1>1, <1>2 DEF WorldFits, Jaws
<1>4. WorldFits'
  <2>1. Apart(stack', gone', {})
    BY <1>1, <1>3, DropsApart
  <2> QED
    BY <1>1, <1>3, <2>1, WorldLetGo
<1>5. piled' \in BOOLEAN /\ known' \in BOOLEAN /\ (~piled' => ~piled) /\ (known' => known)
  BY <1>1, <1>2, DropsGhosts
<1>6. CountsFit'
  BY <1>1, <1>2, <1>5 DEF CountsFit
<1>7. ProgressFits'
  BY <1>1, <1>2, ProgressKept
<1>8. PlanFits'
  BY <1>1, <1>2 DEF PlanFits, K
<1>9. StepFits' /\ pc \notin {"descend", "verify"}
  BY <1>1, <1>2 DEF StepFits
<1>10. PlainFits'
  <2>1. CASE foreign' \/ piled'
    BY <2>1 DEF PlainFits
  <2>2. CASE ~foreign' /\ ~piled'
    <3>1. PlainStacks /\ PlainBuild
      BY <1>1, <1>2, <1>5, <2>2 DEF PlainFits
    <3>2. PlainStacks'
      BY <1>1, <1>2, <2>2, <3>1, PlainDrops
    <3>3. PlainBuild'
      BY <1>1, <1>9, <3>1 DEF PlainBuild
    <3> QED
      BY <3>2, <3>3 DEF PlainFits
  <2> QED
    BY <2>1, <2>2
<1>11. KnownFits'
  <2> SUFFICES ASSUME known', pc \in Moving PROVE KnownStacks' /\ KnownTool'
    BY <1>1 DEF KnownFits
  <2>1. KnownStacks /\ KnownTool
    BY <1>1, <1>2, <1>5 DEF KnownFits
  <2>2. pc \in InAir
    BY <1>1, <1>9, <2>1 DEF KnownTool, Moving, InAir
  <2>3. held = block /\ (at = block \/ at = plan.at)
    BY <1>1, <2>1, <2>2 DEF KnownTool, InAir
  <2>4. plan.at \in Blocks
    BY <1>2, <2>2, PlanNext DEF Moving, InAir
  <2>5. Elsewhere
    BY <2>1 DEF KnownStacks, Elsewhere
  <2>6. Elsewhere'
    BY <1>1, <1>2, <2>3, <2>4, <2>5, KnownDrops
  <2>7. KnownStacks'
    BY <1>1, <2>1, <2>2, <2>6 DEF KnownStacks, Elsewhere, InAir, K
  <2>8. KnownTool'
    BY <1>1, <2>1 DEF KnownTool
  <2> QED
    BY <2>7, <2>8
<1> QED
  BY <1>4, <1>6, <1>7, <1>8, <1>9, <1>10, <1>11 DEF IInv

LEMMA CollapsesFits == ASSUME IInv, Collapses PROVE IInv'
<1>1. PICK p \in Blocks : Len(stack[p]) > 1 /\ Topples(p, {})
  BY DEF Collapses
<1>2. /\ pc \notin Ended /\ pc # "done"
      /\ UNCHANGED <<held, at, pc, retries, progress, plan, block, grip, foreign>>
  BY DEF Collapses, Ended
<1>3. WorldFits /\ CountsFit /\ ProgressFits /\ PlainFits /\ PlanFits /\ KnownFits /\ StepFits
  BY DEF IInv
<1>4. WorldFits'
  <2>1. Apart(stack, gone, {} \cup Jaws) /\ {} \cap Jaws = {}
    BY <1>3 DEF WorldFits
  <2>2. Apart(stack', gone', Jaws)
    BY <1>1, <2>1, TopplesApart
  <2> QED
    BY <1>2, <1>3, <2>2 DEF WorldFits, Jaws
<1>5. piled' \in BOOLEAN /\ known' \in BOOLEAN /\ (~piled' => ~piled) /\ (known' => known)
  BY <1>1, TopplesGhosts
<1>6. CountsFit'
  BY <1>2, <1>3, <1>5 DEF CountsFit
<1>7. ProgressFits'
  BY <1>2, <1>3, ProgressKept
<1>8. PlanFits'
  BY <1>2, <1>3 DEF PlanFits, K
<1>9. StepFits'
  BY <1>2, <1>3 DEF StepFits
<1>10. PlainFits'
  <2>1. CASE foreign' \/ piled'
    BY <2>1 DEF PlainFits
  <2>2. CASE ~foreign' /\ ~piled'
    <3>1. PlainStacks /\ PlainBuild
      BY <1>2, <1>3, <1>5, <2>2 DEF PlainFits
    <3>2. {} \in SUBSET Blocks /\ Base \notin {}
      OBVIOUS
    <3>3. PlainStacks' /\ \E n \in 0 .. Len(Tower) : Tower' = SubSeq(Tower, 1, n)
      BY <1>1, <1>2, <1>3, <2>2, <3>1, <3>2, PlainTopples
    <3>4. PICK n \in 0 .. Len(Tower) : Tower' = SubSeq(Tower, 1, n)
      BY <3>3
    <3>5. /\ Tower \in Seq(Blocks) /\ Len(Tower) \in Nat
          /\ \A i, j \in 1 .. Len(Tower) : Tower[i] = Tower[j] => i = j
      <4>1. Tower \in Seq(Blocks) /\ Len(Tower) \in Nat
        BY <1>3, WorldTypes
      <4>2. \A i, j \in 1 .. Len(Tower) : Tower[i] = Tower[j] => i = j
        BY <1>3, WorldTypes, OrderFacts DEF Tower
      <4> QED
        BY <4>1, <4>2
    <3> DEFINE u == SubSeq(Tower, 1, n)
    <3>6. /\ u \in Seq(Blocks) /\ Len(u) = n
          /\ \A i \in 1 .. n : u[i] = Tower[i]
          /\ \A c : c \in Members(u) <=> \E i \in 1 .. n : Tower[i] = c
      BY <3>5, CutFacts
    <3>7. Tower' = u
      BY <3>4
    <3> HIDE DEF u
    <3>8. \A c : c \in Members(Tower') => c \in Members(Tower)
      <4> TAKE c
      <4> HAVE c \in Members(Tower')
      <4>1. PICK i \in 1 .. n : Tower[i] = c
        BY <3>6, <3>7
      <4>2. i \in 1 .. Len(Tower)
        BY <3>5
      <4> QED
        BY <3>5, <4>1, <4>2, MemberAt
    <3>9. ASSUME pc = "verify", block \in Members(Tower') PROVE Tower'[Len(Tower')] = block
      <4>1. PICK i \in 1 .. n : Tower[i] = block
        BY <3>6, <3>7, <3>9
      <4>2. Tower[Len(Tower)] = block
        BY <3>1, <3>8, <3>9 DEF PlainBuild
      <4>3. i \in 1 .. Len(Tower) /\ Len(Tower) \in 1 .. Len(Tower)
        BY <3>5
      <4>4. i = Len(Tower)
        BY <3>5, <4>1, <4>2, <4>3
      <4>5. n = i
        BY <3>5, <4>4
      <4> QED
        BY <3>6, <3>7, <4>1, <4>5
    <3>10. PlainBuild'
      BY <1>2, <3>1, <3>8, <3>9 DEF PlainBuild
    <3> QED
      BY <3>3, <3>10 DEF PlainFits
  <2> QED
    BY <2>1, <2>2
<1>11. KnownFits'
  <2> SUFFICES ASSUME known', pc \in Moving PROVE KnownStacks' /\ KnownTool'
    BY <1>2 DEF KnownFits
  <2>1. KnownStacks /\ KnownTool
    BY <1>2, <1>3, <1>5 DEF KnownFits
  <2>2. p = plan.at
    <3>1. SUFFICES ASSUME p # plan.at PROVE FALSE
      OBVIOUS
    <3>2. stack[p] = << >> \/ stack[p] = <<p>>
      BY <2>1, <3>1 DEF KnownStacks
    <3>3. Len(stack[p]) \in 0 .. 1
      BY <3>2, LengthOne
    <3>4. PICK m \in 0 .. 1 : m = Len(stack[p])
      BY <3>3
    <3>5. m > 1
      BY <1>1, <3>4
    <3> QED
      BY ONLY <3>5, m \in 0 .. 1
  <2>3. Elsewhere
    BY <2>1 DEF KnownStacks, Elsewhere
  <2>4. {} \in SUBSET Blocks
    OBVIOUS
  <2>5. Elsewhere' /\ \E n \in 1 .. Len(Site) : Site' = SubSeq(Site, 1, n)
    BY <1>1, <1>2, <1>3, <2>2, <2>3, <2>4, KnownTopples
  <2>6. PICK n \in 1 .. Len(Site) : Site' = SubSeq(Site, 1, n)
    BY <2>5
  <2>7. Site \in Seq(Blocks) /\ Len(Site) \in Nat /\ n \in 0 .. Len(Site) /\ n <= Len(Site)
    BY <1>3, <2>2, WorldTypes DEF Site
  <2>8. Len(Site') = n /\ \A i \in 1 .. n : Site'[i] = Site[i]
    <3> DEFINE u == SubSeq(Site, 1, n)
    <3>1. Len(u) = n /\ \A i \in 1 .. n : u[i] = Site[i]
      BY <2>7, CutFacts
    <3>2. Site' = u
      BY <2>6
    <3> HIDE DEF u
    <3> QED
      BY <3>1, <3>2
  <2>9. K' = K /\ K \in Nat
    <3>1. K \in Nat
      BY <1>3, OrderFacts DEF PlanFits
    <3> QED
      BY <1>2, <3>1 DEF K
  <2>10. ASSUME pc \in {"tier", "descend"} \/ (pc \in InAir /\ held # None)
         PROVE  Len(Site') <= K /\ \A i \in 1 .. Len(Site') : Site'[i] = Order[i]
    <3>1. Len(Site) <= K /\ \A i \in 1 .. Len(Site) : Site[i] = Order[i]
      BY <2>1, <2>10 DEF KnownStacks
    <3> QED
      BY <2>7, <2>8, <2>9, <3>1
  <2>11. ASSUME pc = "verify"
         PROVE  /\ Len(Site') <= K + 1
                /\ \A i \in 1 .. Len(Site') :
                      Site'[i] = Order[i] \/ (i = Len(Site') /\ Site'[i] = block)
    <3>1. /\ Len(Site) <= K + 1
          /\ \A i \in 1 .. Len(Site) :
                Site[i] = Order[i] \/ (i = Len(Site) /\ Site[i] = block)
      BY <2>1, <2>11 DEF KnownStacks
    <3>2. Len(Site') <= K + 1
      BY <2>7, <2>8, <2>9, <3>1
    <3>3. ASSUME NEW i \in 1 .. n
          PROVE  Site'[i] = Order[i] \/ (i = n /\ Site'[i] = block)
      <4>1. i \in 1 .. Len(Site) /\ Site'[i] = Site[i]
        BY <2>7, <2>8
      <4>2. i = Len(Site) => i = n
        BY <2>7
      <4> QED
        BY <3>1, <4>1, <4>2
    <3> QED
      BY <2>8, <3>2, <3>3
  <2>12. KnownStacks'
    BY <1>2, <2>1, <2>5, <2>9, <2>10, <2>11 DEF KnownStacks, Elsewhere
  <2>13. KnownTool'
    BY <1>2, <2>1 DEF KnownTool
  <2> QED
    BY <2>12, <2>13
<1> QED
  BY <1>4, <1>6, <1>7, <1>8, <1>9, <1>10, <1>11 DEF IInv

LEMMA MeasureFits == ASSUME IInv, Measure PROVE IInv'
<1>1. /\ pc = "lift" /\ pc # "done" /\ held = block
      /\ pc' \in {"carry", "setdown", "unstable"}
      /\ pc' = "setdown" => grip < Grips
      /\ UNCHANGED <<stack, gone, held, at, retries, progress, plan, block, grip,
                     known, foreign, piled>>
  BY DEF Measure, Holding, GoTo, world, ghosts
<1>2. WorldFits /\ CountsFit /\ ProgressFits /\ PlainFits /\ PlanFits /\ KnownFits /\ StepFits
  BY DEF IInv
<1>3. CountsFit'
  BY <1>1, <1>2 DEF CountsFit, Moving
<1>4. CASE pc' = "unstable"
  <2>1. pc' \in AtRest
    BY <1>4 DEF AtRest
  <2> QED
    BY <1>1, <1>3, <2>1, LeavesCalmly
<1>5. CASE pc' \in {"carry", "setdown"}
  <2>1. at \in Blocks
    BY <1>1, <1>2 DEF StepFits, InAir
  <2>2. WorldFits'
    BY <1>1, <1>2, <2>1, WorldKept
  <2>3. ProgressFits'
    BY <1>1, <1>2, ProgressKept
  <2>4. PlanFits'
    BY <1>1, <1>2, <1>5 DEF PlanFits, K, Moving
  <2>5. StepFits'
    BY <1>1, <1>5, <2>1, ToAir DEF InAir
  <2>6. PlainFits'
    <3>1. CASE foreign \/ piled
      BY <1>1, <3>1 DEF PlainFits
    <3>2. CASE ~foreign /\ ~piled
      <4>1. PlainStacks /\ PlainBuild
        BY <1>1, <1>2, <3>2 DEF PlainFits
      <4>2. PlainStacks'
        BY <1>1, <4>1 DEF PlainStacks, Tower, Remembered
      <4>3. PlainBuild'
        BY <1>1, <1>5, <4>1 DEF PlainBuild, Moving
      <4> QED
        BY <4>2, <4>3 DEF PlainFits
    <3> QED
      BY <3>1, <3>2
  <2>7. block # None
    BY <1>1, <1>2, PlanNext DEF Moving
  <2>8. KnownFits'
    <3> SUFFICES ASSUME known' PROVE KnownStacks' /\ KnownTool'
      BY DEF KnownFits
    <3>1. KnownStacks /\ KnownTool
      BY <1>1, <1>2 DEF KnownFits, Moving
    <3>2. KnownStacks'
      BY <1>1, <1>5, <2>7, <3>1 DEF KnownStacks, Site, K, InAir
    <3>3. KnownTool'
      BY <1>1, <1>5, <3>1 DEF KnownTool
    <3> QED
      BY <3>2, <3>3
  <2> QED
    BY <1>3, <2>2, <2>3, <2>4, <2>5, <2>6, <2>8 DEF IInv
<1> QED
  BY <1>1, <1>4, <1>5

LEMMA SetDownFits == ASSUME IInv, SetDown PROVE IInv'
<1>1. /\ pc = "setdown" /\ pc' = "descend" /\ held = block /\ Lands(block, at)
      /\ held' = None /\ grip' = grip + 1
      /\ UNCHANGED <<at, retries, progress, plan, block, foreign>>
  BY DEF SetDown, Holding, GoTo
<1>2. WorldFits /\ CountsFit /\ ProgressFits /\ PlainFits /\ PlanFits /\ KnownFits /\ StepFits
  BY DEF IInv
<1>3. /\ plan.at \in Blocks /\ block \in Blocks /\ block # None
      /\ \A i \in 1 .. K : Order[i] # block
  BY <1>1, <1>2, PlanNext DEF Moving
<1>4. at \in Blocks /\ at # None
  BY <1>1, <1>2, StackerAssumption DEF StepFits, InAir
<1>5. UNCHANGED <<gone, known, piled>> /\ Drops(held, at)
  BY <1>1, <1>4 DEF Lands, Drops
<1>6. WorldFits'
  <2>1. Apart(stack, gone, {block} \cup {}) /\ block \notin {}
    BY <1>1, <1>2, <1>3 DEF WorldFits, Jaws
  <2>2. Apart(stack', gone', {})
    BY <1>1, <1>3, <1>4, <2>1, LandsApart
  <2> QED
    BY <1>1, <1>4, <2>2, WorldLetGo
<1>7. CountsFit'
  <2>1. grip + 1 \in 0 .. Grips
    BY <1>1, <1>2, StackerAssumption DEF CountsFit
  <2> QED
    BY <1>1, <1>2, <1>5, <2>1 DEF CountsFit, Moving
<1>8. ProgressFits'
  BY <1>1, <1>2, ProgressKept
<1>9. PlanFits'
  BY <1>1, <1>2 DEF PlanFits, K, Moving
<1>10. StepFits'
  BY <1>1, <1>4 DEF StepFits
<1>11. PlainFits'
  <2>1. CASE foreign' \/ piled'
    BY <2>1 DEF PlainFits
  <2>2. CASE ~foreign' /\ ~piled'
    <3>1. PlainStacks /\ PlainBuild
      BY <1>1, <1>2, <1>5, <2>2 DEF PlainFits
    <3>2. PlainStacks'
      BY <1>1, <1>2, <1>3, <1>5, <2>2, <3>1, PlainDrops
    <3>3. at = block \/ at = Base
      BY <1>1, <1>3, <3>1 DEF PlainStacks
    <3>4. PlainBuild'
      BY <1>1, <3>1, <3>3 DEF PlainBuild, Moving
    <3> QED
      BY <3>2, <3>4 DEF PlainFits
  <2> QED
    BY <2>1, <2>2
<1>12. KnownFits'
  <2> SUFFICES ASSUME known' PROVE KnownStacks' /\ KnownTool'
    BY DEF KnownFits
  <2>1. KnownStacks /\ KnownTool
    BY <1>1, <1>2, <1>5 DEF KnownFits, Moving
  <2>2. at = block /\ block # plan.at
    <3>1. at = block
      BY <1>1, <2>1 DEF KnownTool
    <3>2. PICK i \in 1 .. K : plan.at = Order[i]
      BY <2>1 DEF KnownStacks
    <3> QED
      BY <1>3, <3>1, <3>2
  <2>3. Elsewhere
    BY <2>1 DEF KnownStacks, Elsewhere
  <2>4. Elsewhere'
    BY <1>1, <1>2, <1>3, <1>5, <2>2, <2>3, KnownDrops
  <2>5. Site' = Site
    <3>1. stack \in [Blocks -> Seq(Blocks)] /\ stack' = [stack EXCEPT ![at] = Append(stack[at], block)]
      BY <1>1, <1>2, WorldTypes DEF Lands
    <3> QED
      BY <1>1, <1>3, <2>2, <3>1 DEF Site
  <2>6. KnownStacks'
    BY <1>1, <1>3, <2>1, <2>4, <2>5 DEF KnownStacks, Elsewhere, InAir, K
  <2>7. KnownTool'
    BY <1>1, <2>2 DEF KnownTool
  <2> QED
    BY <2>6, <2>7
<1> QED
  BY <1>6, <1>7, <1>8, <1>9, <1>10, <1>11, <1>12 DEF IInv

LEMMA CarryFits == ASSUME IInv, Carry PROVE IInv'
<1>1. /\ pc = "carry" /\ pc' = "lower" /\ held = block /\ at' = plan.at
      /\ UNCHANGED <<stack, gone, held, retries, progress, plan, block, grip,
                     known, foreign, piled>>
  BY DEF Carry, Holding, GoTo, Over, ghosts
<1>2. WorldFits /\ CountsFit /\ ProgressFits /\ PlainFits /\ PlanFits /\ KnownFits /\ StepFits
  BY DEF IInv
<1>3. plan.at \in Blocks /\ block # None
  BY <1>1, <1>2, PlanNext DEF Moving
<1>4. WorldFits'
  BY <1>1, <1>2, <1>3, WorldKept
<1>5. CountsFit'
  BY <1>1, <1>2 DEF CountsFit, Moving
<1>6. ProgressFits'
  BY <1>1, <1>2, ProgressKept
<1>7. PlanFits'
  BY <1>1, <1>2 DEF PlanFits, K, Moving
<1>8. StepFits'
  BY <1>1, <1>3, ToAir DEF InAir
<1>9. PlainFits'
  <2>1. CASE foreign \/ piled
    BY <1>1, <2>1 DEF PlainFits
  <2>2. CASE ~foreign /\ ~piled
    <3>1. PlainStacks /\ PlainBuild
      BY <1>1, <1>2, <2>2 DEF PlainFits
    <3>2. plan.at = Base
      BY <1>1, <3>1 DEF PlainBuild, Moving
    <3>3. PlainStacks'
      BY <1>1, <3>1, <3>2 DEF PlainStacks, Tower, Remembered
    <3>4. PlainBuild'
      BY <1>1, <3>1, <3>2 DEF PlainBuild, Moving
    <3> QED
      BY <3>3, <3>4 DEF PlainFits
  <2> QED
    BY <2>1, <2>2
<1>10. KnownFits'
  <2> SUFFICES ASSUME known' PROVE KnownStacks' /\ KnownTool'
    BY DEF KnownFits
  <2>1. KnownStacks /\ KnownTool
    BY <1>1, <1>2 DEF KnownFits, Moving
  <2>2. KnownStacks'
    BY <1>1, <1>3, <2>1 DEF KnownStacks, Site, K, InAir
  <2>3. KnownTool'
    BY <1>1, <2>1 DEF KnownTool
  <2> QED
    BY <2>2, <2>3
<1> QED
  BY <1>4, <1>5, <1>6, <1>7, <1>8, <1>9, <1>10 DEF IInv

LEMMA ReleaseFits == ASSUME IInv, Release PROVE IInv'
<1>1. /\ pc = "lower" /\ pc' = "verify" /\ held = block /\ held' = None
      /\ Lands(block, at) \/ Topples(at, {block})
      /\ UNCHANGED <<at, retries, progress, plan, block, grip, foreign>>
  BY DEF Release, Holding, GoTo
<1>2. WorldFits /\ CountsFit /\ ProgressFits /\ PlainFits /\ PlanFits /\ KnownFits /\ StepFits
  BY DEF IInv
<1>3. /\ plan.at \in Blocks /\ block \in Blocks /\ block # None
      /\ K \in Nat /\ K \in 1 .. N /\ \A i \in 1 .. K : Order[i] # block
  BY <1>1, <1>2, PlanNext DEF Moving
<1>4. at \in Blocks /\ at # None
  BY <1>1, <1>2, StackerAssumption DEF StepFits, InAir
<1>5. Apart(stack, gone, {block} \cup {}) /\ block \notin {} /\ {block} \cap {} = {}
  BY <1>1, <1>2, <1>3 DEF WorldFits, Jaws
<1>6. WorldFits'
  <2>1. Apart(stack', gone', {})
    BY <1>1, <1>3, <1>4, <1>5, LandsApart, TopplesApart
  <2> QED
    BY <1>1, <1>4, <2>1, WorldLetGo
<1>7. piled' \in BOOLEAN /\ known' \in BOOLEAN /\ (~piled' => ~piled) /\ (known' => known)
  <2>1. CASE Lands(block, at)
    BY <1>2, <2>1 DEF Lands, CountsFit
  <2>2. CASE Topples(at, {block})
    BY <2>2, TopplesGhosts
  <2> QED
    BY <1>1, <2>1, <2>2
<1>8. CountsFit'
  BY <1>1, <1>2, <1>7 DEF CountsFit, Moving
<1>9. ProgressFits'
  BY <1>1, <1>2, ProgressKept
<1>10. PlanFits'
  BY <1>1, <1>2 DEF PlanFits, K, Moving
<1>11. StepFits'
  BY <1>1, <1>4 DEF StepFits
<1>12. ASSUME Lands(block, at) PROVE stack'[at] = Append(stack[at], block)
  <2>1. stack \in [Blocks -> Seq(Blocks)]
    BY <1>2, WorldTypes
  <2>2. stack' = [stack EXCEPT ![at] = Append(stack[at], block)]
    BY <1>12 DEF Lands
  <2> QED
    BY <1>4, <2>1, <2>2
<1>13. Lands(block, at) => Drops(held, at)
  BY <1>1, <1>4 DEF Drops
<1>14. {block} \in SUBSET Blocks
  BY <1>3
<1>15. PlainFits'
  <2>1. CASE foreign' \/ piled'
    BY <2>1 DEF PlainFits
  <2>2. CASE ~foreign' /\ ~piled'
    <3>1. PlainStacks /\ PlainBuild
      BY <1>1, <1>2, <1>7, <2>2 DEF PlainFits
    <3>2. at = Base /\ Base \in Blocks /\ Tower \in Seq(Blocks) /\ Len(Tower) \in Nat
      BY <1>1, <1>2, <3>1, OrderFacts, WorldTypes DEF PlainBuild
    <3>3. Base # block /\ block \notin Members(Tower)
      <4>1. 1 \in 1 .. K
        BY <1>3
      <4> QED
        BY <1>1, <1>2, <1>3, <3>2, <4>1, WorldTypes DEF Base, Tower
    <3>4. PlainStacks' /\ (block \in Members(Tower') => Tower'[Len(Tower')] = block)
      <4>1. CASE Lands(block, at)
        <5>1. PlainStacks'
          BY <1>1, <1>2, <1>3, <1>13, <2>2, <3>1, <4>1, PlainDrops
        <5>2. Tower' = Append(Tower, block)
          BY <1>12, <3>2, <4>1 DEF Tower
        <5>3. Tower'[Len(Tower')] = block
          <6> DEFINE u == Append(Tower, block)
          <6>1. Len(u) = Len(Tower) + 1 /\ u[Len(Tower) + 1] = block
            BY <1>3, <3>2, AppendFacts
          <6>2. Tower' = u
            BY <5>2
          <6> HIDE DEF u
          <6> QED
            BY <6>1, <6>2
        <5> QED
          BY <5>1, <5>3
      <4>2. CASE Topples(at, {block})
        <5>1. PlainStacks' /\ \E n \in 0 .. Len(Tower) : Tower' = SubSeq(Tower, 1, n)
          BY <1>1, <1>2, <1>4, <1>14, <2>2, <3>1, <3>3, <4>2, PlainTopples
        <5>2. PICK n \in 0 .. Len(Tower) : Tower' = SubSeq(Tower, 1, n)
          BY <5>1
        <5>3. block \notin Members(Tower')
          <6> DEFINE u == SubSeq(Tower, 1, n)
          <6>1. block \in Members(u) <=> \E i \in 1 .. n : Tower[i] = block
            BY <3>2, CutFacts
          <6>2. \A i \in 1 .. n : i \in 1 .. Len(Tower)
            BY <3>2
          <6>3. \A i \in 1 .. Len(Tower) : Tower[i] # block
            BY <3>2, <3>3, MemberAt
          <6>4. Tower' = u
            BY <5>2
          <6> HIDE DEF u
          <6> QED
            BY <6>1, <6>2, <6>3, <6>4
        <5> QED
          BY <5>1, <5>3
      <4> QED
        BY <1>1, <4>1, <4>2
    <3>5. PlainBuild'
      BY <1>1, <3>1, <3>4 DEF PlainBuild, Moving
    <3> QED
      BY <3>4, <3>5 DEF PlainFits
  <2> QED
    BY <2>1, <2>2
<1>16. KnownFits'
  <2> SUFFICES ASSUME known' PROVE KnownStacks' /\ KnownTool'
    BY DEF KnownFits
  <2>1. KnownStacks /\ KnownTool
    BY <1>1, <1>2, <1>7 DEF KnownFits, Moving
  <2>2. at = plan.at
    BY <1>1, <2>1 DEF KnownTool
  <2>3. Elsewhere
    BY <2>1 DEF KnownStacks, Elsewhere
  <2>4. /\ Len(Site) <= K /\ \A i \in 1 .. Len(Site) : Site[i] = Order[i]
        /\ Site \in Seq(Blocks) /\ Len(Site) \in Nat
    <3>1. Site \in Seq(Blocks) /\ Len(Site) \in Nat
      BY <1>2, <1>3, WorldTypes DEF Site
    <3> QED
      BY <1>1, <1>3, <2>1, <3>1 DEF KnownStacks, InAir
  <2>5. /\ Elsewhere' /\ Len(Site') <= K + 1
        /\ \A i \in 1 .. Len(Site') :
              Site'[i] = Order[i] \/ (i = Len(Site') /\ Site'[i] = block)
    <3>1. CASE Lands(block, at)
      <4>1. Elsewhere'
        BY <1>1, <1>2, <1>3, <1>13, <2>2, <2>3, <3>1, KnownDrops
      <4>2. Site' = Append(Site, block)
        BY <1>1, <1>3, <1>12, <2>2, <3>1 DEF Site
      <4> DEFINE u == Append(Site, block)
      <4>3. /\ Len(u) = Len(Site) + 1 /\ u[Len(Site) + 1] = block
            /\ \A i \in 1 .. Len(Site) : u[i] = Site[i]
        BY <1>3, <2>4, AppendFacts
      <4>4. Site' = u
        BY <4>2
      <4> HIDE DEF u
      <4>5. Len(u) <= K + 1
        BY <1>3, <2>4, <4>3
      <4>6. ASSUME NEW i \in 1 .. Len(u)
            PROVE  u[i] = Order[i] \/ (i = Len(u) /\ u[i] = block)
        <5>1. i \in 1 .. Len(Site) \/ i = Len(Site) + 1
          BY <2>4, <4>3
        <5> QED
          BY <2>4, <4>3, <5>1
      <4> QED
        BY <4>1, <4>4, <4>5, <4>6
    <3>2. CASE Topples(at, {block})
      <4>1. Elsewhere' /\ \E n \in 1 .. Len(Site) : Site' = SubSeq(Site, 1, n)
        BY <1>1, <1>2, <1>3, <1>14, <2>2, <2>3, <3>2, KnownTopples
      <4>2. PICK n \in 1 .. Len(Site) : Site' = SubSeq(Site, 1, n)
        BY <4>1
      <4>3. n \in 0 .. Len(Site) /\ n <= Len(Site) /\ n \in Nat
        BY <2>4
      <4> DEFINE u == SubSeq(Site, 1, n)
      <4>4. Len(u) = n /\ \A i \in 1 .. n : u[i] = Site[i]
        BY <2>4, <4>3, CutFacts
      <4>5. Site' = u
        BY <4>2
      <4> HIDE DEF u
      <4>6. Len(u) <= K + 1 /\ \A i \in 1 .. n : u[i] = Order[i]
        BY <1>3, <2>4, <4>3, <4>4
      <4> QED
        BY <4>1, <4>4, <4>5, <4>6
    <3> QED
      BY <1>1, <3>1, <3>2
  <2>6. KnownStacks'
    BY <1>1, <2>1, <2>5 DEF KnownStacks, Elsewhere, InAir, K
  <2>7. KnownTool'
    BY <1>1 DEF KnownTool, InAir
  <2> QED
    BY <2>6, <2>7
<1> QED
  BY <1>6, <1>8, <1>9, <1>10, <1>11, <1>15, <1>16 DEF IInv

LEMMA TierNotVerifiedFits == ASSUME IInv, TierNotVerified PROVE IInv'
<1>1. /\ pc = "verify" /\ pc # "done" /\ at' = None /\ pc' = "unstable"
      /\ UNCHANGED <<stack, gone, held, retries, progress, plan, block, grip,
                     known, foreign, piled>>
  BY DEF TierNotVerified, Clear, GoTo, ghosts
<1>2. held = None
  BY <1>1 DEF IInv, StepFits
<1>3. CountsFit'
  BY <1>1 DEF IInv, CountsFit
<1>4. pc' \in AtRest
  BY <1>1 DEF AtRest
<1> QED
  BY <1>1, <1>2, <1>3, <1>4, LeavesCalmly

LEMMA AllPlacedFits == ASSUME IInv, AllPlaced PROVE IInv'
<1>1. /\ pc = "tier" /\ pc' = "park"
      /\ UNCHANGED <<stack, gone, held, at, retries, progress, plan, block, grip,
                     known, foreign, piled>>
  BY DEF AllPlaced, GoTo, world, ghosts
<1>2. WorldFits /\ CountsFit /\ ProgressFits /\ PlainFits /\ PlanFits /\ KnownFits
  BY DEF IInv
<1>3. WorldFits'
  <2>1. at \in Blocks \cup {None}
    BY <1>2 DEF WorldFits
  <2> QED
    BY <1>1, <1>2, <2>1, WorldKept
<1>4. CountsFit'
  BY <1>1, <1>2 DEF CountsFit, Moving
<1>5. ProgressFits'
  BY <1>1, <1>2, ProgressKept
<1>6. PlanFits'
  BY <1>1, <1>2 DEF PlanFits, K, Moving
<1>7. StepFits'
  BY <1>1 DEF StepFits, InAir
<1>8. PlainFits'
  <2>1. CASE foreign \/ piled
    BY <1>1, <2>1 DEF PlainFits
  <2>2. CASE ~foreign /\ ~piled
    <3>1. PlainStacks /\ PlainBuild
      BY <1>1, <1>2, <2>2 DEF PlainFits
    <3>2. PlainStacks'
      BY <1>1, <3>1 DEF PlainStacks, Tower, Remembered
    <3>3. PlainBuild'
      BY <1>1, <3>1 DEF PlainBuild, Moving
    <3> QED
      BY <3>2, <3>3 DEF PlainFits
  <2> QED
    BY <2>1, <2>2
<1>9. KnownFits'
  <2> SUFFICES ASSUME known' PROVE KnownStacks' /\ KnownTool'
    BY DEF KnownFits
  <2>1. KnownStacks /\ KnownTool
    BY <1>1, <1>2 DEF KnownFits, Moving
  <2>2. KnownStacks'
    BY <1>1, <2>1 DEF KnownStacks, Site, K, InAir
  <2>3. KnownTool'
    BY <1>1, <2>1 DEF KnownTool, InAir
  <2> QED
    BY <2>2, <2>3
<1> QED
  BY <1>3, <1>4, <1>5, <1>6, <1>7, <1>8, <1>9 DEF IInv

LEMMA ParkFits == ASSUME IInv, Park PROVE IInv'
<1>1. /\ pc = "park" /\ at' = None /\ pc' = "done"
      /\ UNCHANGED <<stack, gone, held, retries, progress, plan, block, grip,
                     known, foreign, piled>>
  BY DEF Park, Clear, GoTo, ghosts
<1>2. WorldFits /\ CountsFit /\ ProgressFits
  BY DEF IInv
<1>3. WorldFits'
  BY <1>1, <1>2, WorldKept
<1>4. CountsFit'
  BY <1>1, <1>2 DEF CountsFit, Ended
<1>5. ProgressFits'
  BY <1>1, <1>2, ProgressKept
<1>6. PlanFits' /\ StepFits' /\ KnownFits'
  <2>1. pc' \in AtRest
    BY <1>1 DEF AtRest, Ended
  <2> QED
    BY <2>1, OutOfBuild
<1>7. PlainFits'
  BY <1>1 DEF PlainFits
<1> QED
  BY <1>3, <1>4, <1>5, <1>6, <1>7 DEF IInv

-----------------------------------------------------------------------------
(* A tier that looks right is right.                                        *)

LEMMA TierFacts ==
    ASSUME IInv, TierVerified
    PROVE  /\ pc = "verify" /\ pc' = "tier" /\ held = None /\ at' = None
           /\ UNCHANGED <<stack, gone, held, retries, block, grip, known, foreign, piled>>
           /\ K \in 1 .. N /\ K \in Nat /\ N \in Nat /\ K + 1 \in 1 .. N /\ Remembered = K
           /\ plan.at \in Blocks /\ block \in Blocks /\ block = Order[K + 1]
           /\ \A i \in 1 .. K : Order[i] # block
           /\ plan'.placed = First(K + 1) /\ plan'.at = plan.at /\ plan'.surface = K + 1
           /\ plan' \in [placed : Seq(Blocks), at : Blocks, surface : Nat]
           /\ progress' = [placed |-> First(K + 1), at |-> plan.at]
           /\ \E p \in Blocks : \E i \in 1 .. Len(stack[p]) :
                 /\ stack[p][i] = block /\ K + 1 <= i
                 /\ i = Len(stack[p]) => i = K + 1
           /\ Covered(Order[K]) /\ Order[K] \in Blocks
<1>1. /\ pc = "verify" /\ pc' = "tier" /\ block \notin gone /\ at' = None
      /\ progress' = [placed |-> Append(plan.placed, block), at |-> plan.at]
      /\ UNCHANGED <<stack, gone, held, retries, block, grip, known, foreign, piled>>
  BY DEF TierVerified, GoTo, Clear, ghosts
<1>2. PICK h \in Heights(block) :
          /\ InPlace(h)
          /\ plan' = [plan EXCEPT !.placed = Append(plan.placed, block), !.surface = h]
  BY DEF TierVerified
<1>3. WorldFits /\ PlanFits
  BY DEF IInv
<1>4. /\ K \in 1 .. N /\ K \in Nat /\ K < N /\ N \in Nat /\ K + 1 \in 1 .. N
      /\ plan \in [placed : Seq(Blocks), at : Blocks, surface : Nat]
      /\ plan.at \in Blocks /\ plan.placed = First(K)
      /\ block = Order[K + 1] /\ block \in Blocks /\ block # None
      /\ \A i \in 1 .. K : Order[i] # block
      /\ Remembered = K
  BY <1>1, <1>3, PlanNext DEF Moving
<1>5. held = None /\ block # held
  BY <1>1, <1>4 DEF IInv, StepFits
<1>6. h = K + 1 /\ \A b \in Members(First(K)) : Covered(b)
  BY <1>2, <1>4 DEF InPlace, K
<1>7. Append(plan.placed, block) = First(K + 1)
  <2>1. K \in 0 .. N - 1
    BY <1>4
  <2> QED
    BY <1>4, <2>1, FirstGrows
<1>8. First(K + 1) \in Seq(Blocks)
  <2>1. K + 1 \in 0 .. N
    BY <1>4
  <2> QED
    BY <2>1, FirstFacts
<1>9. /\ plan'.placed = First(K + 1) /\ plan'.at = plan.at /\ plan'.surface = K + 1
      /\ plan' \in [placed : Seq(Blocks), at : Blocks, surface : Nat]
  <2>1. plan' = [plan EXCEPT !.placed = First(K + 1), !.surface = K + 1]
    BY <1>2, <1>6, <1>7
  <2>2. K + 1 \in Nat
    BY <1>4
  <2> QED
    BY <1>4, <1>8, <2>1, <2>2
<1>10. \E p \in Blocks : \E i \in 1 .. Len(stack[p]) :
                 /\ stack[p][i] = block /\ K + 1 <= i
                 /\ i = Len(stack[p]) => i = K + 1
  <2>1. PICK p \in Blocks : \E i \in 1 .. Len(stack[p]) : stack[p][i] = block /\ h <= i
    BY <1>1, <1>3, <1>4, <1>5, SeenHigh
  <2>2. PICK i \in 1 .. Len(stack[p]) : stack[p][i] = block /\ h <= i
    BY <2>1
  <2>3. Heights(block) = IF i = Len(stack[p]) THEN {i} ELSE 1 .. i
    BY <1>3, <1>4, <2>2, SeenAt
  <2>4. i = Len(stack[p]) => i = K + 1
    BY <1>6, <2>3
  <2> QED
    BY <1>6, <2>2, <2>4
<1>11. Covered(Order[K]) /\ Order[K] \in Blocks
  <2>1. K \in 0 .. N /\ K \in 1 .. K
    BY <1>4
  <2>2. First(K) \in Seq(Blocks) /\ Len(First(K)) = K /\ First(K)[K] = Order[K]
    BY <2>1, FirstFacts
  <2>3. Order[K] \in Members(First(K))
    BY <2>1, <2>2, MemberAt
  <2> QED
    BY <1>4, <1>6, <2>3, OrderFacts
<1>12. progress' = [placed |-> First(K + 1), at |-> plan.at]
  BY <1>1, <1>7
<1> QED
  BY <1>1, <1>4, <1>5, <1>9, <1>10, <1>11, <1>12

LEMMA TierStands ==
    ASSUME IInv, TierVerified, ~foreign, ~piled
    PROVE  Stands(Tower, K + 1) /\ Len(Tower) = K + 1
<1>1. /\ pc = "verify" /\ held = None
      /\ K \in 1 .. N /\ K \in Nat /\ N \in Nat /\ K + 1 \in 1 .. N /\ Remembered = K
      /\ block \in Blocks /\ block = Order[K + 1]
      /\ \E p \in Blocks : \E i \in 1 .. Len(stack[p]) :
            /\ stack[p][i] = block /\ K + 1 <= i
            /\ i = Len(stack[p]) => i = K + 1
      /\ Covered(Order[K]) /\ Order[K] \in Blocks
  BY TierFacts
<1>2. WorldFits /\ PlainStacks /\ PlainBuild
  BY <1>1 DEF IInv, PlainFits
<1>3. Tower \in Seq(Blocks) /\ Len(Tower) \in Nat /\ Base \in Blocks
      /\ \A i, j \in 1 .. Len(Tower) : Tower[i] = Tower[j] => i = j
  <2>1. Tower \in Seq(Blocks) /\ Len(Tower) \in Nat /\ Base \in Blocks
    BY <1>2, WorldTypes, OrderFacts
  <2>2. \A i, j \in 1 .. Len(Tower) : Tower[i] = Tower[j] => i = j
    BY <1>2, <2>1, WorldTypes DEF Tower
  <2> QED
    BY <2>1, <2>2
<1>4. ASSUME NEW p \in Blocks, NEW i \in 1 .. Len(stack[p]), i # Len(stack[p]) \/ i >= 2
      PROVE  p = Base
  <2>1. SUFFICES ASSUME p # Base PROVE FALSE
    OBVIOUS
  <2>2. stack[p] = << >> \/ stack[p] = <<p>>
    BY <1>2, <2>1 DEF PlainStacks
  <2>3. PICK m \in 0 .. 1 : m = Len(stack[p])
    BY <2>2, LengthOne
  <2>4. i \in 1 .. m /\ (i # m \/ i >= 2)
    BY <1>4, <2>3
  <2> QED
    BY ONLY <2>4, m \in 0 .. 1
<1>5. PICK p \in Blocks : \E i \in 1 .. Len(stack[p]) :
            /\ stack[p][i] = block /\ K + 1 <= i
            /\ i = Len(stack[p]) => i = K + 1
  BY <1>1
<1>6. PICK i \in 1 .. Len(stack[p]) :
            /\ stack[p][i] = block /\ K + 1 <= i
            /\ i = Len(stack[p]) => i = K + 1
  BY <1>5
<1>7. p = Base
  <2>1. i >= 2
    BY <1>1, <1>6
  <2> QED
    BY <1>4, <2>1
<1>8. i \in 1 .. Len(Tower) /\ Tower[i] = block
  BY <1>6, <1>7 DEF Tower
<1>9. Tower[Len(Tower)] = block
  <2>1. block \in Members(Tower)
    BY <1>3, <1>8, MemberAt
  <2> QED
    BY <1>1, <1>2, <2>1 DEF PlainBuild
<1>10. i = Len(Tower) /\ i = K + 1
  <2>1. Len(Tower) \in 1 .. Len(Tower)
    BY <1>3, <1>8
  <2>2. i = Len(Tower)
    BY <1>3, <1>8, <1>9, <2>1
  <2> QED
    BY <1>6, <1>7, <2>2 DEF Tower
<1>11. Stands(Tower, K)
  <2>1. PICK q \in Blocks : \E j \in 1 .. Len(stack[q]) :
              stack[q][j] = Order[K] /\ j < Len(stack[q])
    BY <1>1, <1>2, CoveredAt
  <2>2. PICK j \in 1 .. Len(stack[q]) : stack[q][j] = Order[K] /\ j < Len(stack[q])
    BY <2>1
  <2>3. Len(stack[q]) \in Nat
    BY <1>2, WorldTypes
  <2>4. q = Base
    BY <1>4, <2>2, <2>3
  <2>5. Order[K] \in Members(Tower)
    BY <1>3, <2>2, <2>4, MemberAt DEF Tower
  <2>6. K \in 1 .. K
    BY <1>1
  <2> QED
    BY <1>1, <1>2, <2>5, <2>6 DEF PlainStacks, Kept
<1>12. ASSUME NEW j \in 1 .. K + 1 PROVE Tower[j] = Order[j]
  <2>1. j \in 1 .. K \/ j = K + 1
    BY <1>1
  <2> QED
    BY <1>1, <1>9, <1>10, <1>11, <2>1 DEF Stands
<1> QED
  BY <1>1, <1>10, <1>12 DEF Stands

LEMMA TierVerifiedFits == ASSUME IInv, TierVerified PROVE IInv'
<1>1. /\ pc = "verify" /\ pc' = "tier" /\ held = None /\ at' = None
      /\ UNCHANGED <<stack, gone, held, retries, block, grip, known, foreign, piled>>
      /\ K \in 1 .. N /\ K \in Nat /\ N \in Nat /\ K + 1 \in 1 .. N /\ Remembered = K
      /\ plan.at \in Blocks /\ block \in Blocks /\ block = Order[K + 1]
      /\ \A i \in 1 .. K : Order[i] # block
      /\ plan'.placed = First(K + 1) /\ plan'.at = plan.at /\ plan'.surface = K + 1
      /\ plan' \in [placed : Seq(Blocks), at : Blocks, surface : Nat]
      /\ progress' = [placed |-> First(K + 1), at |-> plan.at]
      /\ \E p \in Blocks : \E i \in 1 .. Len(stack[p]) :
            /\ stack[p][i] = block /\ K + 1 <= i
            /\ i = Len(stack[p]) => i = K + 1
  BY TierFacts
<1>2. WorldFits /\ CountsFit /\ PlainFits /\ KnownFits
  BY DEF IInv
<1>3. First(K + 1) \in Seq(Blocks) /\ Len(First(K + 1)) = K + 1
  <2>1. K + 1 \in 0 .. N
    BY <1>1
  <2> QED
    BY <2>1, FirstFacts
<1>4. K' = K + 1
  BY <1>1, <1>3 DEF K
<1>5. progress' # None /\ progress' \in [placed : Seq(Blocks), at : Blocks]
      /\ progress'.placed = First(K + 1) /\ progress'.at = plan.at
  <2>1. progress' \in [placed : Seq(Blocks), at : Blocks]
        /\ progress'.placed = First(K + 1) /\ progress'.at = plan.at
    BY <1>1, <1>3
  <2> QED
    BY <2>1, StackerAssumption
<1>6. WorldFits'
  BY <1>1, <1>2, WorldKept
<1>7. CountsFit'
  BY <1>1, <1>2 DEF CountsFit, Moving
<1>8. ProgressFits'
  <2>1. Len(progress'.placed) = K + 1 /\ K + 1 \in 2 .. N
    BY <1>1, <1>3, <1>5
  <2> QED
    BY <1>5, <2>1 DEF ProgressFits
<1>9. PlanFits'
  BY <1>1, <1>4, <1>5 DEF PlanFits
<1>10. PlainFits'
  <2>1. CASE foreign \/ piled
    BY <1>1, <2>1 DEF PlainFits
  <2>2. CASE ~foreign /\ ~piled
    <3>1. PlainStacks /\ PlainBuild
      BY <1>1, <1>2, <2>2 DEF PlainFits
    <3>2. Stands(Tower, K + 1) /\ Len(Tower) = K + 1
      BY <2>2, TierStands
    <3>3. Remembered' = K + 1
      BY <1>3, <1>5 DEF Remembered
    <3>4. Kept(Tower, K + 1)
      <4>1. ASSUME NEW i \in 1 .. K + 1 PROVE Stands(Tower, i)
        <5>1. Len(Tower) >= i /\ \A j \in 1 .. i : j \in 1 .. K + 1
          BY <1>1, <3>2
        <5> QED
          BY <3>2, <5>1 DEF Stands
      <4> QED
        BY <4>1 DEF Kept
    <3>5. PlainStacks'
      BY <1>1, <3>1, <3>3, <3>4 DEF PlainStacks, Tower
    <3>6. PlainBuild'
      BY <1>1, <1>5, <3>1 DEF PlainBuild, Moving
    <3> QED
      BY <3>5, <3>6 DEF PlainFits
  <2> QED
    BY <2>1, <2>2
<1>11. KnownFits'
  <2> SUFFICES ASSUME known' PROVE KnownStacks' /\ KnownTool'
    BY DEF KnownFits
  <2>1. KnownStacks
    BY <1>1, <1>2 DEF KnownFits, Moving
  <2>2. PICK p \in Blocks : \E i \in 1 .. Len(stack[p]) : stack[p][i] = block /\ K + 1 <= i
    BY <1>1
  <2>3. PICK i \in 1 .. Len(stack[p]) : stack[p][i] = block /\ K + 1 <= i
    BY <2>2
  <2>4. p = plan.at
    <3>1. SUFFICES ASSUME p # plan.at PROVE FALSE
      OBVIOUS
    <3>2. stack[p] = << >> \/ stack[p] = <<p>>
      BY <2>1, <3>1 DEF KnownStacks
    <3>3. PICK m \in 0 .. 1 : m = Len(stack[p])
      BY <3>2, LengthOne
    <3>4. i \in 1 .. m /\ K + 1 <= i
      BY <2>3, <3>3
    <3>5. K \in 1 .. N /\ N \in Nat
      BY <1>1
    <3> QED
      BY ONLY <3>4, <3>5, m \in 0 .. 1
  <2>5. /\ Len(Site) \in Nat /\ Len(Site) <= K + 1
        /\ \A j \in 1 .. Len(Site) :
              Site[j] = Order[j] \/ (j = Len(Site) /\ Site[j] = block)
    <3>1. Len(Site) \in Nat
      BY <1>1, <1>2, WorldTypes DEF Site
    <3> QED
      BY <1>1, <2>1, <3>1 DEF KnownStacks
  <2>6. Len(Site) = K + 1
    <3>1. i \in 1 .. Len(Site)
      BY <2>4 DEF Site
    <3> QED
      BY <1>1, <2>3, <2>5, <3>1
  <2>7. \A j \in 1 .. Len(Site) : Site[j] = Order[j]
    BY <1>1, <2>5, <2>6
  <2>8. Site' = Site
    BY <1>1 DEF Site
  <2>9. \E j \in 1 .. K' : plan'.at = Order[j]
    <3>1. PICK j \in 1 .. K : plan.at = Order[j]
      BY <2>1 DEF KnownStacks
    <3>2. j \in 1 .. K'
      BY <1>1, <1>4
    <3> QED
      BY <1>1, <3>1, <3>2
  <2>10. KnownStacks'
    <3>1. Len(Site') <= K'
      BY <1>1, <1>4, <2>6, <2>8
    <3>2. \A j \in 1 .. Len(Site') : Site'[j] = Order[j]
      BY <2>7, <2>8
    <3>3. \A q \in Blocks : q # plan'.at => stack'[q] = << >> \/ stack'[q] = <<q>>
      BY <1>1, <2>1 DEF KnownStacks
    <3> QED
      BY <1>1, <1>4, <2>9, <3>1, <3>2, <3>3 DEF KnownStacks
  <2>11. KnownTool'
    BY <1>1 DEF KnownTool, InAir
  <2> QED
    BY <2>10, <2>11
<1> QED
  BY <1>1, <1>6, <1>7, <1>8, <1>9, <1>10, <1>11, ToTier DEF IInv

-----------------------------------------------------------------------------
(* At the start every block is somewhere, once.                             *)

LEMMA LayoutFacts ==
    ASSUME NEW lies \in Layouts
    PROVE  /\ lies \in [Blocks -> [place : Blocks, high : DOMAIN Order]]
           /\ \A b, c \in Blocks : lies[b] = lies[c] => b = c
           /\ \A p \in Blocks : \E n \in 0 .. N : Highs(lies, p) = 1 .. n
BY DEF Layouts, N

LEMMA LayoutStacks ==
    ASSUME NEW lies \in Layouts, NEW p \in Blocks
    PROVE  /\ Stacked(lies)[p] \in Seq(Blocks)
           /\ DOMAIN Stacked(lies)[p] = Highs(lies, p)
           /\ \A h \in Highs(lies, p) :
                 /\ Stacked(lies)[p][h] \in Blocks
                 /\ lies[Stacked(lies)[p][h]].place = p
                 /\ lies[Stacked(lies)[p][h]].high = h
<1>1. /\ lies \in [Blocks -> [place : Blocks, high : DOMAIN Order]]
      /\ \E n \in 0 .. N : Highs(lies, p) = 1 .. n
  BY LayoutFacts
<1>2. PICK n \in 0 .. N : Highs(lies, p) = 1 .. n
  BY <1>1
<1> DEFINE Top(h) == CHOOSE b \in Blocks : lies[b] = [place |-> p, high |-> h]
           s == [h \in Highs(lies, p) |-> Top(h)]
<1>3. ASSUME NEW h \in Highs(lies, p)
      PROVE  Top(h) \in Blocks /\ lies[Top(h)] = [place |-> p, high |-> h]
  <2>1. PICK b \in {c \in Blocks : lies[c].place = p} : h = lies[b].high
    BY DEF Highs
  <2>2. lies[b] = [place |-> p, high |-> h]
    BY <1>1, <2>1
  <2> QED
    BY <2>1, <2>2
<1>4. Stacked(lies)[p] = s
  BY DEF Stacked
<1>5. ASSUME NEW h \in Highs(lies, p)
      PROVE  s[h] \in Blocks /\ lies[s[h]].place = p /\ lies[s[h]].high = h
  <2>1. s[h] = Top(h)
    OBVIOUS
  <2>2. Top(h) \in Blocks /\ lies[Top(h)] = [place |-> p, high |-> h]
    BY <1>3
  <2> HIDE DEF s, Top
  <2> QED
    BY <2>1, <2>2
<1>6. DOMAIN s = Highs(lies, p)
  OBVIOUS
<1>7. s \in [1 .. n -> Blocks]
  <2>1. s = [h \in 1 .. n |-> Top(h)]
    BY <1>2
  <2>2. \A h \in 1 .. n : Top(h) \in Blocks
    BY <1>2, <1>3
  <2> HIDE DEF Top
  <2> QED
    BY <2>1, <2>2
<1>8. s \in Seq(Blocks)
  <2>1. n \in Nat
    BY <1>2, OrderFacts
  <2> HIDE DEF s
  <2> QED
    BY <1>7, <2>1
<1> HIDE DEF s
<1> QED
  BY <1>4, <1>5, <1>6, <1>8

LEMMA LayoutPlaces ==
    ASSUME NEW lies \in Layouts, stack = Stacked(lies)
    PROVE  /\ stack \in [Blocks -> Seq(Blocks)]
           /\ \A p \in Blocks : \A i \in 1 .. Len(stack[p]) :
                 /\ i \in Highs(lies, p) /\ stack[p][i] \in Blocks
                 /\ lies[stack[p][i]].place = p /\ lies[stack[p][i]].high = i
           /\ \A p \in Blocks : \A h \in Highs(lies, p) :
                 stack[p][h] \in Members(stack[p])
<1>1. ASSUME NEW p \in Blocks
      PROVE  /\ stack[p] \in Seq(Blocks) /\ DOMAIN stack[p] = Highs(lies, p)
             /\ \A h \in Highs(lies, p) :
                 /\ stack[p][h] \in Blocks
                 /\ lies[stack[p][h]].place = p /\ lies[stack[p][h]].high = h
  BY LayoutStacks
<1>2. stack \in [Blocks -> Seq(Blocks)]
  <2>1. stack = [p \in Blocks |-> stack[p]]
    BY DEF Stacked
  <2> QED
    BY <1>1, <2>1
<1>3. ASSUME NEW p \in Blocks, NEW i \in 1 .. Len(stack[p])
      PROVE  /\ i \in Highs(lies, p) /\ stack[p][i] \in Blocks
             /\ lies[stack[p][i]].place = p /\ lies[stack[p][i]].high = i
  <2>1. DOMAIN stack[p] = 1 .. Len(stack[p])
    BY <1>1
  <2> QED
    BY <1>1, <2>1
<1>4. \A p \in Blocks : \A h \in Highs(lies, p) : stack[p][h] \in Members(stack[p])
  BY <1>1 DEF Members
<1> QED
  BY <1>2, <1>3, <1>4

LEMMA InitFits == Init => IInv
<1> SUFFICES ASSUME Init PROVE IInv
  OBVIOUS
<1>1. PICK lies \in Layouts, said \in DOMAIN Order :
          /\ stack = Stacked(lies)
          /\ progress = IF said = 1 THEN None
                        ELSE [placed |-> First(said), at |-> lies[Order[said]].place]
          /\ foreign = (stack \notin {Table(n) : n \in DOMAIN Order})
  BY DEF Init
<1>2. /\ gone = {} /\ held = None /\ at = None /\ pc = "build" /\ retries = Retries
      /\ grip = 0 /\ known = TRUE /\ piled = FALSE
  BY DEF Init
<1>3. /\ stack \in [Blocks -> Seq(Blocks)]
      /\ \A p \in Blocks : \A i \in 1 .. Len(stack[p]) :
            /\ i \in Highs(lies, p) /\ stack[p][i] \in Blocks
            /\ lies[stack[p][i]].place = p /\ lies[stack[p][i]].high = i
      /\ \A p \in Blocks : \A h \in Highs(lies, p) : stack[p][h] \in Members(stack[p])
  BY <1>1, LayoutPlaces
<1>4. /\ lies \in [Blocks -> [place : Blocks, high : DOMAIN Order]]
      /\ \A b, c \in Blocks : lies[b] = lies[c] => b = c
  BY LayoutFacts
<1>5. said \in 1 .. N /\ N \in Nat /\ Order[said] \in Blocks /\ Base \in Blocks /\ said \in 0 .. N
  <2>1. said \in 1 .. N /\ N \in Nat
    BY OrderFacts
  <2> QED
    BY <2>1, OrderFacts
<1>6. First(said) \in Seq(Blocks) /\ Len(First(said)) = said
  BY <1>5, FirstFacts
<1>7. WorldFits
  <2>1. Once(stack)
    <3>1. ASSUME NEW p \in Blocks, NEW r \in Blocks, NEW i \in 1 .. Len(stack[p]),
                 NEW j \in 1 .. Len(stack[r]), stack[p][i] = stack[r][j]
          PROVE  p = r /\ i = j
      <4>1. lies[stack[p][i]].place = p /\ lies[stack[p][i]].high = i
        BY <1>3
      <4>2. lies[stack[r][j]].place = r /\ lies[stack[r][j]].high = j
        BY <1>3
      <4> QED
        BY <3>1, <4>1, <4>2
    <3> QED
      BY <3>1 DEF Once
  <2>2. ASSUME NEW b \in Blocks PROVE \E p \in Blocks : b \in Members(stack[p])
    <3> DEFINE p == lies[b].place
               h == lies[b].high
    <3>1. p \in Blocks
      BY <1>4
    <3>2. h \in Highs(lies, p)
      BY DEF Highs
    <3>3. \E n \in 0 .. N : Highs(lies, p) = 1 .. n
      BY <3>1, LayoutFacts
    <3>4. /\ stack[p][h] \in Blocks /\ lies[stack[p][h]].place = p
          /\ lies[stack[p][h]].high = h
      BY <1>1, <3>1, <3>2, LayoutStacks
    <3>5. lies[stack[p][h]] = lies[b]
      BY <1>4, <3>4
    <3>6. stack[p][h] = b
      BY <1>4, <3>4, <3>5
    <3> HIDE DEF p, h
    <3> QED
      BY <1>3, <3>1, <3>2, <3>6
  <2> QED
    BY <1>2, <1>3, <2>1, <2>2 DEF WorldFits, Apart, Jaws
<1>8. CountsFit
  <2>1. foreign \in BOOLEAN
    BY <1>1
  <2>2. Retries \in 0 .. Retries /\ 0 \in 0 .. Grips
    BY StackerAssumption
  <2> QED
    BY <1>2, <2>1, <2>2 DEF CountsFit
<1>9. ProgressFits
  <2>1. ASSUME progress # None
        PROVE  /\ progress \in [placed : Seq(Blocks), at : Blocks]
               /\ progress.placed = First(said) /\ said \in 2 .. N
    <3>1. said # 1 /\ progress = [placed |-> First(said), at |-> lies[Order[said]].place]
      BY <1>1, <2>1
    <3>2. lies[Order[said]].place \in Blocks
      BY <1>4, <1>5
    <3> QED
      BY <1>5, <1>6, <3>1, <3>2
  <2> QED
    BY <1>6, <2>1 DEF ProgressFits
<1>10. PlanFits /\ StepFits /\ KnownFits
  BY <1>2 DEF PlanFits, StepFits, KnownFits, Moving, InAir
<1>11. ASSUME ~foreign PROVE PlainStacks /\ PlainBuild
  <2>1. PICK n \in 1 .. N : stack = Table(n)
    BY <1>1, <1>11, OrderFacts
  <2>2. \A p \in Blocks : p # Base => stack[p] = << >> \/ stack[p] = <<p>>
    BY <2>1 DEF Table, Base
  <2>3. Tower = First(n)
    BY <1>5, <2>1 DEF Table, Base, Tower
  <2>4. /\ First(n) \in Seq(Blocks) /\ Len(First(n)) = n
        /\ \A i \in 1 .. n : First(n)[i] = Order[i]
    <3>1. n \in 0 .. N
      BY <1>5
    <3> QED
      BY <3>1, FirstFacts
  <2>5. Remembered \in 1 .. N
    BY <1>9, RememberedFits
  <2>6. ASSUME NEW i \in 1 .. Remembered, Order[i] \in Members(First(n))
        PROVE  Stands(First(n), i)
    <3>1. PICK j \in 1 .. n : First(n)[j] = Order[i]
      BY <2>4, <2>6, MemberAt
    <3>2. i \in 1 .. N /\ j \in 1 .. N /\ Order[j] = Order[i]
      BY <1>5, <2>4, <2>5, <3>1
    <3>3. i = j
      BY <3>2, OrderFacts
    <3> QED
      BY <1>5, <2>4, <3>3 DEF Stands
  <2>7. PlainStacks
    BY <1>2, <2>2, <2>3, <2>6 DEF PlainStacks, Kept
  <2>8. ASSUME progress # None, progress.at # Base
        PROVE  Order[Len(progress.placed)] \notin Members(Tower)
    <3>1. /\ progress.placed = First(said) /\ progress.at = lies[Order[said]].place
      BY <1>1, <2>8
    <3>2. SUFFICES ASSUME Order[said] \in Members(Tower) PROVE FALSE
      BY <1>6, <3>1
    <3>3. PICK j \in 1 .. Len(stack[Base]) : stack[Base][j] = Order[said]
      BY <2>3, <2>4, <3>2, MemberAt DEF Tower
    <3>4. lies[stack[Base][j]].place = Base
      BY <1>3, <1>5
    <3> QED
      BY <2>8, <3>1, <3>3, <3>4
  <2>9. PlainBuild
    BY <1>2, <2>8 DEF PlainBuild, Moving
  <2> QED
    BY <2>7, <2>9
<1>12. PlainFits
  BY <1>11 DEF PlainFits
<1> QED
  BY <1>7, <1>8, <1>9, <1>10, <1>12 DEF IInv

-----------------------------------------------------------------------------
(* The theorems.                                                            *)

LEMMA StepKeeps == IInv /\ [Next]_vars => IInv'
<1> SUFFICES ASSUME IInv, [Next]_vars PROVE IInv'
  OBVIOUS
<1>1. CASE UNCHANGED vars
  <2>1. UNCHANGED <<stack, gone, held, at, pc, retries, progress, plan, block, grip,
                    known, foreign, piled>>
    BY <1>1 DEF vars
  <2>2. WorldFits'
    BY <2>1, WorldKept DEF IInv, WorldFits
  <2>3. CountsFit' /\ ProgressFits' /\ PlanFits' /\ StepFits'
    BY <2>1 DEF IInv, CountsFit, ProgressFits, PlanFits, StepFits, K
  <2>4. PlainFits'
    BY <2>1 DEF IInv, PlainFits, PlainStacks, PlainBuild, Tower, Remembered
  <2>5. KnownFits'
    BY <2>1 DEF IInv, KnownFits, KnownStacks, KnownTool, Site, K
  <2> QED
    BY <2>2, <2>3, <2>4, <2>5 DEF IInv
<1>2. CASE BlockOutOfReach
  BY <1>2, BlockOutOfReachFits
<1>3. CASE Resume
  BY <1>3, ResumeFits
<1>4. CASE StartOver
  BY <1>4, StartOverFits
<1>5. CASE NextBlock
  BY <1>5, NextBlockFits
<1>6. CASE Descend
  BY <1>6, DescendFits
<1>7. CASE LostBlock
  BY <1>7, LostBlockFits
<1>8. CASE Measure
  BY <1>8, MeasureFits
<1>9. CASE SetDown
  BY <1>9, SetDownFits
<1>10. CASE Carry
  BY <1>10, CarryFits
<1>11. CASE Release
  BY <1>11, ReleaseFits
<1>12. CASE TierVerified
  BY <1>12, TierVerifiedFits
<1>13. CASE TierNotVerified
  BY <1>13, TierNotVerifiedFits
<1>14. CASE AllPlaced
  BY <1>14, AllPlacedFits
<1>15. CASE Park
  BY <1>15, ParkFits
<1>16. CASE DoesNotConverge
  BY <1>16, DoesNotConvergeFits
<1>17. CASE Refused
  BY <1>17, RefusedFits
<1>18. CASE StopAndRetry
  BY <1>18, StopAndRetryFits
<1>19. CASE RetryUnstopped
  BY <1>19, RetryUnstoppedFits
<1>20. CASE Sheds
  BY <1>20, ShedsFits
<1>21. CASE Collapses
  BY <1>21, CollapsesFits
<1> QED
  BY <1>1, <1>2, <1>3, <1>4, <1>5, <1>6, <1>7, <1>8, <1>9, <1>10, <1>11, <1>12, <1>13,
     <1>14, <1>15, <1>16, <1>17, <1>18, <1>19, <1>20, <1>21 DEF Next, Step

LEMMA AlwaysFits == Spec => []IInv
<1>1. Init => IInv
  BY InitFits
<1>2. IInv /\ [Next]_vars => IInv'
  BY StepKeeps
<1> QED
  BY <1>1, <1>2, PTL DEF Spec

(* The counts stay within what is allowed, the blocks are in stacks, and    *)
(* the jaws hold a block or nothing.                                        *)
THEOREM TypeCorrect == Spec => []TypeOK
<1>1. IInv => TypeOK
  BY WorldTypes DEF IInv, TypeOK, WorldFits, CountsFit, Apart
<1> QED
  BY <1>1, AlwaysFits, PTL

(* As long as the attempt knew of every stack and nothing fell onto a       *)
(* block, the gripper does not go to the table through a stack, nor a block *)
(* into one: for any table the blocks lay on at the start and any           *)
(* --standing (stack_blocks.py:573-580, 626-647).                           *)
THEOREM ContactPlanned == Spec => []ContactIsPlanned
<1>1. IInv => ContactIsPlanned
  <2> SUFFICES ASSUME IInv, known
               PROVE  /\ pc = "descend" => Len(stack[at]) <= 1
                      /\ pc = "lower" /\ held = block => Len(stack[at]) <= plan.surface
    BY DEF ContactIsPlanned
  <2>1. WorldFits /\ PlanFits /\ StepFits /\ KnownFits
    BY DEF IInv
  <2>2. ASSUME pc = "descend" PROVE Len(stack[at]) <= 1
    <3>1. KnownStacks /\ KnownTool
      BY <2>1, <2>2 DEF KnownFits, Moving
    <3>2. at = block /\ at \in Blocks
      BY <2>1, <2>2, <3>1 DEF KnownTool, StepFits
    <3>3. block # plan.at
      <4>1. PICK i \in 1 .. K : plan.at = Order[i]
        BY <3>1 DEF KnownStacks
      <4> QED
        BY <2>1, <2>2, <4>1, PlanNext DEF Moving
    <3>4. stack[at] = << >> \/ stack[at] = <<at>>
      BY <3>1, <3>2, <3>3 DEF KnownStacks
    <3>5. PICK m \in 0 .. 1 : m = Len(stack[at])
      BY <3>4, LengthOne
    <3>6. m <= 1
      BY ONLY m \in 0 .. 1
    <3> QED
      BY <3>5, <3>6
  <2>3. ASSUME pc = "lower", held = block PROVE Len(stack[at]) <= plan.surface
    <3>1. KnownStacks /\ KnownTool
      BY <2>1, <2>3 DEF KnownFits, Moving
    <3>2. at = plan.at /\ plan.surface = K
      BY <2>3, <3>1 DEF KnownTool, KnownStacks
    <3>3. held # None
      BY <2>1, <2>3, PlanNext DEF Moving
    <3>4. Len(Site) <= K
      BY <2>3, <3>1, <3>3 DEF KnownStacks, InAir
    <3> QED
      BY <3>2, <3>4 DEF Site
  <2> QED
    BY <2>2, <2>3
<1> QED
  BY <1>1, AlwaysFits, PTL

(* The tower remembered stands when it is seen to.                          *)
LEMMA ResumedStands ==
    ASSUME IInv, Resume, ~foreign, ~piled
    PROVE  /\ Len(plan'.placed) \in 2 .. N
           /\ plan'.placed = First(Len(plan'.placed))
           /\ Stands(Tower, Len(plan'.placed))
<1> DEFINE k == Len(progress.placed)
<1>1. PICK h \in Heights(Believed) :
          /\ Resumes(h)
          /\ plan' = [placed |-> progress.placed, at |-> progress.at, surface |-> h]
  BY DEF Resume
<1>2. pc = "build" /\ gone = {}
  BY DEF Resume, Reachable
<1>3. WorldFits /\ ProgressFits /\ PlainStacks /\ PlainBuild
  BY <1>2 DEF IInv, PlainFits
<1>4. /\ progress # None /\ h = k /\ k \in 2 .. N /\ N \in Nat
      /\ progress.placed = First(k) /\ plan'.placed = progress.placed
  <2>1. progress # None /\ h = k /\ N \in Nat
    BY <1>1, OrderFacts DEF Resumes
  <2> QED
    BY <1>1, <1>3, <2>1 DEF ProgressFits
<1>5. k \in 1 .. N /\ k \in 0 .. N /\ k \in 1 .. k /\ k \in Nat /\ k >= 2
  BY <1>4
<1>6. Len(First(k)) = k /\ First(k)[k] = Order[k] /\ Order[k] \in Blocks
  BY <1>5, FirstFacts, OrderFacts
<1>7. Believed = Order[k]
  BY <1>4, <1>6 DEF Believed
<1>8. Remembered = k
  BY <1>4 DEF Remembered
<1>9. held # Order[k]
  <2>1. held = None \/ (held # None /\ \A i \in 2 .. Remembered : held # Order[i])
    BY <1>3 DEF PlainStacks
  <2>2. k \in 2 .. Remembered
    BY <1>5, <1>8
  <2> QED
    BY <1>6, <2>1, <2>2, StackerAssumption
<1>10. PICK p \in Blocks : \E i \in 1 .. Len(stack[p]) : stack[p][i] = Order[k] /\ k <= i
  BY <1>1, <1>2, <1>3, <1>4, <1>6, <1>7, <1>9, SeenHigh
<1>11. PICK i \in 1 .. Len(stack[p]) : stack[p][i] = Order[k] /\ k <= i
  BY <1>10
<1>12. p = Base
  <2>1. SUFFICES ASSUME p # Base PROVE FALSE
    OBVIOUS
  <2>2. stack[p] = << >> \/ stack[p] = <<p>>
    BY <1>3, <2>1 DEF PlainStacks
  <2>3. PICK m \in 0 .. 1 : m = Len(stack[p])
    BY <2>2, LengthOne
  <2>4. i \in 1 .. m /\ k <= i /\ k >= 2 /\ k \in Nat
    BY <1>5, <1>11, <2>3
  <2> HIDE DEF k
  <2> QED
    BY ONLY <2>4, m \in 0 .. 1
<1>13. Tower \in Seq(Blocks) /\ Order[k] \in Members(Tower)
  <2>1. Tower \in Seq(Blocks)
    BY <1>3, WorldTypes
  <2> QED
    BY <1>11, <1>12, <2>1, MemberAt DEF Tower
<1>14. Stands(Tower, k)
  BY <1>3, <1>5, <1>8, <1>13 DEF PlainStacks, Kept
<1> QED
  BY <1>4, <1>14

(* What stands, as a sequence.                                              *)
LEMMA StandsCut ==
    ASSUME WorldFits, NEW k \in 1 .. N, Stands(Tower, k)
    PROVE  SubSeq(Tower, 1, k) = First(k) /\ Len(Tower) >= k
<1>1. /\ Tower \in Seq(Blocks) /\ Len(Tower) \in Nat /\ k \in 0 .. N /\ k \in 0 .. Len(Tower)
  BY WorldTypes, OrderFacts DEF Stands
<1>2. First(k) \in Seq(Blocks) /\ Len(First(k)) = k /\ \A i \in 1 .. k : First(k)[i] = Order[i]
  BY <1>1, FirstFacts
<1> DEFINE u == SubSeq(Tower, 1, k)
<1>3. u \in Seq(Blocks) /\ Len(u) = k /\ \A i \in 1 .. k : u[i] = Tower[i]
  BY <1>1, CutFacts
<1>4. \A i \in 1 .. k : u[i] = First(k)[i]
  BY <1>2, <1>3 DEF Stands
<1> HIDE DEF u
<1>5. u = First(k)
  BY <1>2, <1>3, <1>4, SeqEqual
<1> QED
  BY <1>1, <1>5 DEF u, Stands

(* Only these begin or go on with a build.                                  *)
LEMMA BuildBegins ==
    ASSUME [Next]_vars, pc = "build", pc' = "tier"
    PROVE  Resume \/ StartOver
BY DEF Next, Step, BlockOutOfReach, Surprise, NextBlock, Descend, LostBlock, Measure, SetDown,
       Carry, Release, TierVerified, TierNotVerified, AllPlaced, Park, DoesNotConverge,
       Refused, StopAndRetry, RetryUnstopped, Sheds, Collapses, GoTo, Moving, Ended, vars

(* An attempt extends a tower that is there, unless blocks in another order *)
(* were stacked at the start or one has fallen onto another: also when      *)
(* --standing counts too many, for any number of blocks                     *)
(* (stack_blocks.py:626-647, 682-694).                                      *)
THEOREM ResumesWhereItStands == Spec => ResumesOnTower
<1>1. IInv /\ [Next]_vars => [~foreign /\ ~piled => ExtendsTower]_vars
  <2> SUFFICES ASSUME IInv, [Next]_vars, ~foreign, ~piled, pc = "build", pc' = "tier",
                      Len(plan'.placed) >= 2
               PROVE  StandsUnder(plan'.placed)
    BY DEF ExtendsTower
  <2>1. ~StartOver
    <3>1. 1 \in 0 .. N
      BY OrderFacts
    <3>2. Len(First(1)) = 1
      BY <3>1, FirstFacts
    <3>3. SUFFICES ASSUME StartOver PROVE FALSE
      OBVIOUS
    <3>4. plan'.placed = First(1)
      BY <3>3 DEF StartOver
    <3>5. 1 >= 2
      BY <3>2, <3>4
    <3> QED
      BY <3>5
  <2>2. Resume
    BY <2>1, BuildBegins
  <2> DEFINE k == Len(plan'.placed)
  <2>3. k \in 2 .. N /\ plan'.placed = First(k) /\ Stands(Tower, k)
    BY <2>2, ResumedStands
  <2> HIDE DEF k
  <2>4. k \in 1 .. N
    BY <2>3, OrderFacts
  <2>5. SubSeq(Tower, 1, k) = First(k) /\ Len(Tower) >= k
    BY <2>3, <2>4, StandsCut DEF IInv
  <2>6. Base \in Blocks
    BY OrderFacts
  <2>7. Len(stack[Base]) >= Len(plan'.placed)
        /\ SubSeq(stack[Base], 1, Len(plan'.placed)) = plan'.placed
    BY <2>3, <2>5 DEF Tower, k
  <2> QED
    BY <2>6, <2>7 DEF StandsUnder
<1> QED
  BY <1>1, AlwaysFits, PTL DEF Spec, ResumesOnTower

LEMMA WholeTower ==
    ASSUME WorldFits, Stands(Tower, N)
    PROVE  stack[Base] = Order
<1>1. /\ Tower \in Seq(Blocks) /\ Len(Tower) \in Nat /\ N \in Nat /\ N \in 1 .. N
      /\ Base \in Blocks /\ Len(Tower) >= N
  <2>1. Tower \in Seq(Blocks) /\ Len(Tower) \in Nat
    BY WorldTypes
  <2>2. N \in Nat /\ N >= 2 /\ Base \in Blocks
    BY OrderFacts
  <2>3. Len(Tower) >= N
    BY DEF Stands
  <2> QED
    BY <2>1, <2>2, <2>3
<1>2. Len(Tower) = N
  <2>1. SUFFICES ASSUME Len(Tower) # N PROVE FALSE
    OBVIOUS
  <2>2. N + 1 \in 1 .. Len(Tower)
    BY <1>1, <2>1
  <2>3. Tower[N + 1] \in Blocks
    BY <1>1, <2>2
  <2>4. PICK i \in 1 .. N : Tower[N + 1] = Order[i]
    BY <2>3, OrderFacts
  <2>5. i \in 1 .. Len(Tower) /\ Tower[i] = Tower[N + 1] /\ i # N + 1
    BY <1>1, <2>4 DEF Stands
  <2> QED
    BY <1>1, <2>2, <2>5, WorldTypes DEF Tower
<1>3. SubSeq(Tower, 1, N) = First(N)
  BY <1>1, StandsCut
<1>4. SubSeq(Tower, 1, Len(Tower)) = Tower
  BY <1>1
<1> QED
  BY <1>2, <1>3, <1>4, FirstIsAll DEF Tower

LEMMA TierBegins ==
    ASSUME [Next]_vars, pc # "tier", pc' = "tier"
    PROVE  Resume \/ StartOver \/ TierVerified
BY DEF Next, Step, BlockOutOfReach, Surprise, NextBlock, Descend, LostBlock, Measure, SetDown,
       Carry, Release, TierNotVerified, AllPlaced, Park, DoesNotConverge,
       Refused, StopAndRetry, RetryUnstopped, Again, Sheds, Collapses, GoTo, Moving, Ended, vars

(* When the agent looks its last before it claims the tower, the blocks are *)
(* on one another in the order asked for: for any number of blocks, any     *)
(* --standing and any shedding and coming down on the way, unless blocks in *)
(* another order were stacked at the start or one has fallen onto another   *)
(* (stack_blocks.py:546-569, 618-647).                                      *)
THEOREM TheClaimStands == Spec => [][~foreign /\ ~piled => LastLook]_vars
<1>1. IInv /\ [Next]_vars => [~foreign /\ ~piled => LastLook]_vars
  <2> SUFFICES ASSUME IInv, [Next]_vars, ~foreign, ~piled, pc # "tier", pc' = "tier",
                      Len(plan'.placed) = N
               PROVE  \E p \in Blocks : stack[p] = Order
    BY DEF LastLook, N
  <2>1. ASSUME StartOver PROVE FALSE
    <3>1. 1 \in 0 .. N /\ N >= 2 /\ N \in Nat
      BY OrderFacts
    <3>2. Len(First(1)) = 1
      BY <3>1, FirstFacts
    <3>3. plan'.placed = First(1)
      BY <2>1 DEF StartOver
    <3>4. N = 1
      BY <3>2, <3>3
    <3> QED
      BY <3>1, <3>4
  <2>2. CASE Resume
    <3>1. Stands(Tower, Len(plan'.placed))
      BY <2>2, ResumedStands
    <3>2. Stands(Tower, N)
      BY <3>1
    <3> QED
      BY <3>2, WholeTower, OrderFacts DEF IInv
  <2>3. CASE TierVerified
    <3>1. Stands(Tower, K + 1)
      BY <2>3, TierStands
    <3>2. plan'.placed = First(K + 1) /\ K + 1 \in 1 .. N /\ N \in Nat
      BY <2>3, TierFacts
    <3>3. Len(plan'.placed) = K + 1
      <4>1. K + 1 \in 0 .. N
        BY <3>2
      <4> QED
        BY <3>2, <4>1, FirstFacts
    <3>4. Stands(Tower, N)
      BY <3>1, <3>3
    <3> QED
      BY <3>4, WholeTower, OrderFacts DEF IInv
  <2> QED
    BY <2>1, <2>2, <2>3, TierBegins
<1> QED
  BY <1>1, AlwaysFits, PTL DEF Spec
=============================================================================
