--------------------------- MODULE AccessProofs ---------------------------
(***************************************************************************)
(* PhyAccess for any stations, slots, bursts and frames: AccessSafe.       *)
(***************************************************************************)
EXTENDS PhyAccess, FiniteSetTheorems, WellFoundedInduction, TLAPS

---------------------------------------------------------------------------
(* The invariant.  The events of a frame are those of one plan, in which   *)
(* the transmissions are apart; events of one tick then commute, and the   *)
(* agenda may be read as a set.                                            *)

\* Functor f, whose times are counted from tick t on, in simulation time.
Moved(f, t) == [f EXCEPT !.start = @ + t, !.stop = @ + t]

IsSent(f) == f.kind # "pattern"

\* f and g share a slot in different beams, in one direction.
Beside(f, g) ==
  /\ f.slot = g.slot /\ f.layer # g.layer
  /\ f.from = BS <=> g.from = BS
  /\ f.from = g.from => f.from = BS

\* f and g are bursts a subscriber may send in one and the same grant.
Rivals(f, g) == f.from # BS /\ f.from = g.from /\ f.start = g.start

\* The transmissions and patterns of a frame: down, then up, those of one beam
\* one after another, those of different beams perhaps side by side, and none of
\* the patterns is set for a station during a burst of its own.
GoodPlan(F) ==
  /\ \A f \in F :
       /\ f \in Functor /\ f.start < f.stop
       /\ IsSent(f) /\ f.from = BS =>
            DLStart <= f.start /\ f.stop < ULStart /\ f.to \in Subscriber \cup {Everyone}
       /\ f.from # BS => IsSent(f) /\ f.to = BS
       /\ ~IsSent(f) => f.to \in Subscriber
       /\ f.from # BS \/ ~IsSent(f) => ULStart <= f.start /\ f.stop < ULStart + PhaseLength
  /\ \A f, g \in F : IsSent(f) /\ IsSent(g) /\ f # g =>
       f.stop < g.start \/ g.stop < f.start \/ Beside(f, g) \/ Rivals(f, g)
  /\ \A f, p \in F : f.from # BS /\ ~IsSent(p) /\ p.to = f.from =>
       p.start = f.start \/ p.start < f.start \/ f.stop < p.start

Agendum == [at : Nat, do : {"start", "stop", "set"}, f : Functor]

\* Event e starts, stops or prepares one of F, at its time.
EventFits(e, F) ==
  /\ e.f \in F /\ e.at >= now
  /\ IsSent(e.f) => \/ e.do = "start" /\ e.at = e.f.start
                    \/ e.do = "stop" /\ e.at = e.f.stop
  /\ ~IsSent(e.f) => e.do = "set" /\ e.at = e.f.start

WillStop(f) == \E e \in Range(agenda) : e.do = "stop" /\ e.f = f

\* The burst with which subscriber s fills grant c.
Reply(c, b, s) == Moved(ULFunctor(Answer(c, b), s), ULStart)

\* The pattern p waits in the uplink callback of the base station.
Prepared(p) == \E q \in Range(scheduledUL) : Moved(q, ULStart) = p

\* The burst f is one its sender still may choose to send.
Open(f) ==
  f.from \in Subscriber /\ \E c \in Range(granted[f.from]) : \E b \in Filling(c) : Reply(c, b, f.from) = f

\* The receive pattern for the burst f is set, or will be set in time.
HasPattern(f) ==
  \/ pattern[f.from] = f.start /\ f.start <= now
  \/ \E e \in Range(agenda) : e.do = "set" /\ e.f.to = f.from /\ e.f.start = f.start
  \/ \E p \in Functor : Prepared(p) /\ ~IsSent(p) /\ p.to = f.from /\ p.start = f.start

\* What the callbacks hold is of plan F, and in time.
Scheduled(F) ==
  /\ \A q \in Range(scheduledDL) : q.from = BS /\ Moved(q, DLStart) \in F
  /\ \A q \in Range(scheduledUL) : q.from = BS /\ Moved(q, ULStart) \in F
  /\ scheduledUL # << >> => now <= ULStart

\* A subscriber with grants has sent nothing, and may fill each grant once.
GrantsFit(F) ==
  \A s \in Subscriber :
    /\ \A c \in Range(granted[s]) : \A b \in Filling(c) : Reply(c, b, s) \in F
    /\ \A c, d \in Range(granted[s]) : StartTime(c) = StartTime(d) => c = d
    /\ granted[s] # << >> => now <= ULStart /\ \A f : WillStop(f) => f.from # s

\* Of the bursts for one grant one is sent.
NoRivals == \A f, g : WillStop(f) /\ WillStop(g) /\ Rivals(f, g) => f = g

Follows(F) ==
  /\ GoodPlan(F)
  /\ Scheduled(F)
  /\ GrantsFit(F)
  /\ \A e \in Range(agenda) : EventFits(e, F) /\ (e.do = "start" => WillStop(e.f))
  /\ \A f \in onAir : f \in F /\ IsSent(f) /\ f.start <= now /\ WillStop(f)
  /\ NoRivals
  /\ Beamforming => \A f \in F : f.from # BS /\ (WillStop(f) \/ Open(f)) => HasPattern(f)

AccessTyped ==
  /\ now \in Nat /\ frame \in 0..MaxFrames
  /\ stage \in {"map", "downlink", "uplink"}
  /\ scheduledDL \in Seq(Functor)
  /\ scheduledUL \in Seq(Functor)
  /\ granted \in [Subscriber -> Seq(Compound)]
  /\ agenda \in Seq(Agendum)
  /\ onAir \subseteq Functor
  /\ listening \in [Transceiver -> BOOLEAN]
  /\ DOMAIN pattern = Subscriber

\* What is left of the frame at each stage.
StageOK ==
  /\ stage \in {"map", "downlink"} => now = DLStart /\ agenda = << >> /\ onAir = {}
  /\ stage = "map" =>
       scheduledDL = << >> /\ scheduledUL = << >> /\ \A s \in Subscriber : granted[s] = << >>
  /\ stage = "uplink" => scheduledDL = << >> /\ DLStart <= now /\ now < ULStart + PhaseLength

AccessInv ==
  /\ AccessTyped
  /\ StageOK
  /\ ListensUnlessSending
  /\ \E F \in SUBSET Functor : Follows(F)

---------------------------------------------------------------------------
(* Sequences.                                                              *)

\* A sequence over C: its domain and members.
LEMMA SeqIs ==
  ASSUME NEW C, NEW q \in Seq(C)
  PROVE  /\ Len(q) \in Nat /\ DOMAIN q = 1..Len(q)
         /\ \A i \in DOMAIN q : q[i] \in C
         /\ Len(q) = 0 => q = << >>
<1>1. Len(q) \in Nat /\ DOMAIN q = 1..Len(q) /\ q \in [1..Len(q) -> C]
  OBVIOUS
<1>2. Len(q) = 0 => q = << >>
  OBVIOUS
<1> QED BY <1>1, <1>2

\* Two sequences one after the other: the members of both.
LEMMA ConcatIs ==
  ASSUME NEW C, NEW q \in Seq(C), NEW r \in Seq(C)
  PROVE  /\ q \o r \in Seq(C) /\ Len(q \o r) = Len(q) + Len(r)
         /\ \A e : e \in Range(q \o r) <=> e \in Range(q) \/ e \in Range(r)
<1>1. /\ Len(q) \in Nat /\ DOMAIN q = 1..Len(q) /\ Len(r) \in Nat /\ DOMAIN r = 1..Len(r)
  BY SeqIs
<1>2. /\ q \o r \in Seq(C) /\ Len(q \o r) = Len(q) + Len(r)
      /\ \A i \in 1..(Len(q) + Len(r)) : (q \o r)[i] = IF i <= Len(q) THEN q[i] ELSE r[i - Len(q)]
  OBVIOUS
<1>3. DOMAIN (q \o r) = 1..(Len(q) + Len(r))
  BY <1>2, SeqIs
<1>4. ASSUME NEW e PROVE e \in Range(q \o r) <=> e \in Range(q) \/ e \in Range(r)
  <2> DEFINE s == q \o r
  <2>1. /\ DOMAIN s = 1..(Len(q) + Len(r))
        /\ \A i \in 1..(Len(q) + Len(r)) : s[i] = IF i <= Len(q) THEN q[i] ELSE r[i - Len(q)]
    BY <1>2, <1>3
  <2> HIDE DEF s
  <2>2. ASSUME e \in Range(s) PROVE e \in Range(q) \/ e \in Range(r)
    <3>1. PICK i \in 1..(Len(q) + Len(r)) : s[i] = e
      BY <2>1, <2>2 DEF Range
    <3>2. CASE i <= Len(q)
      BY <1>1, <2>1, <3>1, <3>2 DEF Range
    <3>3. CASE ~(i <= Len(q))
      <4>1. i - Len(q) \in 1..Len(r) /\ e = r[i - Len(q)]
        BY <1>1, <2>1, <3>1, <3>3
      <4> QED BY <1>1, <4>1 DEF Range
    <3> QED BY <3>2, <3>3
  <2>3. ASSUME e \in Range(q) PROVE e \in Range(s)
    <3>1. PICK i \in 1..Len(q) : q[i] = e
      BY <1>1, <2>3 DEF Range
    <3>2. i \in 1..(Len(q) + Len(r)) /\ s[i] = e
      BY <1>1, <2>1, <3>1
    <3> QED BY <2>1, <3>2 DEF Range
  <2>4. ASSUME e \in Range(r) PROVE e \in Range(s)
    <3>1. PICK i \in 1..Len(r) : r[i] = e
      BY <1>1, <2>4 DEF Range
    <3>2. i + Len(q) \in 1..(Len(q) + Len(r)) /\ ~(i + Len(q) <= Len(q)) /\ (i + Len(q)) - Len(q) = i
      BY <1>1, <3>1
    <3>3. s[i + Len(q)] = e
      BY <2>1, <3>1, <3>2
    <3> QED BY <2>1, <3>2, <3>3 DEF Range
  <2> QED BY <2>2, <2>3, <2>4 DEF s
<1> QED BY <1>2, <1>4

\* An event that is taken out leaves all others where they are.
LEMMA RemoveAtIs ==
  ASSUME NEW C, NEW q \in Seq(C), NEW i \in DOMAIN q
  PROVE  /\ RemoveAt(q, i) \in Seq(C)
         /\ Range(RemoveAt(q, i)) \subseteq Range(q)
         /\ \A e \in Range(q) : e # q[i] => e \in Range(RemoveAt(q, i))
<1>1. Len(q) \in Nat /\ DOMAIN q = 1..Len(q) /\ i \in 1..Len(q) /\ \A j \in 1..Len(q) : q[j] \in C
  BY SeqIs
<1> DEFINE a == SubSeq(q, 1, i - 1)
           b == SubSeq(q, i + 1, Len(q))
<1>2. /\ a \in Seq(C) /\ Len(a) = i - 1 /\ \A j \in 1..(i - 1) : a[j] = q[j]
  BY <1>1
<1>3. /\ b \in Seq(C) /\ Len(b) = Len(q) - i /\ \A j \in 1..(Len(q) - i) : b[j] = q[i + j]
  <2>1. b \in Seq(C)
    <3>1. \A j \in (i + 1)..Len(q) : q[j] \in C
      BY <1>1
    <3> QED BY <1>1, <3>1
  <2>2. Len(b) = Len(q) - i
    BY <1>1
  <2>3. \A j \in 1..(Len(q) - i) : b[j] = q[(i + 1) + j - 1] /\ (i + 1) + j - 1 = i + j
    BY <1>1
  <2> HIDE DEF b
  <2> QED BY <2>1, <2>2, <2>3
<1>4. DOMAIN a = 1..(i - 1) /\ DOMAIN b = 1..(Len(q) - i)
  BY <1>2, <1>3, SeqIs
<1>5. RemoveAt(q, i) = a \o b
  BY DEF RemoveAt
<1> HIDE DEF a, b
<1>6. RemoveAt(q, i) \in Seq(C) /\ \A e : e \in Range(RemoveAt(q, i)) <=> e \in Range(a) \/ e \in Range(b)
  BY <1>2, <1>3, <1>5, ConcatIs
<1>7. Range(a) \subseteq Range(q) /\ Range(b) \subseteq Range(q)
  <2>1. \A j \in 1..(i - 1) : j \in 1..Len(q)
    BY <1>1
  <2>2. \A j \in 1..(Len(q) - i) : i + j \in 1..Len(q)
    BY <1>1
  <2> QED BY <1>1, <1>2, <1>3, <1>4, <2>1, <2>2 DEF Range
<1>8. ASSUME NEW e \in Range(q), e # q[i] PROVE e \in Range(a) \/ e \in Range(b)
  <2>1. PICK j \in 1..Len(q) : q[j] = e
    BY <1>1 DEF Range
  <2>2. CASE j < i
    <3>1. j \in 1..(i - 1)
      BY <1>1, <2>2
    <3> QED BY <1>2, <1>4, <2>1, <3>1 DEF Range
  <2>3. CASE j > i
    <3>1. j - i \in 1..(Len(q) - i) /\ i + (j - i) = j
      BY <1>1, <2>3
    <3> QED BY <1>3, <1>4, <2>1, <3>1 DEF Range
  <2> QED BY <1>1, <1>8, <2>1, <2>2, <2>3
<1> QED BY <1>6, <1>7, <1>8

\* Every set of natural numbers but the empty one has a least element.
LEMMA LeastExists ==
  ASSUME NEW T \in SUBSET Nat, T # {}
  PROVE  \E x \in T : \A y \in T : x <= y
<1> DEFINE U == {0..n : n \in T}
           R == StrictSubsetOrdering(Nat)
<1>1. U \subseteq FiniteSubsetsOf(Nat) /\ U # {}
  <2>1. \A n \in T : 0..n \subseteq Nat /\ IsFiniteSet(0..n)
    BY FS_Interval
  <2> QED BY <2>1 DEF FiniteSubsetsOf
<1>2. PICK I \in U : \A J \in U : ~ (<<J, I>> \in R)
  <2> HIDE DEF U, R
  <2>1. IsWellFoundedOn(R, FiniteSubsetsOf(Nat))
    BY FS_StrictSubsetOrderingWellFounded DEF R
  <2> QED BY <1>1, <2>1, WFMin
<1>3. PICK x \in T : I = 0..x
  OBVIOUS
<1>4. ASSUME NEW y \in T, y < x PROVE FALSE
  <2>1. 0..y \in U /\ 0..y \subseteq 0..x /\ 0..y # 0..x
    <3>1. x \in 0..x /\ x \notin 0..y
      BY <1>4
    <3> QED BY <1>4, <3>1
  <2>2. 0..x \in SUBSET Nat /\ 0..y \in SUBSET Nat
    OBVIOUS
  <2> QED BY <1>2, <1>3, <2>1, <2>2 DEF StrictSubsetOrdering
<1> QED BY <1>4

\* The recursion FlattenSeq is defined by has a solution on every prefix.
FlatStep(q, f, n) == IF n = 1 THEN q[n] ELSE f[n - 1] \o q[n]

\* By the least number for which there would be none.
LEMMA FlatExists ==
  ASSUME NEW q, NEW n \in Nat
  PROVE  \E f : f = [m \in 1..n |-> FlatStep(q, f, m)]
<1> DEFINE Solved(m) == \E f : f = [l \in 1..m |-> FlatStep(q, f, l)]
           T == {m \in Nat : ~ Solved(m)}
<1> SUFFICES T = {}
  OBVIOUS
<1> SUFFICES ASSUME T # {} PROVE FALSE
  OBVIOUS
<1>1. PICK x \in T : \A y \in T : x <= y
  <2> HIDE DEF T
  <2>1. T \subseteq Nat
    BY DEF T
  <2> QED BY <2>1, LeastExists
<1>2. CASE x = 0
  <2> DEFINE f == [l \in 1..0 |-> <<>>]
  <2>1. f = [l \in 1..0 |-> FlatStep(q, f, l)]
    OBVIOUS
  <2>2. Solved(0)
    BY <2>1
  <2> QED BY <1>2, <2>2
<1>3. CASE x # 0
  <2>1. x \in Nat /\ x - 1 \in Nat /\ ~ (x <= x - 1) /\ x \in 1..x
    BY <1>3
  <2>2. Solved(x - 1)
    BY <1>1, <2>1
  <2>3. PICK f : f = [l \in 1..(x - 1) |-> FlatStep(q, f, l)]
    BY <2>2
  <2> DEFINE g == [l \in 1..x |-> IF l = x THEN FlatStep(q, f, x) ELSE f[l]]
  <2>4. \A l \in 1..x : l # x => l \in 1..(x - 1)
    BY <2>1
  <2>5. \A l \in 1..x : l # 1 => l - 1 \in 1..x /\ l - 1 # x /\ g[l - 1] = f[l - 1]
    BY <2>1
  <2>6. ASSUME NEW l \in 1..x PROVE g[l] = FlatStep(q, g, l)
    <3>1. FlatStep(q, g, l) = FlatStep(q, f, l)
      BY <2>5 DEF FlatStep
    <3>2. l # x => f[l] = FlatStep(q, f, l)
      BY <2>3, <2>4
    <3> QED BY <3>1, <3>2
  <2>7. g = [l \in 1..x |-> FlatStep(q, g, l)]
    BY <2>6
  <2> HIDE DEF g
  <2>8. Solved(x)
    BY <2>7
  <2> QED BY <2>8
<1> QED BY <1>2, <1>3

\* FlattenSeq keeps the members of all sequences, and nothing else.
LEMMA FlattenIs ==
  ASSUME NEW C, NEW q \in Seq(Seq(C))
  PROVE  /\ FlattenSeq(q) \in Seq(C)
         /\ \A e : e \in Range(FlattenSeq(q)) <=> \E i \in DOMAIN q : e \in Range(q[i])
<1>1. /\ Len(q) \in Nat /\ DOMAIN q = 1..Len(q) /\ \A i \in 1..Len(q) : q[i] \in Seq(C)
      /\ Len(q) = 0 => q = << >>
  BY SeqIs
<1>2. CASE Len(q) = 0
  <2>1. FlattenSeq(q) = << >> /\ DOMAIN q = {}
    BY <1>1, <1>2 DEF FlattenSeq
  <2>2. Range(<< >>) = {} /\ << >> \in Seq(C)
    BY DEF Range
  <2> QED BY <2>1, <2>2
<1>3. CASE Len(q) # 0
  <2> DEFINE at == CHOOSE f : f = [m \in 1..Len(q) |-> IF m = 1 THEN q[m] ELSE f[m - 1] \o q[m]]
  <2>1. FlattenSeq(q) = at[Len(q)]
    BY <1>3 DEF FlattenSeq
  <2>2. at = [m \in 1..Len(q) |-> IF m = 1 THEN q[m] ELSE at[m - 1] \o q[m]]
    <3>1. PICK f : f = [m \in 1..Len(q) |-> FlatStep(q, f, m)]
      BY <1>1, FlatExists
    <3>2. f = [m \in 1..Len(q) |-> IF m = 1 THEN q[m] ELSE f[m - 1] \o q[m]]
      BY <3>1 DEF FlatStep
    <3> QED BY <3>2
  <2> HIDE DEF at
  <2> DEFINE Good(m) == /\ at[m] \in Seq(C)
                        /\ \A e : e \in Range(at[m]) <=> \E i \in 1..m : e \in Range(q[i])
             T == {m \in 1..Len(q) : ~ Good(m)}
  <2>3. T = {}
    <3> SUFFICES ASSUME T # {} PROVE FALSE
      OBVIOUS
    <3>1. PICK x \in T : \A y \in T : x <= y
      <4> HIDE DEF T
      <4>1. T \subseteq Nat
        BY <1>1 DEF T
      <4> QED BY <4>1, LeastExists
    <3>2. x \in 1..Len(q) /\ x \in Nat /\ ~Good(x)
      BY <1>1
    <3>3. CASE x = 1
      <4>1. at[1] = q[1] /\ \A i \in 1..1 : i = 1
        BY <2>2, <3>2, <3>3
      <4>2. Good(1)
        BY <1>1, <3>2, <3>3, <4>1
      <4> QED BY <3>2, <3>3, <4>2
    <3>4. CASE x # 1
      <4>1. x - 1 \in 1..Len(q) /\ ~(x <= x - 1)
        BY <1>1, <3>2, <3>4
      <4>2. Good(x - 1)
        BY <3>1, <4>1
      <4>3. at[x] = at[x - 1] \o q[x]
        BY <2>2, <3>2, <3>4
      <4>4. q[x] \in Seq(C)
        BY <1>1, <3>2
      <4>5. \A i : i \in 1..x <=> i \in 1..(x - 1) \/ i = x
        BY <3>2, <3>4
      <4>6. Good(x)
        <5>1. /\ at[x - 1] \in Seq(C)
              /\ \A e : e \in Range(at[x - 1]) <=> \E i \in 1..(x - 1) : e \in Range(q[i])
          BY <4>2
        <5> DEFINE a == at[x - 1]
                   b == q[x]
        <5>2. /\ a \o b \in Seq(C)
              /\ \A e : e \in Range(a \o b) <=> e \in Range(a) \/ e \in Range(b)
          <6> HIDE DEF a, b
          <6>1. a \in Seq(C) /\ b \in Seq(C)
            BY <5>1, <4>4 DEF a, b
          <6> QED BY <6>1, ConcatIs
        <5> QED BY <4>3, <4>5, <5>1, <5>2
      <4> QED BY <3>2, <4>6
    <3> QED BY <3>3, <3>4
  <2>4. Len(q) \in 1..Len(q)
    BY <1>1, <1>3
  <2>5. Good(Len(q))
    BY <2>3, <2>4
  <2> DEFINE r == at[Len(q)]
  <2>6. r \in Seq(C) /\ \A e : e \in Range(r) <=> \E i \in 1..Len(q) : e \in Range(q[i])
    BY <2>5
  <2>7. FlattenSeq(q) = r
    BY <2>1
  <2> HIDE DEF r, T, Good
  <2>8. DOMAIN q = 1..Len(q)
    BY <1>1
  <2> QED BY <2>6, <2>7, <2>8
<1> QED BY <1>2, <1>3

\* What g has for the numbers in P, in sequences of one.
Picked(n, P, g) == [i \in 1..n |-> IF i \in P THEN <<g[i]>> ELSE << >>]

PicksOf(D, P, g) == \A i \in P : g[i] \in D

\* q is a sequence over D of what g has for the numbers in P.
HoldsPicks(q, D, P, g) == q \in Seq(D) /\ \A e : e \in Range(q) <=> \E i \in P : e = g[i]

LEMMA PickedIs ==
  ASSUME NEW D, NEW n \in Nat, NEW P \in SUBSET (1..n), NEW g, PicksOf(D, P, g)
  PROVE  HoldsPicks(FlattenSeq(Picked(n, P, g)), D, P, g)
<1> USE DEF PicksOf
<1> DEFINE all == Picked(n, P, g)
<1>0. all = [i \in 1..n |-> IF i \in P THEN <<g[i]>> ELSE << >>]
  BY DEF Picked
<1> HIDE DEF all
<1>1. \A i \in 1..n : /\ all[i] \in Seq(D)
                      /\ \A e : e \in Range(all[i]) <=> i \in P /\ e = g[i]
  <2> SUFFICES ASSUME NEW i \in 1..n
               PROVE  all[i] \in Seq(D) /\ \A e : e \in Range(all[i]) <=> i \in P /\ e = g[i]
    OBVIOUS
  <2>1. CASE i \in P
    <3> DEFINE x == g[i]
    <3>1. x \in D /\ all[i] = <<x>>
      BY <1>0, <2>1
    <3> HIDE DEF x
    <3>2. <<x>> \in Seq(D) /\ Range(<<x>>) = {x}
      BY <3>1 DEF Range
    <3> QED BY <2>1, <3>1, <3>2 DEF x
  <2>2. CASE i \notin P
    <3>1. all[i] = << >>
      BY <1>0, <2>2
    <3>2. << >> \in Seq(D) /\ Range(<< >>) = {}
      BY DEF Range
    <3> QED BY <2>2, <3>1, <3>2
  <2> QED BY <2>1, <2>2
<1>2. DOMAIN all = 1..n /\ all \in [1..n -> Seq(D)]
  BY <1>0, <1>1
<1>3. all \in Seq(Seq(D))
  BY <1>2
<1>4. /\ FlattenSeq(all) \in Seq(D)
      /\ \A e : e \in Range(FlattenSeq(all)) <=> \E i \in DOMAIN all : e \in Range(all[i])
  BY <1>3, FlattenIs
<1> QED BY <1>1, <1>2, <1>4 DEF all, HoldsPicks

---------------------------------------------------------------------------
(* What a map plans.                                                       *)

\* The ticks of a burst: it starts before it stops, and stops before the end
\* of what it was given.
EndTime(c) == c.burst[2] + SlotOffset(c)

\* The times of both directions.
LEMMA CompoundTimes ==
  ASSUME NEW c \in Compound
  PROVE  /\ StartTime(c) \in Nat /\ EndTime(c) \in Nat /\ EndTime(c) <= PhaseLength
         /\ DLStop(c) \in Nat /\ StartTime(c) < DLStop(c) /\ DLStop(c) < EndTime(c)
         /\ ULStop(c) \in Nat /\ StartTime(c) < ULStop(c) /\ ULStop(c) < EndTime(c)
         /\ c.slot \in 0..(Slots - 1) /\ c.layer \in 0..(Layers - 1)
         /\ c.user \in Transceiver \cup {Everyone}
<1>1. /\ c.slot \in 0..(Slots - 1) /\ c.layer \in 0..(Layers - 1) /\ c.burst \in Burst
      /\ c.user \in Transceiver \cup {Everyone}
  BY DEF Compound
<1>2. Slots \in Nat \ {0} /\ SlotLength \in Nat \ {0}
  BY AccessAssumption
<1>3. /\ c.burst \in (0..SlotLength) \X (0..SlotLength) \X (0..SlotLength)
      /\ 1 < c.burst[3] /\ c.burst[1] + c.burst[3] <= c.burst[2]
  BY <1>1, AccessAssumption
<1>4. c.burst[1] \in 0..SlotLength /\ c.burst[2] \in 0..SlotLength /\ c.burst[3] \in 0..SlotLength
  BY <1>3
<1> DEFINE k == c.slot
           L == SlotLength
           x == k * L
<1>5. k \in Nat /\ L \in Nat /\ k + 1 <= Slots
  BY <1>1, <1>2
<1>6. x \in Nat /\ x + L <= Slots * L /\ Slots * L \in Nat
  <2> HIDE DEF k, L, x
  <2>1. \A a, b, n \in Nat : a <= b => a * n <= b * n
    OBVIOUS
  <2>2. k * L \in Nat /\ Slots * L \in Nat
    BY <1>2, <1>5
  <2>3. (k + 1) * L <= Slots * L
    BY <1>2, <1>5, <2>1
  <2>4. (k + 1) * L = k * L + L
    BY <1>5
  <2> QED BY <1>5, <2>2, <2>3, <2>4 DEF x
<1>7. SlotOffset(c) = x /\ PhaseLength = Slots * L
  BY DEF SlotOffset, PhaseLength
<1> HIDE DEF x, L, k
<1>8. /\ StartTime(c) = c.burst[1] + x /\ EndTime(c) = c.burst[2] + x
      /\ DLStop(c) = c.burst[1] + x + c.burst[3] - 1 /\ ULStop(c) = c.burst[2] + x - 1
  BY <1>7 DEF StartTime, EndTime, DLStop, ULStop, Accuracy
<1> QED BY <1>1, <1>2, <1>3, <1>4, <1>6, <1>7, <1>8 DEF L

\* Of two bursts of a map one ends before the other starts, or they are in two
\* beams of one slot.
Ordered(c, d) ==
  EndTime(c) <= StartTime(d) \/ EndTime(d) <= StartTime(c) \/ (c.slot = d.slot /\ c.layer # d.layer)

LEMMA BeforeIs ==
  ASSUME NEW c \in Compound, NEW d \in Compound, Before(c, d)
  PROVE  EndTime(c) <= StartTime(d) \/ (c.slot = d.slot /\ c.layer # d.layer)
<1>1. /\ c.slot \in 0..(Slots - 1) /\ c.burst \in Burst /\ c.layer \in 0..(Layers - 1)
      /\ d.slot \in 0..(Slots - 1) /\ d.burst \in Burst /\ d.layer \in 0..(Layers - 1)
  BY DEF Compound
<1>2. Slots \in Nat \ {0} /\ SlotLength \in Nat \ {0} /\ Layers \in Nat \ {0}
  BY AccessAssumption
<1>3. /\ c.burst \in (0..SlotLength) \X (0..SlotLength) \X (0..SlotLength)
      /\ d.burst \in (0..SlotLength) \X (0..SlotLength) \X (0..SlotLength)
  BY <1>1, AccessAssumption
<1>4. c.burst[2] \in 0..SlotLength /\ d.burst[1] \in 0..SlotLength
  BY <1>3
<1> DEFINE k == c.slot
           l == d.slot
           L == SlotLength
           x == k * L
           y == l * L
<1>5. k \in Nat /\ l \in Nat /\ L \in Nat
  BY <1>1, <1>2
<1>6. x \in Nat /\ y \in Nat /\ (k < l => x + L <= y)
  <2> HIDE DEF k, l, L, x, y
  <2>1. \A a, b, n \in Nat : a <= b => a * n <= b * n
    OBVIOUS
  <2>2. k * L \in Nat /\ l * L \in Nat
    BY <1>5
  <2>3. k < l => (k + 1) * L <= l * L
    BY <1>5, <2>1
  <2>4. (k + 1) * L = k * L + L
    BY <1>5
  <2> QED BY <1>5, <2>2, <2>3, <2>4 DEF x, y
<1>7. /\ EndTime(c) = c.burst[2] + x /\ StartTime(d) = d.burst[1] + y
      /\ k = l => x = y
  BY DEF EndTime, StartTime, SlotOffset
<1>8. k < l \/ (k = l /\ c.burst[2] <= d.burst[1]) \/ (c.slot = d.slot /\ c.layer # d.layer)
  BY <1>1, <1>2 DEF Before
<1> HIDE DEF x, y, k, l
<1> QED BY <1>2, <1>4, <1>5, <1>6, <1>7, <1>8

\* A map is a sequence of compounds for the given users, in order, with patterns
\* for all but broadcasts when there are beams.
LEMMA MapIs ==
  ASSUME NEW U, NEW map \in Map(U)
  PROVE  /\ Len(map) \in Nat /\ DOMAIN map = 1..Len(map)
         /\ \A i \in DOMAIN map : /\ map[i] \in Compound /\ map[i].user \in U
                                  /\ map[i].pattern = (Beamforming /\ map[i].user # Everyone)
         /\ \A i, j \in DOMAIN map : i # j => Ordered(map[i], map[j])
<1> DEFINE C == {c \in Compound : /\ c.user \in U
                                  /\ c.pattern = (Beamforming /\ c.user # Everyone)}
<1>1. map \in BoundedSeq(C, MaxBursts)
  BY DEF Map
<1>2. PICK m \in 0..MaxBursts : map \in [1..m -> C]
  BY <1>1 DEF BoundedSeq, SeqOf
<1>3. m \in Nat
  BY AccessAssumption
<1>4. map \in Seq(C)
  BY <1>2, <1>3
<1>5. Len(map) \in Nat /\ DOMAIN map = 1..Len(map) /\ \A i \in DOMAIN map : map[i] \in C
  BY <1>4, SeqIs
<1>6. \A i, j \in DOMAIN map : i < j => Before(map[i], map[j])
  BY DEF Map
<1>7. \A i, j \in DOMAIN map : i < j =>
        EndTime(map[i]) <= StartTime(map[j]) \/ (map[i].slot = map[j].slot /\ map[i].layer # map[j].layer)
  BY <1>5, <1>6, BeforeIs
<1>8. \A i, j \in DOMAIN map : i # j => Ordered(map[i], map[j])
  <2> TAKE i, j \in DOMAIN map
  <2>1. i # j => i < j \/ j < i
    BY <1>5
  <2> QED BY <1>7, <2>1 DEF Ordered
<1> QED BY <1>5, <1>8

\* In the uplink the grants of one user are one after another.
LEMMA UplinkMapIs ==
  ASSUME NEW ul \in UplinkMap
  PROVE  /\ Len(ul) \in Nat /\ DOMAIN ul = 1..Len(ul)
         /\ \A i \in DOMAIN ul : /\ ul[i] \in Compound /\ ul[i].user \in Subscriber
                                 /\ ul[i].pattern = Beamforming
         /\ \A i, j \in DOMAIN ul : i # j => Ordered(ul[i], ul[j])
         /\ \A i, j \in DOMAIN ul : i # j /\ ul[i].user = ul[j].user =>
              EndTime(ul[i]) <= StartTime(ul[j]) \/ EndTime(ul[j]) <= StartTime(ul[i])
<1>1. ul \in Map(Subscriber)
  BY DEF UplinkMap
<1>2. /\ Len(ul) \in Nat /\ DOMAIN ul = 1..Len(ul)
      /\ \A i \in DOMAIN ul : /\ ul[i] \in Compound /\ ul[i].user \in Subscriber
                              /\ ul[i].pattern = (Beamforming /\ ul[i].user # Everyone)
      /\ \A i, j \in DOMAIN ul : i # j => Ordered(ul[i], ul[j])
  BY <1>1, MapIs
<1>3. \A i \in DOMAIN ul : ul[i].pattern = Beamforming
  <2>1. Everyone \notin Subscriber /\ Beamforming \in BOOLEAN
    BY AccessAssumption DEF Transceiver
  <2> QED BY <1>2, <2>1
<1>4. \A i, j \in DOMAIN ul :
        ul[i].user = ul[j].user /\ ul[i].slot = ul[j].slot => ul[i].layer = ul[j].layer
  BY DEF UplinkMap
<1> QED BY <1>2, <1>3, <1>4 DEF Ordered

\* What a slave puts into a grant starts with the grant and ends within it.
LEMMA AnswerIs ==
  ASSUME NEW c \in Compound, NEW b \in Filling(c)
  PROVE  /\ Answer(c, b) \in Compound /\ Answer(c, b).user = BS /\ ~Answer(c, b).pattern
         /\ Answer(c, b).slot = c.slot /\ Answer(c, b).layer = c.layer
         /\ StartTime(Answer(c, b)) = StartTime(c) /\ EndTime(Answer(c, b)) <= EndTime(c)
<1>1. /\ c.slot \in 0..(Slots - 1) /\ c.layer \in 0..(Layers - 1) /\ c.burst \in Burst
      /\ b \in Burst /\ b[1] = c.burst[1] /\ b[2] <= c.burst[2]
  BY DEF Compound, Filling
<1>2. Answer(c, b) = [slot |-> c.slot, layer |-> c.layer, burst |-> b, user |-> BS, pattern |-> FALSE]
  BY DEF Answer
<1>3. Answer(c, b) \in Compound
  BY <1>1, <1>2 DEF Compound, Transceiver
<1>4. SlotOffset(Answer(c, b)) = SlotOffset(c) /\ Answer(c, b).burst = b
  BY <1>2 DEF SlotOffset
<1>5. StartTime(Answer(c, b)) = StartTime(c)
  BY <1>1, <1>4 DEF StartTime
<1> DEFINE x == SlotOffset(c)
           L == SlotLength
<1>6. x \in Nat /\ L \in Nat
  <2>1. \A m, n \in Nat : m * n \in Nat
    OBVIOUS
  <2>2. c.slot \in Nat /\ L \in Nat
    BY <1>1, AccessAssumption
  <2> HIDE DEF L
  <2> QED BY <2>1, <2>2 DEF SlotOffset, L
<1>7. EndTime(Answer(c, b)) = b[2] + x /\ EndTime(c) = c.burst[2] + x
  BY <1>4 DEF EndTime
<1>8. b[2] \in 0..L /\ c.burst[2] \in 0..L
  <2>1. b \in (0..L) \X (0..L) \X (0..L) /\ c.burst \in (0..L) \X (0..L) \X (0..L)
    BY <1>1, AccessAssumption
  <2> QED BY <2>1
<1> HIDE DEF x, L
<1>9. EndTime(Answer(c, b)) <= EndTime(c)
  BY <1>1, <1>6, <1>7, <1>8
<1> QED BY <1>2, <1>3, <1>5, <1>9

\* A functor that is moved has other times and nothing else.
LEMMA MovedIs ==
  ASSUME NEW f \in Functor, NEW t \in Nat
  PROVE  /\ Moved(f, t) \in Functor /\ Moved(f, t).from = f.from /\ Moved(f, t).to = f.to
         /\ Moved(f, t).kind = f.kind
         /\ Moved(f, t).slot = f.slot /\ Moved(f, t).layer = f.layer
         /\ Moved(f, t).start = t + f.start /\ Moved(f, t).stop = t + f.stop
<1>1. /\ f.kind \in {"broadcast", "unicast", "beam", "pattern"} /\ f.from \in Transceiver
      /\ f.to \in Transceiver \cup {Everyone}
      /\ f.slot \in 0..(Slots - 1) /\ f.layer \in 0..(Layers - 1)
      /\ f.start \in Nat /\ f.stop \in Nat
  BY DEF Functor
<1> DEFINE a == f.start + t
           b == f.stop + t
<1>2. a \in Nat /\ b \in Nat /\ a = t + f.start /\ b = t + f.stop
  BY <1>1
<1>3. Moved(f, t) = [f EXCEPT !.start = a, !.stop = b]
  BY DEF Moved
<1> HIDE DEF a, b
<1>4. Moved(f, t) = [kind |-> f.kind, from |-> f.from, to |-> f.to,
                     start |-> a, stop |-> b, slot |-> f.slot, layer |-> f.layer]
  BY <1>3 DEF Functor
<1>5. Moved(f, t) \in Functor
  BY <1>1, <1>2, <1>4 DEF Functor
<1> QED BY <1>2, <1>4, <1>5

\* Functors of compounds, and where they are once they are moved.
LEMMA FunctorsAre ==
  ASSUME NEW c \in Compound, NEW t \in Nat
  PROVE  /\ DLFunctor(c) \in Functor /\ Moved(DLFunctor(c), t) \in Functor
         /\ Moved(DLFunctor(c), t).from = BS /\ Moved(DLFunctor(c), t).to = c.user
         /\ IsSent(Moved(DLFunctor(c), t))
         /\ Moved(DLFunctor(c), t).slot = c.slot /\ Moved(DLFunctor(c), t).layer = c.layer
         /\ Moved(DLFunctor(c), t).start = t + StartTime(c)
         /\ Moved(DLFunctor(c), t).stop = t + DLStop(c)
         /\ \A s \in Transceiver :
              /\ ULFunctor(c, s) \in Functor /\ Moved(ULFunctor(c, s), t) \in Functor
              /\ Moved(ULFunctor(c, s), t).from = s /\ Moved(ULFunctor(c, s), t).to = c.user
              /\ IsSent(Moved(ULFunctor(c, s), t)) <=> ~c.pattern
              /\ Moved(ULFunctor(c, s), t).slot = c.slot /\ Moved(ULFunctor(c, s), t).layer = c.layer
              /\ Moved(ULFunctor(c, s), t).start = t + StartTime(c)
              /\ Moved(ULFunctor(c, s), t).stop = t + ULStop(c)
<1>1. /\ StartTime(c) \in Nat /\ DLStop(c) \in Nat /\ ULStop(c) \in Nat
      /\ c.slot \in 0..(Slots - 1) /\ c.layer \in 0..(Layers - 1)
      /\ c.user \in Transceiver \cup {Everyone}
  BY CompoundTimes
<1>2. BS \in Transceiver /\ c.pattern \in BOOLEAN
  BY DEF Transceiver, Compound
<1>3. DLFunctor(c) \in Functor
  BY <1>1, <1>2 DEF DLFunctor, Functor
<1>4. \A s \in Transceiver : ULFunctor(c, s) \in Functor
  BY <1>1, <1>2 DEF ULFunctor, Functor
<1>5. \A f \in Functor :
        /\ Moved(f, t) \in Functor /\ Moved(f, t).from = f.from /\ Moved(f, t).to = f.to
        /\ Moved(f, t).kind = f.kind
        /\ Moved(f, t).slot = f.slot /\ Moved(f, t).layer = f.layer
        /\ Moved(f, t).start = t + f.start /\ Moved(f, t).stop = t + f.stop
  BY MovedIs
<1>6. /\ DLFunctor(c).from = BS /\ DLFunctor(c).to = c.user /\ DLFunctor(c).kind # "pattern"
      /\ DLFunctor(c).slot = c.slot /\ DLFunctor(c).layer = c.layer
      /\ DLFunctor(c).start = StartTime(c) /\ DLFunctor(c).stop = DLStop(c)
  BY DEF DLFunctor
<1>7. \A s : /\ ULFunctor(c, s).from = s /\ ULFunctor(c, s).to = c.user
             /\ ULFunctor(c, s).kind # "pattern" <=> ~c.pattern
             /\ ULFunctor(c, s).slot = c.slot /\ ULFunctor(c, s).layer = c.layer
             /\ ULFunctor(c, s).start = StartTime(c) /\ ULFunctor(c, s).stop = ULStop(c)
  BY <1>2 DEF ULFunctor
<1>8. /\ Moved(DLFunctor(c), t) \in Functor
      /\ Moved(DLFunctor(c), t).from = BS /\ Moved(DLFunctor(c), t).to = c.user
      /\ IsSent(Moved(DLFunctor(c), t))
      /\ Moved(DLFunctor(c), t).slot = c.slot /\ Moved(DLFunctor(c), t).layer = c.layer
      /\ Moved(DLFunctor(c), t).start = t + StartTime(c)
      /\ Moved(DLFunctor(c), t).stop = t + DLStop(c)
  BY <1>3, <1>5, <1>6 DEF IsSent
<1>9. ASSUME NEW s \in Transceiver
      PROVE  /\ Moved(ULFunctor(c, s), t) \in Functor
             /\ Moved(ULFunctor(c, s), t).from = s /\ Moved(ULFunctor(c, s), t).to = c.user
             /\ IsSent(Moved(ULFunctor(c, s), t)) <=> ~c.pattern
             /\ Moved(ULFunctor(c, s), t).slot = c.slot /\ Moved(ULFunctor(c, s), t).layer = c.layer
             /\ Moved(ULFunctor(c, s), t).start = t + StartTime(c)
             /\ Moved(ULFunctor(c, s), t).stop = t + ULStop(c)
  BY <1>4, <1>5, <1>7 DEF IsSent
<1> QED BY <1>3, <1>4, <1>8, <1>9

\* The functors of a downlink and of an uplink map, in this frame: the patterns
\* of the base station and whatever the subscribers may answer.
FromDL(f, dl) == \E i \in DOMAIN dl : f = Moved(DLFunctor(dl[i]), DLStart)

IsPattern(f, ul) ==
  Beamforming /\ \E i \in DOMAIN ul : f = Moved(ULFunctor(ul[i], BS), ULStart)

IsReply(f, ul) ==
  \E i \in DOMAIN ul : \E b \in Filling(ul[i]) : f = Reply(ul[i], b, ul[i].user)

\* The plan that two maps make.
Plan(dl, ul) == {f \in Functor : FromDL(f, dl) \/ IsPattern(f, ul) \/ IsReply(f, ul)}

\* The times of a frame.
LEMMA FrameTimes ==
  ASSUME frame \in Nat
  PROVE  /\ DLStart \in Nat /\ ULStart \in Nat /\ PhaseLength \in Nat \ {0}
         /\ ULStart = DLStart + PhaseLength
<1> DEFINE L == PhaseLength
<1>1. L \in Nat \ {0}
  <2>1. Slots \in Nat \ {0} /\ SlotLength \in Nat \ {0}
    BY AccessAssumption
  <2>2. \A a, b \in Nat \ {0} : a * b \in Nat \ {0}
    OBVIOUS
  <2> QED BY <2>1, <2>2 DEF PhaseLength
<1>2. 2 * L \in Nat
  BY <1>1
<1>3. 2 * L * frame \in Nat
  <2>1. \A a, b \in Nat : a * b \in Nat
    OBVIOUS
  <2> HIDE DEF L
  <2> QED BY <1>2, <2>1
<1> QED BY <1>1, <1>3 DEF DLStart, ULStart

\* The burst that fills a grant.
LEMMA ReplyIs ==
  ASSUME frame \in Nat, NEW c \in Compound, NEW b \in Filling(c), NEW s \in Subscriber
  PROVE  /\ Reply(c, b, s) \in Functor /\ Reply(c, b, s).from = s /\ Reply(c, b, s).to = BS
         /\ ULFunctor(Answer(c, b), s) \in Functor
         /\ IsSent(Reply(c, b, s))
         /\ Reply(c, b, s).slot = c.slot /\ Reply(c, b, s).layer = c.layer
         /\ Reply(c, b, s).start = ULStart + StartTime(c)
         /\ Reply(c, b, s).start < Reply(c, b, s).stop
         /\ Reply(c, b, s).stop < ULStart + EndTime(c)
<1> DEFINE a == Answer(c, b)
           U == ULStart
<1>1. /\ a \in Compound /\ a.user = BS /\ ~a.pattern /\ a.slot = c.slot /\ a.layer = c.layer
      /\ StartTime(a) = StartTime(c) /\ EndTime(a) <= EndTime(c)
  BY AnswerIs
<1>2. U \in Nat /\ s \in Transceiver
  BY FrameTimes DEF Transceiver
<1> HIDE DEF a, U
<1>3. /\ ULFunctor(a, s) \in Functor /\ Moved(ULFunctor(a, s), U) \in Functor
      /\ Moved(ULFunctor(a, s), U).from = s /\ Moved(ULFunctor(a, s), U).to = a.user
      /\ IsSent(Moved(ULFunctor(a, s), U)) <=> ~a.pattern
      /\ Moved(ULFunctor(a, s), U).slot = a.slot /\ Moved(ULFunctor(a, s), U).layer = a.layer
      /\ Moved(ULFunctor(a, s), U).start = U + StartTime(a)
      /\ Moved(ULFunctor(a, s), U).stop = U + ULStop(a)
  BY <1>1, <1>2, FunctorsAre
<1>4. /\ StartTime(a) \in Nat /\ ULStop(a) \in Nat /\ StartTime(a) < ULStop(a)
      /\ ULStop(a) < EndTime(a) /\ EndTime(a) \in Nat /\ EndTime(c) \in Nat
  BY <1>1, CompoundTimes
<1>5. Reply(c, b, s) = Moved(ULFunctor(a, s), U)
  BY DEF Reply, a, U
<1>6. U + StartTime(a) < U + ULStop(a) /\ U + ULStop(a) < U + EndTime(c)
  BY <1>1, <1>2, <1>4
<1> QED BY <1>1, <1>3, <1>5, <1>6 DEF a, U

\* The two maps of a frame make a plan.
LEMMA PlanIsGood ==
  ASSUME frame \in Nat, NEW dl \in DownlinkMap, NEW ul \in UplinkMap
  PROVE  GoodPlan(Plan(dl, ul))
<1> DEFINE D == DLStart
           U == ULStart
<1>1. D \in Nat /\ U \in Nat /\ PhaseLength \in Nat /\ U = D + PhaseLength
  BY FrameTimes
<1>2. BS \in Transceiver /\ Subscriber \subseteq Transceiver /\ BS \notin Subscriber /\ BS # Everyone
  BY AccessAssumption DEF Transceiver
<1>3. /\ DOMAIN dl = 1..Len(dl) /\ DOMAIN ul = 1..Len(ul)
      /\ \A i \in DOMAIN dl : dl[i] \in Compound /\ dl[i].user \in Subscriber \cup {Everyone}
      /\ \A i \in DOMAIN ul : /\ ul[i] \in Compound /\ ul[i].user \in Subscriber
                              /\ ul[i].pattern = Beamforming
      /\ \A i, j \in DOMAIN dl : i # j => Ordered(dl[i], dl[j])
      /\ \A i, j \in DOMAIN ul : i # j => Ordered(ul[i], ul[j])
      /\ \A i, j \in DOMAIN ul : i # j /\ ul[i].user = ul[j].user =>
           EndTime(ul[i]) <= StartTime(ul[j]) \/ EndTime(ul[j]) <= StartTime(ul[i])
  BY MapIs, UplinkMapIs DEF DownlinkMap
<1>4. ASSUME NEW f, NEW i \in DOMAIN dl, f = Moved(DLFunctor(dl[i]), D)
      PROVE  /\ f \in Functor /\ f.from = BS /\ IsSent(f) /\ f.to \in Subscriber \cup {Everyone}
             /\ f.slot = dl[i].slot /\ f.layer = dl[i].layer
             /\ f.start = D + StartTime(dl[i])
             /\ f.start < f.stop /\ f.stop < D + EndTime(dl[i])
             /\ D <= f.start /\ f.stop < U /\ f.start \in Nat /\ f.stop \in Nat
  <2>1. dl[i] \in Compound /\ dl[i].user \in Subscriber \cup {Everyone}
    BY <1>3
  <2>2. /\ StartTime(dl[i]) \in Nat /\ EndTime(dl[i]) \in Nat /\ EndTime(dl[i]) <= PhaseLength
        /\ DLStop(dl[i]) \in Nat /\ StartTime(dl[i]) < DLStop(dl[i]) /\ DLStop(dl[i]) < EndTime(dl[i])
    BY <2>1, CompoundTimes
  <2>3. /\ f \in Functor /\ f.from = BS /\ IsSent(f) /\ f.to = dl[i].user
        /\ f.slot = dl[i].slot /\ f.layer = dl[i].layer
        /\ f.start = D + StartTime(dl[i]) /\ f.stop = D + DLStop(dl[i])
    BY <1>1, <1>4, <2>1, FunctorsAre
  <2> HIDE DEF D, U
  <2> QED BY <1>1, <2>1, <2>2, <2>3
<1>5. ASSUME NEW f, NEW i \in DOMAIN ul, Beamforming, f = Moved(ULFunctor(ul[i], BS), U)
      PROVE  /\ f \in Functor /\ f.from = BS /\ ~IsSent(f)
             /\ f.to = ul[i].user /\ f.to \in Subscriber
             /\ f.start = U + StartTime(ul[i])
             /\ f.start < f.stop /\ f.stop < U + EndTime(ul[i])
             /\ U <= f.start /\ f.stop < U + PhaseLength /\ f.start \in Nat /\ f.stop \in Nat
  <2>1. ul[i] \in Compound /\ ul[i].user \in Subscriber /\ ul[i].pattern = Beamforming
    BY <1>3
  <2>2. /\ StartTime(ul[i]) \in Nat /\ EndTime(ul[i]) \in Nat /\ EndTime(ul[i]) <= PhaseLength
        /\ ULStop(ul[i]) \in Nat /\ StartTime(ul[i]) < ULStop(ul[i]) /\ ULStop(ul[i]) < EndTime(ul[i])
    BY <2>1, CompoundTimes
  <2>3. /\ f \in Functor /\ f.from = BS /\ ~IsSent(f) /\ f.to = ul[i].user
        /\ f.start = U + StartTime(ul[i]) /\ f.stop = U + ULStop(ul[i])
    <3>1. ul[i].pattern
      BY <1>5, <2>1
    <3> HIDE DEF U
    <3> QED BY <1>1, <1>2, <1>5, <2>1, <3>1, FunctorsAre
  <2> HIDE DEF U
  <2> QED BY <1>1, <2>1, <2>2, <2>3
<1>6. ASSUME NEW f, NEW i \in DOMAIN ul, NEW b \in Filling(ul[i]), f = Reply(ul[i], b, ul[i].user)
      PROVE  /\ f \in Functor /\ f.from = ul[i].user /\ f.from # BS /\ IsSent(f) /\ f.to = BS
             /\ f.slot = ul[i].slot /\ f.layer = ul[i].layer
             /\ f.start = U + StartTime(ul[i])
             /\ f.start < f.stop /\ f.stop < U + EndTime(ul[i])
             /\ U <= f.start /\ f.stop < U + PhaseLength /\ f.start \in Nat /\ f.stop \in Nat
  <2>1. ul[i] \in Compound /\ ul[i].user \in Subscriber
    BY <1>3
  <2>2. StartTime(ul[i]) \in Nat /\ EndTime(ul[i]) \in Nat /\ EndTime(ul[i]) <= PhaseLength
    BY <2>1, CompoundTimes
  <2>3. /\ f \in Functor /\ f.from = ul[i].user /\ IsSent(f) /\ f.to = BS
        /\ f.slot = ul[i].slot /\ f.layer = ul[i].layer
        /\ f.start = U + StartTime(ul[i]) /\ f.start < f.stop /\ f.stop < U + EndTime(ul[i])
    BY <1>6, <2>1, ReplyIs
  <2>4. f.start \in Nat /\ f.stop \in Nat
    BY <2>3 DEF Functor
  <2> HIDE DEF U
  <2> QED BY <1>1, <1>2, <2>1, <2>2, <2>3, <2>4
<1>7. ASSUME NEW f \in Plan(dl, ul), f.from # BS
      PROVE  \E i \in DOMAIN ul : \E b \in Filling(ul[i]) : f = Reply(ul[i], b, ul[i].user)
  BY <1>4, <1>5, <1>7 DEF Plan, FromDL, IsPattern, IsReply
<1>8. ASSUME NEW f \in Plan(dl, ul), ~IsSent(f)
      PROVE  Beamforming /\ \E i \in DOMAIN ul : f = Moved(ULFunctor(ul[i], BS), U)
  BY <1>4, <1>6, <1>8 DEF Plan, FromDL, IsPattern, IsReply
<1>9. ASSUME NEW f \in Plan(dl, ul), f.from = BS, IsSent(f)
      PROVE  \E i \in DOMAIN dl : f = Moved(DLFunctor(dl[i]), D)
  BY <1>5, <1>6, <1>9 DEF Plan, FromDL, IsPattern, IsReply
<1> HIDE DEF D, U
<1>10. ASSUME NEW f \in Plan(dl, ul)
      PROVE  /\ f \in Functor /\ f.start < f.stop
             /\ IsSent(f) /\ f.from = BS =>
                  DLStart <= f.start /\ f.stop < ULStart /\ f.to \in Subscriber \cup {Everyone}
             /\ f.from # BS => IsSent(f) /\ f.to = BS
             /\ ~IsSent(f) => f.to \in Subscriber
             /\ f.from # BS \/ ~IsSent(f) => ULStart <= f.start /\ f.stop < ULStart + PhaseLength
  <2>1. CASE f.from = BS /\ IsSent(f)
    <3>1. PICK i \in DOMAIN dl : f = Moved(DLFunctor(dl[i]), D)
      BY <1>9, <2>1
    <3> QED BY <1>4, <2>1, <3>1 DEF D, U
  <2>2. CASE ~IsSent(f)
    <3>1. PICK i \in DOMAIN ul : f = Moved(ULFunctor(ul[i], BS), U)
      BY <1>8, <2>2
    <3>2. Beamforming
      BY <1>8, <2>2
    <3> QED BY <1>5, <2>2, <3>1, <3>2 DEF D, U
  <2>3. CASE f.from # BS
    <3>1. PICK i \in DOMAIN ul : \E b \in Filling(ul[i]) : f = Reply(ul[i], b, ul[i].user)
      BY <1>7, <2>3
    <3>2. PICK b \in Filling(ul[i]) : f = Reply(ul[i], b, ul[i].user)
      BY <3>1
    <3> QED BY <1>6, <2>3, <3>2 DEF D, U
  <2> QED BY <2>1, <2>2, <2>3
<1>11. \A i \in DOMAIN dl : /\ StartTime(dl[i]) \in Nat /\ EndTime(dl[i]) \in Nat
                            /\ EndTime(dl[i]) <= PhaseLength
  BY <1>3, CompoundTimes
<1>12. \A i \in DOMAIN ul : /\ StartTime(ul[i]) \in Nat /\ EndTime(ul[i]) \in Nat
                            /\ StartTime(ul[i]) < EndTime(ul[i])
  <2> TAKE i \in DOMAIN ul
  <2>1. ul[i] \in Compound
    BY <1>3
  <2> QED BY <2>1, CompoundTimes
<1>13. ASSUME NEW f \in Plan(dl, ul), NEW g \in Plan(dl, ul), IsSent(f), IsSent(g), f # g
       PROVE  f.stop < g.start \/ g.stop < f.start \/ Beside(f, g) \/ Rivals(f, g)
  <2>1. CASE f.from = BS /\ g.from = BS
    <3>1. PICK i \in DOMAIN dl : f = Moved(DLFunctor(dl[i]), D)
      BY <1>9, <1>13, <2>1
    <3>2. PICK j \in DOMAIN dl : g = Moved(DLFunctor(dl[j]), D)
      BY <1>9, <1>13, <2>1
    <3>3. /\ f.start = D + StartTime(dl[i]) /\ f.stop < D + EndTime(dl[i]) /\ f.stop \in Nat
          /\ f.slot = dl[i].slot /\ f.layer = dl[i].layer
      BY <1>4, <3>1
    <3>4. /\ g.start = D + StartTime(dl[j]) /\ g.stop < D + EndTime(dl[j]) /\ g.stop \in Nat
          /\ g.slot = dl[j].slot /\ g.layer = dl[j].layer
      BY <1>4, <3>2
    <3>5. i # j
      BY <1>13, <3>1, <3>2
    <3>6. Ordered(dl[i], dl[j])
      BY <1>3, <3>5
    <3>7. CASE dl[i].slot = dl[j].slot /\ dl[i].layer # dl[j].layer
      BY <2>1, <3>3, <3>4, <3>7 DEF Beside
    <3>8. CASE EndTime(dl[i]) <= StartTime(dl[j]) \/ EndTime(dl[j]) <= StartTime(dl[i])
      BY <1>1, <1>11, <3>3, <3>4, <3>8
    <3> QED BY <3>6, <3>7, <3>8 DEF Ordered
  <2>2. CASE f.from # BS /\ g.from # BS
    <3>1. PICK i \in DOMAIN ul : \E b \in Filling(ul[i]) : f = Reply(ul[i], b, ul[i].user)
      BY <1>7, <2>2
    <3>2. PICK j \in DOMAIN ul : \E b \in Filling(ul[j]) : g = Reply(ul[j], b, ul[j].user)
      BY <1>7, <2>2
    <3>3. /\ f.start = U + StartTime(ul[i]) /\ f.stop < U + EndTime(ul[i]) /\ f.stop \in Nat
          /\ f.from = ul[i].user /\ f.slot = ul[i].slot /\ f.layer = ul[i].layer
      BY <1>6, <3>1
    <3>4. /\ g.start = U + StartTime(ul[j]) /\ g.stop < U + EndTime(ul[j]) /\ g.stop \in Nat
          /\ g.from = ul[j].user /\ g.slot = ul[j].slot /\ g.layer = ul[j].layer
      BY <1>6, <3>2
    <3>5. CASE i = j
      BY <2>2, <3>3, <3>4, <3>5 DEF Rivals
    <3>6. CASE EndTime(ul[i]) <= StartTime(ul[j]) \/ EndTime(ul[j]) <= StartTime(ul[i])
      BY <1>1, <1>12, <3>3, <3>4, <3>6
    <3>7. CASE i # j /\ ~(EndTime(ul[i]) <= StartTime(ul[j]) \/ EndTime(ul[j]) <= StartTime(ul[i]))
      <4>1. ul[i].slot = ul[j].slot /\ ul[i].layer # ul[j].layer
        BY <1>3, <3>7 DEF Ordered
      <4>2. ul[i].user # ul[j].user
        BY <1>3, <3>7
      <4> QED BY <2>2, <3>3, <3>4, <4>1, <4>2 DEF Beside
    <3> QED BY <3>5, <3>6, <3>7
  <2>3. CASE (f.from = BS /\ g.from # BS) \/ (f.from # BS /\ g.from = BS)
    <3>1. f \in Functor /\ g \in Functor
      BY <1>10
    <3>2. f.start \in Nat /\ f.stop \in Nat /\ g.start \in Nat /\ g.stop \in Nat
      BY <3>1 DEF Functor
    <3> QED BY <1>1, <1>10, <1>13, <2>3, <3>2 DEF U
  <2> QED BY <2>1, <2>2, <2>3
<1>14. ASSUME NEW f \in Plan(dl, ul), NEW p \in Plan(dl, ul), f.from # BS, ~IsSent(p), p.to = f.from
       PROVE  p.start = f.start \/ p.start < f.start \/ f.stop < p.start
  <2>1. PICK i \in DOMAIN ul : \E b \in Filling(ul[i]) : f = Reply(ul[i], b, ul[i].user)
    BY <1>7, <1>14
  <2>2. PICK j \in DOMAIN ul : p = Moved(ULFunctor(ul[j], BS), U)
    BY <1>8, <1>14
  <2>3. /\ f.start = U + StartTime(ul[i]) /\ f.stop < U + EndTime(ul[i]) /\ f.stop \in Nat
        /\ f.from = ul[i].user
    BY <1>6, <2>1
  <2>4. p.start = U + StartTime(ul[j]) /\ p.to = ul[j].user /\ p.start \in Nat
    BY <1>5, <1>8, <1>14, <2>2
  <2>5. \/ i = j
        \/ EndTime(ul[i]) <= StartTime(ul[j]) \/ EndTime(ul[j]) <= StartTime(ul[i])
    BY <1>3, <1>14, <2>3, <2>4
  <2> QED BY <1>1, <1>12, <2>3, <2>4, <2>5
<1> QED BY <1>10, <1>13, <1>14 DEF GoodPlan

\* The grants of subscriber s in an uplink map.
LEMMA GrantsAre ==
  ASSUME NEW ul \in UplinkMap, NEW s \in Subscriber
  PROVE  /\ GrantsOf(ul, s) \in Seq(Compound)
         /\ \A c : c \in Range(GrantsOf(ul, s)) <=> \E i \in DOMAIN ul : ul[i].user = s /\ c = ul[i]
<1>1. Len(ul) \in Nat /\ DOMAIN ul = 1..Len(ul) /\ \A i \in DOMAIN ul : ul[i] \in Compound
  BY UplinkMapIs
<1> DEFINE n == Len(ul)
           P == {i \in 1..n : ul[i].user = s}
           all == [i \in DOMAIN ul |-> IF ul[i].user = s THEN <<ul[i]>> ELSE << >>]
<1>2. all = Picked(n, P, ul)
  BY <1>1 DEF Picked
<1>3. n \in Nat /\ P \in SUBSET (1..n) /\ \A i \in P : ul[i] \in Compound
  BY <1>1
<1>4. GrantsOf(ul, s) = FlattenSeq(all)
  BY DEF GrantsOf
<1>5. \A i : i \in P <=> i \in DOMAIN ul /\ ul[i].user = s
  BY <1>1
<1> HIDE DEF n, P, all
<1>6. /\ FlattenSeq(Picked(n, P, ul)) \in Seq(Compound)
      /\ \A e : e \in Range(FlattenSeq(Picked(n, P, ul))) <=> \E i \in P : e = ul[i]
  <2>1. PicksOf(Compound, P, ul)
    BY <1>3 DEF PicksOf
  <2>2. HoldsPicks(FlattenSeq(Picked(n, P, ul)), Compound, P, ul)
    BY <1>3, <2>1, PickedIs
  <2> QED BY <2>2 DEF HoldsPicks
<1> QED BY <1>2, <1>4, <1>5, <1>6

\* What subscriber s makes of the grants it uses.
LEMMA SlaveFunctorsAre ==
  ASSUME NEW s \in Subscriber, granted[s] \in Seq(Compound),
         NEW grants \in SUBSET Range(granted[s]), NEW used \in [grants -> Burst],
         \A c \in grants : used[c] \in Filling(c)
  PROVE  /\ SlaveFunctors(s, used) \in Seq(Functor)
         /\ \A q : q \in Range(SlaveFunctors(s, used)) <=>
              \E c \in grants : q = ULFunctor(Answer(c, used[c]), s)
<1> DEFINE own == granted[s]
           n == Len(own)
           fun(c) == ULFunctor(Answer(c, used[c]), s)
           g == [i \in 1..n |-> fun(own[i])]
           P == {i \in 1..n : own[i] \in grants}
           all == [i \in DOMAIN own |-> IF own[i] \in DOMAIN used THEN <<fun(own[i])>> ELSE << >>]
<1>1. n \in Nat /\ DOMAIN own = 1..n /\ \A i \in DOMAIN own : own[i] \in Compound
  BY SeqIs
<1>2. \A c \in grants : fun(c) \in Functor
  <2> TAKE c \in grants
  <2>1. c \in Compound
    <3> HIDE DEF own, n
    <3>1. grants \subseteq Range(own)
      BY DEF own
    <3> QED BY <1>1, <3>1 DEF Range
  <2>2. Answer(c, used[c]) \in Compound
    BY <2>1, AnswerIs
  <2>3. s \in Transceiver /\ 0 \in Nat
    BY DEF Transceiver
  <2> QED BY <2>2, <2>3, FunctorsAre
<1>3. all = Picked(n, P, g)
  <2> HIDE DEF fun, own, n
  <2>1. DOMAIN used = grants
    OBVIOUS
  <2> QED BY <1>1, <2>1 DEF Picked
<1>4. P \in SUBSET (1..n) /\ \A i \in P : g[i] \in Functor
  <2> HIDE DEF fun, own, n
  <2> QED BY <1>1, <1>2
<1>5. SlaveFunctors(s, used) = FlattenSeq(all)
  BY DEF SlaveFunctors
<1>6. \A q : (\E i \in P : q = g[i]) <=> \E c \in grants : q = fun(c)
  <2> HIDE DEF fun, n
  <2>1. \A c \in grants : \E i \in 1..n : own[i] = c
    BY <1>1 DEF Range
  <2> HIDE DEF own
  <2> QED BY <2>1
<1> HIDE DEF own, n, g, P, all, fun
<1>7. /\ FlattenSeq(Picked(n, P, g)) \in Seq(Functor)
      /\ \A e : e \in Range(FlattenSeq(Picked(n, P, g))) <=> \E i \in P : e = g[i]
  <2>1. PicksOf(Functor, P, g)
    BY <1>4 DEF PicksOf
  <2>2. HoldsPicks(FlattenSeq(Picked(n, P, g)), Functor, P, g)
    BY <1>1, <1>4, <2>1, PickedIs
  <2> QED BY <2>2 DEF HoldsPicks
<1>8. \A q : q \in Range(FlattenSeq(all)) <=> \E c \in grants : q = fun(c)
  BY <1>3, <1>6, <1>7
<1> QED BY <1>3, <1>5, <1>7, <1>8 DEF fun

\* The events of a functor.
LEMMA EventsAre ==
  ASSUME NEW f \in Functor
  PROVE  /\ EventsOf(f) \in Seq(Agendum)
         /\ \A e \in Range(EventsOf(f)) :
              /\ e.f = f
              /\ IsSent(f) => \/ e.do = "start" /\ e.at = f.start
                              \/ e.do = "stop" /\ e.at = f.stop
              /\ ~IsSent(f) => e.do = "set" /\ e.at = f.start
         /\ IsSent(f) => \E e \in Range(EventsOf(f)) : e.do = "stop" /\ e.f = f
         /\ ~IsSent(f) => \E e \in Range(EventsOf(f)) : e.do = "set" /\ e.f = f
<1> DEFINE a == [at |-> f.start, do |-> "start", f |-> f]
           b == [at |-> f.stop, do |-> "stop", f |-> f]
           p == [at |-> f.start, do |-> "set", f |-> f]
<1>1. f.start \in Nat /\ f.stop \in Nat
  BY DEF Functor
<1>2. a \in Agendum /\ b \in Agendum /\ p \in Agendum
  BY <1>1 DEF Agendum
<1>3. /\ a.f = f /\ a.do = "start" /\ a.at = f.start
      /\ b.f = f /\ b.do = "stop" /\ b.at = f.stop
      /\ p.f = f /\ p.do = "set" /\ p.at = f.start
  OBVIOUS
<1>4. EventsOf(f) = IF IsSent(f) THEN <<a, b>> ELSE <<p>>
  BY DEF EventsOf, IsSent
<1> HIDE DEF a, b, p
<1>5. Range(<<a, b>>) = {a, b} /\ Range(<<p>>) = {p}
  BY DEF Range
<1>6. <<a, b>> \in Seq(Agendum) /\ <<p>> \in Seq(Agendum)
  BY <1>2
<1> QED BY <1>3, <1>4, <1>5, <1>6

\* The events deliverNow schedules for a callback's functors.
LEMMA EventsOfAllAre ==
  ASSUME now \in Nat, NEW queue \in Seq(Functor)
  PROVE  /\ EventsOfAll(queue) \in Seq(Agendum)
         /\ \A e : e \in Range(EventsOfAll(queue)) <=>
              \E q \in Range(queue) : e \in Range(EventsOf(Moved(q, now)))
<1> DEFINE all == [i \in DOMAIN queue |-> EventsOf(Delivered(queue[i]))]
<1>1. Len(queue) \in Nat /\ DOMAIN queue = 1..Len(queue) /\ \A i \in DOMAIN queue : queue[i] \in Functor
  BY SeqIs
<1>2. \A q \in Functor : Moved(q, now) \in Functor /\ Delivered(q) = Moved(q, now)
  BY MovedIs DEF Moved, Delivered
<1>3. \A i \in DOMAIN queue : EventsOf(Delivered(queue[i])) \in Seq(Agendum)
  BY <1>1, <1>2, EventsAre
<1>4. all \in [1..Len(queue) -> Seq(Agendum)]
  BY <1>1, <1>3
<1>5. all \in Seq(Seq(Agendum)) /\ DOMAIN all = DOMAIN queue
      /\ \A i \in DOMAIN queue : all[i] = EventsOf(Moved(queue[i], now))
  BY <1>1, <1>2, <1>4
<1>6. EventsOfAll(queue) = FlattenSeq(all)
  BY DEF EventsOfAll
<1> HIDE DEF all
<1>7. /\ FlattenSeq(all) \in Seq(Agendum)
      /\ \A e : e \in Range(FlattenSeq(all)) <=> \E i \in DOMAIN all : e \in Range(all[i])
  BY <1>5, FlattenIs
<1> DEFINE h(q) == EventsOf(Moved(q, now))
<1>8. \A e : (\E q \in Range(queue) : e \in Range(h(q))) <=>
             \E i \in DOMAIN queue : e \in Range(h(queue[i]))
  <2> HIDE DEF h
  <2> QED BY DEF Range
<1>9. DOMAIN all = DOMAIN queue /\ \A i \in DOMAIN queue : all[i] = h(queue[i])
  BY <1>5
<1>10. \A e : e \in Range(FlattenSeq(all)) <=> \E q \in Range(queue) : e \in Range(h(q))
  <2> HIDE DEF h
  <2> QED BY <1>7, <1>8, <1>9
<1> QED BY <1>6, <1>7, <1>10

---------------------------------------------------------------------------
(* Every step keeps to a plan.                                             *)

\* Before the first frame nothing is planned.
LEMMA AccessStart == AccessInit => AccessInv
<1> SUFFICES ASSUME AccessInit PROVE AccessInv
  OBVIOUS
<1>1. 0 \in 0..MaxFrames
  BY AccessAssumption
<1>2. << >> \in Seq(Functor) /\ << >> \in Seq(Agendum) /\ << >> \in Seq(Compound) /\ Range(<< >>) = {}
  BY DEF Range
<1>3. AccessTyped
  <2>1. listening \in [Transceiver -> BOOLEAN] /\ DOMAIN pattern = Subscriber
    BY DEF AccessInit
  <2>2. granted \in [Subscriber -> Seq(Compound)]
    BY <1>2 DEF AccessInit
  <2> QED BY <1>1, <1>2, <2>1, <2>2 DEF AccessInit, AccessTyped
<1>4. StageOK
  BY AccessAssumption DEF AccessInit, StageOK, DLStart, PhaseLength
<1>5. ListensUnlessSending
  BY DEF AccessInit, ListensUnlessSending, Sends
<1>6. GoodPlan({})
  BY DEF GoodPlan
<1>7. \A f : ~WillStop(f)
  BY <1>2 DEF AccessInit, WillStop
<1>8. Scheduled({}) /\ GrantsFit({}) /\ NoRivals
  BY <1>2, <1>7 DEF AccessInit, Scheduled, GrantsFit, NoRivals
<1>9. Follows({})
  BY <1>2, <1>6, <1>8 DEF AccessInit, Follows
<1> QED BY <1>3, <1>4, <1>5, <1>9 DEF AccessInv

\* The same frame has the same times and plans.
LEMMA SameFrame ==
  ASSUME frame' = frame
  PROVE  /\ DLStart' = DLStart /\ ULStart' = ULStart
         /\ \A F : GoodPlan(F) => GoodPlan(F)'
         /\ \A c, b, s : Reply(c, b, s)' = Reply(c, b, s)
BY DEF DLStart, ULStart, GoodPlan, Reply

\* The schedulers' callbacks make the plan of the frame.
LEMMA CallBackStep ==
  ASSUME AccessInv, CallBack
  PROVE  AccessInv'
<1> DEFINE U == ULStart
<1>1. /\ AccessTyped /\ StageOK /\ ListensUnlessSending
  BY DEF AccessInv
<1>2. PICK dl \in DownlinkMap, ul \in UplinkMap :
        /\ scheduledDL' = scheduledDL \o [i \in DOMAIN dl |-> DLFunctor(dl[i])]
        /\ scheduledUL' = IF Beamforming
                          THEN scheduledUL \o [i \in DOMAIN ul |-> ULFunctor(ul[i], BS)]
                          ELSE scheduledUL
        /\ granted' = [s \in Subscriber |-> GrantsOf(ul, s)]
  BY DEF CallBack
<1>3. /\ stage = "map" /\ stage' = "downlink" /\ now = DLStart
      /\ now' = now /\ frame' = frame /\ agenda' = agenda /\ onAir' = onAir
      /\ listening' = listening /\ pattern' = pattern
  BY DEF CallBack
<1>4. scheduledDL = << >> /\ scheduledUL = << >> /\ agenda = << >> /\ onAir = {}
  BY <1>1, <1>3 DEF StageOK
<1>5. frame \in Nat /\ now \in Nat
  BY <1>1, AccessAssumption DEF AccessTyped
<1>6. /\ Len(dl) \in Nat /\ DOMAIN dl = 1..Len(dl)
      /\ \A i \in DOMAIN dl : dl[i] \in Compound
      /\ Len(ul) \in Nat /\ DOMAIN ul = 1..Len(ul)
      /\ \A i \in DOMAIN ul : /\ ul[i] \in Compound /\ ul[i].user \in Subscriber
                              /\ ul[i].pattern = Beamforming
      /\ \A i, j \in DOMAIN ul : i # j /\ ul[i].user = ul[j].user =>
           EndTime(ul[i]) <= StartTime(ul[j]) \/ EndTime(ul[j]) <= StartTime(ul[i])
  BY MapIs, UplinkMapIs DEF DownlinkMap
<1>7. /\ scheduledDL' \in Seq(Functor)
      /\ \A q : q \in Range(scheduledDL') <=> \E i \in DOMAIN dl : q = DLFunctor(dl[i])
  <2> DEFINE q == [i \in DOMAIN dl |-> DLFunctor(dl[i])]
  <2>1. \A i \in DOMAIN dl : DLFunctor(dl[i]) \in Functor
    <3>1. 0 \in Nat
      OBVIOUS
    <3> QED BY <1>6, <3>1, FunctorsAre
  <2>2. q \in [1..Len(dl) -> Functor]
    BY <1>6, <2>1
  <2>3. q \in Seq(Functor)
    BY <1>6, <2>2
  <2>4. \A x : x \in Range(q) <=> \E i \in DOMAIN dl : x = DLFunctor(dl[i])
    BY DEF Range
  <2>5. << >> \o q = q
    <3> HIDE DEF q
    <3> QED BY <2>3
  <2> HIDE DEF q
  <2>6. scheduledDL' = q
    BY <1>2, <1>4, <2>5 DEF q
  <2> QED BY <2>3, <2>4, <2>6
<1>8. /\ scheduledUL' \in Seq(Functor)
      /\ \A q : q \in Range(scheduledUL') <=>
           Beamforming /\ \E i \in DOMAIN ul : q = ULFunctor(ul[i], BS)
  <2> DEFINE q == [i \in DOMAIN ul |-> ULFunctor(ul[i], BS)]
  <2>1. \A i \in DOMAIN ul : ULFunctor(ul[i], BS) \in Functor
    <3>1. 0 \in Nat /\ BS \in Transceiver
      BY DEF Transceiver
    <3> QED BY <1>6, <3>1, FunctorsAre
  <2>2. q \in [1..Len(ul) -> Functor]
    BY <1>6, <2>1
  <2>3. q \in Seq(Functor)
    BY <1>6, <2>2
  <2>4. \A x : x \in Range(q) <=> \E i \in DOMAIN ul : x = ULFunctor(ul[i], BS)
    BY DEF Range
  <2>5. << >> \o q = q
    <3> HIDE DEF q
    <3> QED BY <2>3
  <2> HIDE DEF q
  <2>6. scheduledUL' = IF Beamforming THEN q ELSE << >>
    BY <1>2, <1>4, <2>5 DEF q
  <2>7. << >> \in Seq(Functor) /\ Range(<< >>) = {}
    BY DEF Range
  <2> QED BY <2>3, <2>4, <2>6, <2>7
<1>9. ASSUME NEW s \in Subscriber
      PROVE  /\ granted'[s] \in Seq(Compound)
             /\ \A c : c \in Range(granted'[s]) <=> \E i \in DOMAIN ul : ul[i].user = s /\ c = ul[i]
  <2>1. granted'[s] = GrantsOf(ul, s)
    BY <1>2
  <2> QED BY <2>1, GrantsAre
<1>10. AccessTyped'
  <2>1. granted' \in [Subscriber -> Seq(Compound)]
    <3>1. \A s \in Subscriber : GrantsOf(ul, s) \in Seq(Compound)
      BY GrantsAre
    <3> QED BY <1>2, <3>1
  <2> QED BY <1>1, <1>3, <1>7, <1>8, <2>1 DEF AccessTyped
<1>11. StageOK'
  BY <1>3, <1>4, SameFrame DEF StageOK
<1>12. ListensUnlessSending'
  BY <1>1, <1>3 DEF ListensUnlessSending, Sends
<1>13. PICK F \in SUBSET Functor : F = Plan(dl, ul)
  BY DEF Plan
<1>14. /\ DLStart \in Nat /\ U \in Nat /\ DLStart <= U /\ DLStart' = DLStart /\ ULStart' = U
       /\ \A c, b, s : Reply(c, b, s)' = Reply(c, b, s)
  BY <1>3, <1>5, FrameTimes, SameFrame
<1>15. GoodPlan(F)'
  <2>1. GoodPlan(F)
    BY <1>5, <1>13, PlanIsGood
  <2> QED BY <1>3, <2>1, SameFrame
<1>16. \A q \in Range(scheduledDL') : q.from = BS /\ Moved(q, DLStart) \in F
  <2> SUFFICES ASSUME NEW i \in DOMAIN dl PROVE Moved(DLFunctor(dl[i]), DLStart) \in F
    BY <1>7 DEF DLFunctor
  <2>1. Moved(DLFunctor(dl[i]), DLStart) \in Functor
    BY <1>6, <1>14, FunctorsAre
  <2> QED BY <1>13, <2>1 DEF Plan, FromDL
<1>17. \A q \in Range(scheduledUL') : q.from = BS /\ Moved(q, U) \in F
  <2> SUFFICES ASSUME Beamforming, NEW i \in DOMAIN ul
               PROVE  Moved(ULFunctor(ul[i], BS), U) \in F
    BY <1>8 DEF ULFunctor
  <2>1. BS \in Transceiver
    BY DEF Transceiver
  <2>2. Moved(ULFunctor(ul[i], BS), U) \in Functor
    BY <1>6, <1>14, <2>1, FunctorsAre
  <2> QED BY <1>13, <2>2 DEF Plan, IsPattern
<1>18. /\ Range(agenda') = {} /\ onAir' = {} /\ \A f : ~WillStop(f)'
  <2>1. Range(agenda') = {} /\ onAir' = {}
    BY <1>3, <1>4 DEF Range
  <2> QED BY <2>1 DEF WillStop
<1>19. ASSUME NEW s \in Subscriber
       PROVE  /\ \A c \in Range(granted'[s]) : \A b \in Filling(c) : Reply(c, b, s)' \in F
              /\ \A c, d \in Range(granted'[s]) : StartTime(c) = StartTime(d) => c = d
  <2> DEFINE G == Range(granted'[s])
  <2>0. \A c : c \in G <=> \E i \in DOMAIN ul : ul[i].user = s /\ c = ul[i]
    BY <1>9
  <2> HIDE DEF G
  <2>1. ASSUME NEW c \in G, NEW b \in Filling(c) PROVE Reply(c, b, s)' \in F
    <3>1. PICK i \in DOMAIN ul : ul[i].user = s /\ c = ul[i]
      BY <2>0
    <3>2. Reply(c, b, s) \in Functor
      BY <1>5, <1>6, <3>1, ReplyIs
    <3>3. Reply(c, b, s) \in F
      BY <1>13, <3>1, <3>2 DEF Plan, IsReply
    <3> QED BY <1>14, <3>3
  <2>2. ASSUME NEW c \in G, NEW d \in G, StartTime(c) = StartTime(d)
        PROVE  c = d
    <3>1. PICK i \in DOMAIN ul : ul[i].user = s /\ c = ul[i]
      BY <2>0
    <3>2. PICK j \in DOMAIN ul : ul[j].user = s /\ d = ul[j]
      BY <2>0
    <3>3. i # j => EndTime(c) <= StartTime(d) \/ EndTime(d) <= StartTime(c)
      BY <1>6, <3>1, <3>2
    <3>4. c \in Compound /\ d \in Compound
      BY <1>6, <3>1, <3>2
    <3>5. /\ StartTime(c) \in Nat /\ EndTime(c) \in Nat /\ StartTime(c) < EndTime(c)
          /\ StartTime(d) \in Nat /\ EndTime(d) \in Nat /\ StartTime(d) < EndTime(d)
      <4>1. \A x \in Compound : StartTime(x) \in Nat /\ EndTime(x) \in Nat /\ StartTime(x) < EndTime(x)
        <5> TAKE x \in Compound
        <5> QED BY CompoundTimes
      <4> QED BY <3>4, <4>1
    <3>6. i = j
      BY <2>2, <3>3, <3>5
    <3> QED BY <3>1, <3>2, <3>6
  <2> QED BY <2>1, <2>2 DEF G
<1>20. ASSUME Beamforming, NEW f \in F, f.from # BS
       PROVE  HasPattern(f)'
  <2>1. BS \in Transceiver
    BY DEF Transceiver
  <2>2. PICK i \in DOMAIN ul : \E b \in Filling(ul[i]) : f = Reply(ul[i], b, ul[i].user)
    <3>1. \A i \in DOMAIN dl : Moved(DLFunctor(dl[i]), DLStart).from = BS
      BY <1>6, <1>14, FunctorsAre
    <3>2. \A i \in DOMAIN ul : Moved(ULFunctor(ul[i], BS), U).from = BS
      BY <1>6, <1>14, <2>1, FunctorsAre
    <3> QED BY <1>13, <1>20, <3>1, <3>2 DEF Plan, FromDL, IsPattern, IsReply
  <2>3. f.from = ul[i].user /\ f.start = U + StartTime(ul[i])
    BY <1>5, <1>6, <2>2, ReplyIs
  <2>4. PICK p \in Functor : p = Moved(ULFunctor(ul[i], BS), U)
    BY <1>6, <1>14, <2>1, FunctorsAre
  <2>5. ~IsSent(p) /\ p.to = ul[i].user /\ p.start = U + StartTime(ul[i])
    <3>1. ul[i].pattern
      BY <1>6, <1>20
    <3> QED BY <1>6, <1>14, <2>1, <2>4, <3>1, FunctorsAre
  <2>6. ULFunctor(ul[i], BS) \in Range(scheduledUL')
    BY <1>8, <1>20
  <2>7. Prepared(p)'
    BY <1>14, <2>4, <2>6 DEF Prepared
  <2>8. p.to = f.from /\ p.start = f.start
    BY <2>3, <2>5
  <2> QED BY <2>5, <2>7, <2>8 DEF HasPattern
<1>21. now' <= ULStart'
  BY <1>3, <1>14
<1> HIDE DEF U
<1>22. Scheduled(F)'
  BY <1>14, <1>16, <1>17, <1>21 DEF Scheduled
<1>23. GrantsFit(F)'
  BY <1>18, <1>19, <1>21 DEF GrantsFit
<1>24. NoRivals'
  BY <1>18 DEF NoRivals
<1>25. Follows(F)'
  BY <1>15, <1>18, <1>20, <1>22, <1>23, <1>24 DEF Follows
<1>26. \E G \in SUBSET Functor : Follows(G)'
  BY <1>25
<1> QED BY <1>10, <1>11, <1>12, <1>26 DEF AccessInv

---------------------------------------------------------------------------
(* Delivery puts the events of a plan's functors into the agenda.          *)

\* Station s holds functors of the plan F, whose times count from now on.
Ready(queue, s, F) == \A q \in Range(queue) : q.from = s /\ Moved(q, now) \in F

\* The events es are those of such functors.
EventsFit(es, queue, s, F) ==
  /\ es \in Seq(Agendum)
  /\ \A e \in Range(es) :
       /\ EventFits(e, F) /\ e.f.from = s
       /\ \E q \in Range(queue) : e.f = Moved(q, now)
       /\ e.do = "start" => \E x \in Range(es) : x.do = "stop" /\ x.f = e.f
  /\ \A q \in Range(queue) : ~IsSent(Moved(q, now)) =>
       \E e \in Range(es) : e.do = "set" /\ e.f = Moved(q, now)

\* What station s delivers of a plan.
LEMMA DeliveredIs ==
  ASSUME NEW queue \in Seq(Functor), NEW F \in SUBSET Functor, NEW s,
         now \in Nat, Ready(queue, s, F)
  PROVE  EventsFit(EventsOfAll(queue), queue, s, F)
<1> DEFINE es == EventsOfAll(queue)
<1>1. /\ es \in Seq(Agendum)
      /\ \A e : e \in Range(es) <=> \E q \in Range(queue) : e \in Range(EventsOf(Moved(q, now)))
  BY EventsOfAllAre
<1>2. ASSUME NEW q \in Range(queue)
      PROVE  /\ Moved(q, now) \in F /\ Moved(q, now) \in Functor /\ Moved(q, now).from = s
             /\ Moved(q, now).start >= now /\ Moved(q, now).stop >= now
  <2>1. q \in Functor
    BY SeqIs DEF Range
  <2>2. q.from = s /\ Moved(q, now) \in F
    BY DEF Ready
  <2>3. q.start \in Nat /\ q.stop \in Nat
    BY <2>1 DEF Functor
  <2> DEFINE m == Moved(q, now)
  <2>4. m \in Functor /\ m.from = q.from /\ m.start = now + q.start /\ m.stop = now + q.stop
    BY <2>1, MovedIs
  <2> HIDE DEF m
  <2>5. m.start >= now /\ m.stop >= now
    BY <2>3, <2>4
  <2> QED BY <2>2, <2>4, <2>5 DEF m
<1> HIDE DEF es
<1>3. ASSUME NEW e \in Range(es)
      PROVE  /\ EventFits(e, F) /\ e.f.from = s
             /\ \E q \in Range(queue) : e.f = Moved(q, now)
             /\ e.do = "start" => \E x \in Range(es) : x.do = "stop" /\ x.f = e.f
  <2>1. PICK q \in Range(queue) : e \in Range(EventsOf(Moved(q, now)))
    BY <1>1
  <2>2. PICK f \in Functor : f = Moved(q, now)
    BY <1>2
  <2>3. f \in F /\ f.from = s /\ f.start >= now /\ f.stop >= now /\ e \in Range(EventsOf(f))
    BY <1>2, <2>1, <2>2
  <2>4. /\ e.f = f
        /\ IsSent(f) => \/ e.do = "start" /\ e.at = f.start
                        \/ e.do = "stop" /\ e.at = f.stop
        /\ ~IsSent(f) => e.do = "set" /\ e.at = f.start
        /\ IsSent(f) => \E x \in Range(EventsOf(f)) : x.do = "stop" /\ x.f = f
    BY <2>3, EventsAre
  <2>5. EventFits(e, F)
    BY <2>3, <2>4 DEF EventFits
  <2>6. ASSUME e.do = "start" PROVE \E x \in Range(es) : x.do = "stop" /\ x.f = f
    <3>1. PICK x \in Range(EventsOf(f)) : x.do = "stop" /\ x.f = f
      BY <2>4, <2>6
    <3>2. x \in Range(es)
      BY <1>1, <2>2, <3>1
    <3> QED BY <3>1, <3>2
  <2> QED BY <2>2, <2>3, <2>4, <2>5, <2>6
<1>4. ASSUME NEW q \in Range(queue), ~IsSent(Moved(q, now))
      PROVE  \E e \in Range(es) : e.do = "set" /\ e.f = Moved(q, now)
  <2>1. PICK e \in Range(EventsOf(Moved(q, now))) : e.do = "set" /\ e.f = Moved(q, now)
    BY <1>2, <1>4, EventsAre
  <2>2. e \in Range(es)
    BY <1>1
  <2> QED BY <2>1, <2>2
<1>5. EventsFit(es, queue, s, F)
  BY <1>1, <1>3, <1>4 DEF EventsFit
<1> QED BY <1>5 DEF es

\* The downlink is delivered: its bursts are ahead, their ends with them.
LEMMA DeliverDLStep ==
  ASSUME AccessInv, DeliverDL
  PROVE  AccessInv'
<1>1. /\ AccessTyped /\ StageOK /\ ListensUnlessSending
  BY DEF AccessInv
<1>2. /\ stage = "downlink" /\ stage' = "uplink" /\ now = DLStart
      /\ agenda' = agenda \o EventsOfAll(scheduledDL) /\ scheduledDL' = << >>
      /\ now' = now /\ frame' = frame /\ scheduledUL' = scheduledUL /\ granted' = granted
      /\ onAir' = onAir /\ listening' = listening /\ pattern' = pattern
  BY DEF DeliverDL
<1>3. agenda = << >> /\ onAir = {}
  BY <1>1, <1>2 DEF StageOK
<1>4. now \in Nat /\ frame \in Nat /\ scheduledDL \in Seq(Functor)
  BY <1>1, AccessAssumption DEF AccessTyped
<1>5. /\ DLStart \in Nat /\ ULStart \in Nat /\ DLStart' = DLStart /\ ULStart' = ULStart
      /\ PhaseLength \in Nat \ {0} /\ ULStart = DLStart + PhaseLength
      /\ \A c, b, s : Reply(c, b, s)' = Reply(c, b, s)
  BY <1>2, <1>4, FrameTimes, SameFrame
<1>6. PICK F \in SUBSET Functor : Follows(F)
  BY DEF AccessInv
<1>7. \A q \in Range(scheduledDL) : q.from = BS /\ Moved(q, now) \in F
  BY <1>2, <1>6 DEF Follows, Scheduled
<1> DEFINE es == EventsOfAll(scheduledDL)
<1>8. /\ es \in Seq(Agendum)
      /\ \A e \in Range(es) :
           /\ EventFits(e, F) /\ e.f.from = BS
           /\ e.do = "start" => \E x \in Range(es) : x.do = "stop" /\ x.f = e.f
  <2>1. Ready(scheduledDL, BS, F)
    BY <1>7 DEF Ready
  <2>2. EventsFit(es, scheduledDL, BS, F)
    <3> HIDE DEF es
    <3>1. EventsFit(EventsOfAll(scheduledDL), scheduledDL, BS, F)
      BY <1>4, <2>1, DeliveredIs
    <3> QED BY <3>1 DEF es
  <2> HIDE DEF es
  <2> QED BY <2>2 DEF EventsFit
<1>9. agenda' = es
  <2> HIDE DEF es
  <2>1. << >> \o es = es
    BY <1>8
  <2> QED BY <1>2, <1>3, <2>1 DEF es
<1> HIDE DEF es
<1>10. \A e \in Range(agenda') :
         EventFits(e, F)' /\ (e.do = "start" => WillStop(e.f)') /\ e.f.from = BS
  BY <1>2, <1>8, <1>9 DEF EventFits, WillStop
<1>11. \A f : WillStop(f)' => f.from = BS
  BY <1>10 DEF WillStop
<1>12. AccessTyped'
  <2>1. << >> \in Seq(Functor)
    OBVIOUS
  <2> QED BY <1>1, <1>2, <1>8, <1>9, <2>1 DEF AccessTyped
<1>13. StageOK'
  BY <1>2, <1>4, <1>5 DEF StageOK
<1>14. ListensUnlessSending'
  BY <1>1, <1>2 DEF ListensUnlessSending, Sends
<1>15. GoodPlan(F)'
  BY <1>2, <1>6, SameFrame DEF Follows
<1>16. ASSUME Beamforming, NEW f \in F, f.from # BS, WillStop(f)' \/ Open(f)'
       PROVE  HasPattern(f)'
  <2>1. Open(f)
    BY <1>2, <1>5, <1>11, <1>16 DEF Open
  <2>2. HasPattern(f)
    BY <1>6, <1>16, <2>1 DEF Follows
  <2>3. ~\E e \in Range(agenda) : TRUE
    BY <1>3 DEF Range
  <2>4. \A p : Prepared(p) => Prepared(p)'
    BY <1>2, <1>5 DEF Prepared
  <2> QED BY <1>2, <2>2, <2>3, <2>4 DEF HasPattern
<1>17. Scheduled(F)'
  <2>1. Range(scheduledDL') = {}
    BY <1>2 DEF Range
  <2> QED BY <1>2, <1>5, <1>6, <2>1 DEF Follows, Scheduled
<1>18. GrantsFit(F)'
  <2>1. BS \notin Subscriber
    BY AccessAssumption
  <2> QED BY <1>2, <1>5, <1>6, <1>11, <2>1 DEF Follows, GrantsFit
<1>19. NoRivals'
  BY <1>11 DEF NoRivals, Rivals
<1>20. Follows(F)'
  BY <1>2, <1>3, <1>10, <1>15, <1>16, <1>17, <1>18, <1>19 DEF Follows
<1>21. \E G \in SUBSET Functor : Follows(G)'
  BY <1>20
<1> QED BY <1>12, <1>13, <1>14, <1>21 DEF AccessInv

\* The patterns of the base station are delivered: those that waited in its
\* callback are in the agenda now.
LEMMA DeliverULStep ==
  ASSUME AccessInv, DeliverUL
  PROVE  AccessInv'
<1>1. /\ AccessTyped /\ StageOK /\ ListensUnlessSending
  BY DEF AccessInv
<1>2. /\ stage = "uplink" /\ stage' = stage /\ now = ULStart
      /\ agenda' = agenda \o EventsOfAll(scheduledUL) /\ scheduledUL' = << >>
      /\ now' = now /\ frame' = frame /\ scheduledDL' = scheduledDL /\ granted' = granted
      /\ onAir' = onAir /\ listening' = listening /\ pattern' = pattern
  BY DEF DeliverUL
<1>3. /\ now \in Nat /\ frame \in Nat /\ agenda \in Seq(Agendum) /\ scheduledUL \in Seq(Functor)
  BY <1>1, AccessAssumption DEF AccessTyped
<1>4. /\ DLStart' = DLStart /\ ULStart' = ULStart
      /\ \A c, b, s : Reply(c, b, s)' = Reply(c, b, s)
  BY <1>2, SameFrame
<1>5. PICK F \in SUBSET Functor : Follows(F)
  BY DEF AccessInv
<1>6. \A q \in Range(scheduledUL) : q.from = BS /\ Moved(q, now) \in F
  BY <1>2, <1>5 DEF Follows, Scheduled
<1> DEFINE es == EventsOfAll(scheduledUL)
<1>7. /\ es \in Seq(Agendum)
      /\ \A e \in Range(es) :
           /\ EventFits(e, F) /\ e.f.from = BS
           /\ e.do = "start" => \E x \in Range(es) : x.do = "stop" /\ x.f = e.f
      /\ \A q \in Range(scheduledUL) : ~IsSent(Moved(q, now)) =>
           \E e \in Range(es) : e.do = "set" /\ e.f = Moved(q, now)
  <2>1. Ready(scheduledUL, BS, F)
    BY <1>6 DEF Ready
  <2>2. EventsFit(es, scheduledUL, BS, F)
    <3> HIDE DEF es
    <3>1. EventsFit(EventsOfAll(scheduledUL), scheduledUL, BS, F)
      BY <1>3, <2>1, DeliveredIs
    <3> QED BY <3>1 DEF es
  <2> HIDE DEF es
  <2> QED BY <2>2 DEF EventsFit
<1>8. agenda' = agenda \o es
  BY <1>2
<1> HIDE DEF es
<1>9. /\ agenda' \in Seq(Agendum)
      /\ \A e : e \in Range(agenda') <=> e \in Range(agenda) \/ e \in Range(es)
  BY <1>3, <1>7, <1>8, ConcatIs
<1>10. AccessTyped'
  <2>1. << >> \in Seq(Functor)
    OBVIOUS
  <2> QED BY <1>1, <1>2, <1>9, <2>1 DEF AccessTyped
<1>11. StageOK'
  BY <1>1, <1>2, <1>4 DEF StageOK, PhaseLength
<1>12. ListensUnlessSending'
  BY <1>1, <1>2 DEF ListensUnlessSending, Sends
<1>13. GoodPlan(F)'
  BY <1>2, <1>5, SameFrame DEF Follows
<1>14. \A f : WillStop(f) => WillStop(f)'
  BY <1>9 DEF WillStop
<1>15. \A f : WillStop(f)' /\ f.from # BS => WillStop(f)
  BY <1>7, <1>9 DEF WillStop
<1>16. \A e \in Range(agenda') : EventFits(e, F)' /\ (e.do = "start" => WillStop(e.f)')
  <2> TAKE e \in Range(agenda')
  <2>1. CASE e \in Range(es)
    <3>1. EventFits(e, F) /\ (e.do = "start" => \E x \in Range(es) : x.do = "stop" /\ x.f = e.f)
      BY <1>7, <2>1
    <3> QED BY <1>2, <1>9, <3>1 DEF EventFits, WillStop
  <2>2. CASE e \in Range(agenda)
    <3>1. EventFits(e, F) /\ (e.do = "start" => WillStop(e.f))
      BY <1>5, <2>2 DEF Follows
    <3>2. EventFits(e, F)'
      BY <1>2, <3>1 DEF EventFits
    <3> QED BY <1>14, <3>1, <3>2
  <2> QED BY <1>9, <2>1, <2>2
<1>17. ASSUME Beamforming, NEW f \in F, f.from # BS, WillStop(f)' \/ Open(f)'
       PROVE  HasPattern(f)'
  <2>1. WillStop(f) \/ Open(f)
    BY <1>2, <1>4, <1>15, <1>17 DEF Open
  <2>2. HasPattern(f)
    BY <1>5, <1>17, <2>1 DEF Follows
  <2>3. ASSUME NEW e \in Range(agenda), e.do = "set", e.f.to = f.from, e.f.start = f.start
        PROVE  HasPattern(f)'
    <3>1. e \in Range(agenda')
      BY <1>9
    <3> QED BY <2>3, <3>1 DEF HasPattern
  <2>4. ASSUME NEW p \in Functor, Prepared(p), ~IsSent(p), p.to = f.from, p.start = f.start
        PROVE  HasPattern(f)'
    <3>1. PICK q \in Range(scheduledUL) : Moved(q, now) = p
      BY <1>2, <2>4 DEF Prepared
    <3>2. PICK e \in Range(es) : e.do = "set" /\ e.f = p
      BY <1>7, <2>4, <3>1
    <3>3. e \in Range(agenda')
      BY <1>9
    <3> QED BY <2>4, <3>2, <3>3 DEF HasPattern
  <2>5. ASSUME pattern[f.from] = f.start, f.start <= now
        PROVE  HasPattern(f)'
    BY <1>2, <2>5 DEF HasPattern
  <2> QED BY <2>2, <2>3, <2>4, <2>5 DEF HasPattern
<1>18. Scheduled(F)'
  <2>1. Range(scheduledUL') = {}
    BY <1>2 DEF Range
  <2> QED BY <1>2, <1>4, <1>5, <2>1 DEF Follows, Scheduled
<1>19. GrantsFit(F)'
  <2>1. BS \notin Subscriber
    BY AccessAssumption
  <2>2. \A f : WillStop(f)' /\ f.from \in Subscriber => WillStop(f)
    BY <1>15, <2>1
  <2> QED BY <1>2, <1>4, <1>5, <2>2 DEF Follows, GrantsFit
<1>20. NoRivals'
  BY <1>5, <1>15 DEF Follows, NoRivals, Rivals
<1>21. \A f \in onAir' : f \in F /\ IsSent(f) /\ f.start <= now' /\ WillStop(f)'
  BY <1>2, <1>5, <1>14 DEF Follows
<1>22. Follows(F)'
  BY <1>13, <1>16, <1>17, <1>18, <1>19, <1>20, <1>21 DEF Follows
<1>23. \E G \in SUBSET Functor : Follows(G)'
  BY <1>22
<1> QED BY <1>10, <1>11, <1>12, <1>23 DEF AccessInv

\* A subscriber sends in some of its grants, one burst in each: whatever it
\* sends is of the plan, and its pattern is where it was.
LEMMA DeliverScheduleStep ==
  ASSUME AccessInv, NEW s \in Subscriber, DeliverSchedule(s)
  PROVE  AccessInv'
<1>1. /\ AccessTyped /\ StageOK /\ ListensUnlessSending
  BY DEF AccessInv
<1>2. /\ stage = "uplink" /\ stage' = stage /\ now = ULStart
      /\ granted[s] # << >> /\ granted' = [granted EXCEPT ![s] = << >>]
      /\ now' = now /\ frame' = frame /\ scheduledDL' = scheduledDL /\ scheduledUL' = scheduledUL
      /\ onAir' = onAir /\ listening' = listening /\ pattern' = pattern
  BY DEF DeliverSchedule
<1>3. PICK grants \in SUBSET Range(granted[s]) :
        \E used \in [grants -> Burst] :
          /\ \A c \in grants : used[c] \in Filling(c)
          /\ agenda' = agenda \o EventsOfAll(SlaveFunctors(s, used))
  BY DEF DeliverSchedule
<1>4. PICK used \in [grants -> Burst] :
        /\ \A c \in grants : used[c] \in Filling(c)
        /\ agenda' = agenda \o EventsOfAll(SlaveFunctors(s, used))
  BY <1>3
<1>5. /\ now \in Nat /\ frame \in Nat /\ agenda \in Seq(Agendum)
      /\ granted \in [Subscriber -> Seq(Compound)] /\ granted[s] \in Seq(Compound)
  BY <1>1, AccessAssumption DEF AccessTyped
<1>6. /\ DLStart' = DLStart /\ ULStart' = ULStart
      /\ \A c, b, t : Reply(c, b, t)' = Reply(c, b, t)
  BY <1>2, SameFrame
<1>7. PICK F \in SUBSET Functor : Follows(F)
  BY DEF AccessInv
<1>8. BS \notin Subscriber
  BY AccessAssumption
<1> DEFINE queue == SlaveFunctors(s, used)
<1>9. /\ queue \in Seq(Functor)
      /\ \A q : q \in Range(queue) <=> \E c \in grants : q = ULFunctor(Answer(c, used[c]), s)
  BY <1>4, <1>5, SlaveFunctorsAre
<1>10. agenda' = agenda \o EventsOfAll(queue)
  BY <1>4
<1> HIDE DEF queue
<1>11. \A q \in Range(queue) : \E c \in grants : Moved(q, now) = Reply(c, used[c], s)
  BY <1>2, <1>9 DEF Reply
<1>12. \A c \in grants : Reply(c, used[c], s) \in F
  BY <1>4, <1>7 DEF Follows, GrantsFit
<1>13. \A q \in Range(queue) : q.from = s /\ Moved(q, now) \in F
  BY <1>9, <1>11, <1>12 DEF ULFunctor
<1> DEFINE es == EventsOfAll(queue)
<1>14. /\ es \in Seq(Agendum)
       /\ \A e \in Range(es) :
            /\ EventFits(e, F) /\ e.f.from = s
            /\ \E q \in Range(queue) : e.f = Moved(q, now)
            /\ e.do = "start" => \E x \in Range(es) : x.do = "stop" /\ x.f = e.f
  <2>1. Ready(queue, s, F)
    BY <1>13 DEF Ready
  <2>2. EventsFit(es, queue, s, F)
    <3> HIDE DEF es
    <3>1. EventsFit(EventsOfAll(queue), queue, s, F)
      BY <1>5, <1>9, <2>1, DeliveredIs
    <3> QED BY <3>1 DEF es
  <2> HIDE DEF es
  <2> QED BY <2>2 DEF EventsFit
<1>15. agenda' = agenda \o es
  BY <1>10
<1> HIDE DEF es
<1>16. /\ agenda' \in Seq(Agendum)
       /\ \A e : e \in Range(agenda') <=> e \in Range(agenda) \/ e \in Range(es)
  BY <1>5, <1>14, <1>15, ConcatIs
<1>17. /\ \A t \in Subscriber : t # s => granted'[t] = granted[t]
       /\ granted'[s] = << >> /\ Range(granted'[s]) = {}
       /\ granted' \in [Subscriber -> Seq(Compound)]
  <2>1. << >> \in Seq(Compound) /\ Range(<< >>) = {}
    BY DEF Range
  <2> QED BY <1>2, <1>5, <2>1
<1>18. AccessTyped'
  BY <1>1, <1>2, <1>16, <1>17 DEF AccessTyped
<1>19. StageOK'
  BY <1>1, <1>2, <1>6 DEF StageOK, PhaseLength
<1>20. ListensUnlessSending'
  BY <1>1, <1>2 DEF ListensUnlessSending, Sends
<1>21. GoodPlan(F)'
  BY <1>2, <1>7, SameFrame DEF Follows
<1>22. \A f : WillStop(f) => WillStop(f)'
  BY <1>16 DEF WillStop
<1>23. \A f : WillStop(f) => f.from # s
  BY <1>2, <1>7 DEF Follows, GrantsFit
<1>24. ASSUME NEW f, WillStop(f)'
       PROVE  \/ WillStop(f)
              \/ f.from = s /\ \E c \in grants : f = Reply(c, used[c], s)
  <2>1. PICK e \in Range(agenda') : e.do = "stop" /\ e.f = f
    BY <1>24 DEF WillStop
  <2>2. e \in Range(agenda) => WillStop(f)
    BY <2>1 DEF WillStop
  <2>3. e \in Range(es) => f.from = s /\ \E c \in grants : f = Reply(c, used[c], s)
    BY <1>11, <1>14, <2>1
  <2> QED BY <1>16, <2>2, <2>3
<1>25. \A e \in Range(agenda') : EventFits(e, F)' /\ (e.do = "start" => WillStop(e.f)')
  <2> TAKE e \in Range(agenda')
  <2>1. CASE e \in Range(es)
    <3>1. EventFits(e, F) /\ (e.do = "start" => \E x \in Range(es) : x.do = "stop" /\ x.f = e.f)
      BY <1>14, <2>1
    <3> QED BY <1>2, <1>16, <3>1 DEF EventFits, WillStop
  <2>2. CASE e \in Range(agenda)
    <3>1. EventFits(e, F) /\ (e.do = "start" => WillStop(e.f))
      BY <1>7, <2>2 DEF Follows
    <3>2. EventFits(e, F)'
      BY <1>2, <3>1 DEF EventFits
    <3> QED BY <1>22, <3>1, <3>2
  <2> QED BY <1>16, <2>1, <2>2
<1>26. ASSUME Beamforming, NEW f \in F, f.from # BS, WillStop(f)' \/ Open(f)'
       PROVE  HasPattern(f)'
  <2>1. WillStop(f) \/ Open(f)
    <3>1. ASSUME NEW c \in grants, f.from = s, f = Reply(c, used[c], s) PROVE Open(f)
      BY <1>4, <3>1 DEF Open
    <3>2. ASSUME Open(f)' PROVE Open(f)
      <4>1. f.from \in Subscriber /\ f.from # s
        BY <1>17, <3>2 DEF Open
      <4> QED BY <1>6, <1>17, <3>2, <4>1 DEF Open
    <3> QED BY <1>24, <1>26, <3>1, <3>2
  <2>2. HasPattern(f)
    BY <1>7, <1>26, <2>1 DEF Follows
  <2>3. \A e \in Range(agenda) : e.do = "set" => e \in Range(agenda')
    BY <1>16
  <2>4. \A p : Prepared(p) => Prepared(p)'
    BY <1>2, <1>6 DEF Prepared
  <2> QED BY <1>2, <2>2, <2>3, <2>4 DEF HasPattern
<1>27. Scheduled(F)'
  BY <1>2, <1>6, <1>7 DEF Follows, Scheduled
<1>28. GrantsFit(F)'
  <2> SUFFICES ASSUME NEW t \in Subscriber
      PROVE  /\ \A c \in Range(granted'[t]) : \A b \in Filling(c) : Reply(c, b, t)' \in F
             /\ \A c, d \in Range(granted'[t]) : StartTime(c) = StartTime(d) => c = d
             /\ granted'[t] # << >> => now' <= ULStart' /\ \A f : WillStop(f)' => f.from # t
    BY DEF GrantsFit
  <2>1. CASE t = s
    BY <1>17, <2>1
  <2>2. CASE t # s
    <3>1. \A f : WillStop(f)' /\ f.from = t => WillStop(f)
      BY <1>24, <2>2
    <3> QED BY <1>2, <1>6, <1>7, <1>17, <2>2, <3>1 DEF Follows, GrantsFit
  <2> QED BY <2>1, <2>2
<1>29. NoRivals'
  <2> SUFFICES ASSUME NEW f, NEW g, WillStop(f)', WillStop(g)', Rivals(f, g) PROVE f = g
    BY DEF NoRivals
  <2>1. f.from = g.from /\ f.start = g.start
    BY DEF Rivals
  <2>2. CASE f.from # s
    <3>1. WillStop(f) /\ WillStop(g)
      BY <1>24, <2>1, <2>2
    <3> QED BY <1>7, <3>1 DEF Follows, NoRivals
  <2>3. CASE f.from = s
    <3>1. PICK c \in grants : f = Reply(c, used[c], s)
      BY <1>23, <1>24, <2>3
    <3>2. PICK d \in grants : g = Reply(d, used[d], s)
      BY <1>23, <1>24, <2>1, <2>3
    <3>3. c \in Compound /\ d \in Compound
      <4>1. \A x \in Range(granted[s]) : x \in Compound
        BY <1>5, SeqIs DEF Range
      <4> QED BY <4>1
    <3>4. f.start = ULStart + StartTime(c) /\ g.start = ULStart + StartTime(d)
      BY <1>4, <1>5, <3>1, <3>2, <3>3, ReplyIs
    <3>5. StartTime(c) \in Nat /\ StartTime(d) \in Nat /\ ULStart \in Nat
      <4>1. \A x \in Compound : StartTime(x) \in Nat
        BY CompoundTimes
      <4> QED BY <1>5, <3>3, <4>1, FrameTimes
    <3>6. StartTime(c) = StartTime(d)
      <4>1. \A m, n, u \in Nat : u + m = u + n => m = n
        OBVIOUS
      <4>2. ULStart + StartTime(c) = ULStart + StartTime(d)
        BY <2>1, <3>4
      <4> QED BY <3>5, <4>1, <4>2
    <3>7. c = d
      BY <1>7, <3>6 DEF Follows, GrantsFit
    <3> QED BY <3>1, <3>2, <3>7
  <2> QED BY <2>2, <2>3
<1>30. \A f \in onAir' : f \in F /\ IsSent(f) /\ f.start <= now' /\ WillStop(f)'
  BY <1>2, <1>7, <1>22 DEF Follows
<1>31. Follows(F)'
  BY <1>21, <1>25, <1>26, <1>27, <1>28, <1>29, <1>30 DEF Follows
<1>32. \E G \in SUBSET Functor : Follows(G)'
  BY <1>31
<1> QED BY <1>18, <1>19, <1>20, <1>32 DEF AccessInv

---------------------------------------------------------------------------
(* What an event does.                                                     *)

\* The event that is next, and the agenda without it.
LEMMA EventIs ==
  ASSUME AccessInv, NEW F \in SUBSET Functor, Follows(F), NEW i \in DOMAIN agenda,
         NEW do, Due(do, i)
  PROVE  /\ agenda' \in Seq(Agendum) /\ Range(agenda') \subseteq Range(agenda)
         /\ \A e \in Range(agenda) : e # agenda[i] => e \in Range(agenda')
         /\ agenda[i] \in Range(agenda) /\ agenda[i].at = now /\ agenda[i].do = do
         /\ agenda[i].f \in F /\ agenda[i].f.from \in Transceiver
         /\ IsSent(agenda[i].f) => \/ do = "start" /\ now = agenda[i].f.start
                                   \/ do = "stop" /\ now = agenda[i].f.stop
         /\ ~IsSent(agenda[i].f) => do = "set" /\ now = agenda[i].f.start
         /\ stage = "uplink"
<1>1. agenda \in Seq(Agendum) /\ StageOK
  BY DEF AccessInv, AccessTyped
<1>2. agenda[i].at = now /\ agenda[i].do = do /\ agenda' = RemoveAt(agenda, i)
  BY DEF Due, IsNext
<1>3. /\ agenda' \in Seq(Agendum) /\ Range(agenda') \subseteq Range(agenda)
      /\ \A e \in Range(agenda) : e # agenda[i] => e \in Range(agenda')
  BY <1>1, <1>2, RemoveAtIs
<1> DEFINE d == agenda[i]
<1>4. d \in Range(agenda)
  BY DEF Range
<1> HIDE DEF d
<1>5. EventFits(d, F)
  BY <1>4 DEF Follows
<1>6. d.f \in F /\ d.f.from \in Transceiver
  BY <1>5 DEF EventFits, Functor
<1>7. stage = "uplink"
  <2>1. agenda # << >>
    BY DEF Due
  <2>2. stage \in {"map", "downlink", "uplink"}
    BY DEF AccessInv, AccessTyped
  <2> QED BY <1>1, <2>1, <2>2 DEF StageOK
<1>8. d.at = now /\ d.do = do
  BY <1>2 DEF d
<1>9. /\ IsSent(d.f) => \/ do = "start" /\ now = d.f.start
                        \/ do = "stop" /\ now = d.f.stop
      /\ ~IsSent(d.f) => do = "set" /\ now = d.f.start
  BY <1>5, <1>8 DEF EventFits
<1> QED BY <1>3, <1>4, <1>6, <1>7, <1>8, <1>9 DEF d

\* The plan is followed on, if the event leaves those on the air their ends and
\* the bursts to come their patterns.
LEMMA EventDone ==
  ASSUME AccessInv, NEW F \in SUBSET Functor, Follows(F),
         UNCHANGED <<now, frame, stage, scheduledDL, scheduledUL, granted>>, stage = "uplink",
         Range(agenda') \subseteq Range(agenda),
         \A e \in Range(agenda) : e.do = "start" => WillStop(e.f)',
         \A f \in onAir' : f \in F /\ IsSent(f) /\ f.start <= now /\ WillStop(f)',
         \A f \in F : /\ Beamforming /\ f.from # BS /\ HasPattern(f)
                      /\ WillStop(f) \/ Open(f)
                      => HasPattern(f)'
  PROVE  StageOK' /\ Follows(F)'
<1>1. DLStart' = DLStart /\ ULStart' = ULStart /\ PhaseLength' = PhaseLength
  BY SameFrame DEF PhaseLength
<1>2. StageOK'
  <2>1. StageOK
    BY DEF AccessInv
  <2> QED BY <1>1, <2>1 DEF StageOK
<1>3. GoodPlan(F)'
  BY SameFrame DEF Follows
<1>4. \A f : WillStop(f)' => WillStop(f)
  BY DEF WillStop
<1>5. Scheduled(F)' /\ GrantsFit(F)' /\ NoRivals'
  <2>1. Scheduled(F) /\ GrantsFit(F) /\ NoRivals
    BY DEF Follows
  <2>2. Scheduled(F)'
    BY <1>1, <2>1 DEF Scheduled
  <2>3. GrantsFit(F)'
    <3>1. \A c, b, s : Reply(c, b, s)' = Reply(c, b, s)
      BY SameFrame
    <3> QED BY <1>1, <1>4, <2>1, <3>1 DEF GrantsFit
  <2> QED BY <1>4, <2>1, <2>2, <2>3 DEF NoRivals
<1>6. \A e \in Range(agenda') : EventFits(e, F)' /\ (e.do = "start" => WillStop(e.f)')
  <2> TAKE e \in Range(agenda')
  <2>1. e \in Range(agenda) /\ EventFits(e, F)
    BY DEF Follows
  <2> QED BY <2>1 DEF EventFits
<1>7. ASSUME Beamforming, NEW f \in F, f.from # BS, WillStop(f)' \/ Open(f)'
      PROVE  HasPattern(f)'
  <2>1. Open(f)' => Open(f)
    <3>1. \A c, b, s : Reply(c, b, s)' = Reply(c, b, s)
      BY SameFrame
    <3> QED BY <3>1 DEF Open
  <2>2. HasPattern(f)
    BY <1>4, <1>7, <2>1 DEF Follows
  <2> QED BY <1>4, <1>7, <2>1, <2>2
<1>8. \A f \in onAir' : f \in F /\ IsSent(f) /\ f.start <= now' /\ WillStop(f)'
  OBVIOUS
<1> QED BY <1>2, <1>3, <1>5, <1>6, <1>7, <1>8 DEF Follows

\* While no pattern is set, the bursts to come keep theirs.
LEMMA PatternsStay ==
  ASSUME UNCHANGED <<now, frame, scheduledUL, pattern>>, NEW f,
         \A e \in Range(agenda) : e.do = "set" => e \in Range(agenda')
  PROVE  HasPattern(f) => HasPattern(f)'
<1>1. ULStart' = ULStart
  BY SameFrame
<1>2. \A p : Prepared(p) => Prepared(p)'
  BY <1>1 DEF Prepared
<1> QED BY <1>2 DEF HasPattern

\* Two transmissions that are on the air at the same tick are one, or in two
\* beams of a slot.
LEMMA OneAtATime ==
  ASSUME NEW F \in SUBSET Functor, GoodPlan(F), now \in Nat, NEW f \in F, NEW g \in F,
         IsSent(f), IsSent(g),
         f.start <= now, now <= f.stop, g.start <= now, now <= g.stop,
         Rivals(f, g) => f = g
  PROVE  f = g \/ Beside(f, g)
<1>1. f.start \in Nat /\ f.stop \in Nat /\ g.start \in Nat /\ g.stop \in Nat
  BY DEF Functor
<1>2. f # g => f.stop < g.start \/ g.stop < f.start \/ Beside(f, g) \/ Rivals(f, g)
  BY DEF GoodPlan
<1> QED BY <1>1, <1>2

\* What will stop, stops in time.
LEMMA StopsLater ==
  ASSUME NEW F \in SUBSET Functor, Follows(F), NEW f, WillStop(f)
  PROVE  f \in F /\ IsSent(f) /\ now <= f.stop
<1>1. PICK e \in Range(agenda) : e.do = "stop" /\ e.f = f
  BY DEF WillStop
<1>2. EventFits(e, F)
  BY DEF Follows
<1> QED BY <1>1, <1>2 DEF EventFits

\* The start of a transmission.
LEMMA StartStep ==
  ASSUME AccessInv, NEW i \in DOMAIN agenda, StartTransmission(i)
  PROVE  AccessInv'
<1>1. /\ Due("start", i) /\ onAir' = onAir \cup {agenda[i].f}
      /\ listening' = [listening EXCEPT ![agenda[i].f.from] = FALSE]
      /\ UNCHANGED <<now, frame, stage, scheduledDL, scheduledUL, granted, pattern>>
  BY DEF StartTransmission
<1>2. AccessTyped /\ ListensUnlessSending
  BY DEF AccessInv
<1>3. PICK F \in SUBSET Functor : Follows(F)
  BY DEF AccessInv
<1> DEFINE d == agenda[i]
<1>4. /\ agenda' \in Seq(Agendum) /\ Range(agenda') \subseteq Range(agenda)
      /\ \A e \in Range(agenda) : e # d => e \in Range(agenda')
      /\ d \in Range(agenda) /\ d.do = "start"
      /\ d.f \in F /\ d.f.from \in Transceiver
      /\ IsSent(d.f) /\ now = d.f.start
      /\ stage = "uplink"
  BY <1>1, <1>3, EventIs
<1>5. onAir' = onAir \cup {d.f} /\ listening' = [listening EXCEPT ![d.f.from] = FALSE]
  BY <1>1
<1> HIDE DEF d
<1>6. \A f : WillStop(f) => WillStop(f)'
  BY <1>4 DEF WillStop
<1>7. d.f \in Functor
  BY <1>4
<1>8. AccessTyped'
  <2>1. onAir' \subseteq Functor /\ listening' \in [Transceiver -> BOOLEAN]
    BY <1>2, <1>5, <1>7 DEF AccessTyped
  <2> QED BY <1>1, <1>2, <1>4, <2>1 DEF AccessTyped
<1>9. ListensUnlessSending'
  <2> SUFFICES ASSUME NEW s \in Transceiver
               PROVE  /\ ~Sends(s)' => listening'[s]
                      /\ Sends(s)' /\ (s = BS => Layers = 1) => ~listening'[s]
    BY DEF ListensUnlessSending
  <2>1. /\ ~Sends(s) => listening[s]
        /\ Sends(s) /\ (s = BS => Layers = 1) => ~listening[s]
    BY <1>2 DEF ListensUnlessSending
  <2>2. listening \in [Transceiver -> BOOLEAN]
    BY <1>2 DEF AccessTyped
  <2>3. CASE s = d.f.from
    BY <1>5, <2>2, <2>3 DEF Sends
  <2>4. CASE s # d.f.from
    <3>1. Sends(s)' <=> Sends(s)
      BY <1>5, <2>4 DEF Sends
    <3>2. listening'[s] = listening[s]
      BY <1>5, <2>2, <2>4
    <3> QED BY <2>1, <3>1, <3>2
  <2> QED BY <2>3, <2>4
<1>10. now \in Nat
  BY <1>2 DEF AccessTyped
<1>11. StageOK' /\ Follows(F)'
  <2>1. \A e \in Range(agenda) : e.do = "start" => WillStop(e.f)'
    BY <1>3, <1>6 DEF Follows
  <2>2. \A f \in onAir' : f \in F /\ IsSent(f) /\ f.start <= now /\ WillStop(f)'
    <3>1. \A f \in onAir : f \in F /\ IsSent(f) /\ f.start <= now /\ WillStop(f)
      BY <1>3 DEF Follows
    <3>2. d.f.start <= now
      BY <1>4, <1>10
    <3> QED BY <1>4, <1>5, <1>6, <2>1, <3>1, <3>2
  <2>3. \A f \in F : HasPattern(f) => HasPattern(f)'
    BY <1>1, <1>4, PatternsStay
  <2> QED BY <1>1, <1>3, <1>4, <2>1, <2>2, <2>3, EventDone
<1>12. \E G \in SUBSET Functor : Follows(G)'
  BY <1>11
<1> QED BY <1>8, <1>9, <1>11, <1>12 DEF AccessInv


\* The end of a transmission: its station was on the air with no other, but for a
\* base station in other beams.
LEMMA StopStep ==
  ASSUME AccessInv, NEW i \in DOMAIN agenda, StopTransmission(i)
  PROVE  AccessInv'
<1>1. /\ Due("stop", i) /\ onAir' = onAir \ {agenda[i].f}
      /\ listening' = [listening EXCEPT ![agenda[i].f.from] = TRUE]
      /\ UNCHANGED <<now, frame, stage, scheduledDL, scheduledUL, granted, pattern>>
  BY DEF StopTransmission, Reception
<1>2. AccessTyped /\ ListensUnlessSending
  BY DEF AccessInv
<1>3. PICK F \in SUBSET Functor : Follows(F)
  BY DEF AccessInv
<1> DEFINE d == agenda[i]
           h == d.f
<1>4. /\ agenda' \in Seq(Agendum) /\ Range(agenda') \subseteq Range(agenda)
      /\ \A e \in Range(agenda) : e # d => e \in Range(agenda')
      /\ d \in Range(agenda) /\ d.do = "stop"
      /\ h \in F /\ h.from \in Transceiver
      /\ IsSent(h) /\ now = h.stop
      /\ stage = "uplink"
  BY <1>1, <1>3, EventIs
<1>5. onAir' = onAir \ {h} /\ listening' = [listening EXCEPT ![h.from] = TRUE]
  BY <1>1
<1>6. \A e \in Range(agenda) : e.f # h \/ e.do # "stop" => e \in Range(agenda')
  BY <1>4
<1>6a. WillStop(h)
  BY <1>4 DEF WillStop
<1> HIDE DEF d, h
<1>7. now \in Nat /\ GoodPlan(F)
  BY <1>2, <1>3 DEF AccessTyped, Follows
<1>8. h \in Functor /\ h.start \in Nat /\ h.stop \in Nat /\ h.start < h.stop
  BY <1>4, <1>7 DEF GoodPlan, Functor
<1>9. \A f : f # h /\ WillStop(f) => WillStop(f)'
  BY <1>6 DEF WillStop
<1>10. ASSUME NEW f \in onAir PROVE f \in F /\ IsSent(f) /\ f.start <= now /\ WillStop(f) /\ now <= f.stop
  BY <1>3, StopsLater DEF Follows
<1>11. ASSUME NEW f \in onAir, f.from = h.from, h.from = BS => Layers = 1
       PROVE  f = h
  <2>1. h.start <= now /\ now <= h.stop
    BY <1>4, <1>7, <1>8
  <2>3. Rivals(f, h) => f = h
    BY <1>3, <1>6a, <1>10 DEF Follows, NoRivals
  <2>4. f = h \/ Beside(f, h)
    BY <1>4, <1>7, <1>10, <2>1, <2>3, OneAtATime
  <2>5. ~Beside(f, h)
    <3>1. f.layer \in 0..(Layers - 1) /\ h.layer \in 0..(Layers - 1)
      BY <1>8, <1>10 DEF Functor
    <3>2. Layers = 1 => f.layer = h.layer
      BY <3>1
    <3> QED BY <1>11, <3>2 DEF Beside
  <2> QED BY <2>4, <2>5
<1>12. AccessTyped'
  <2>1. onAir' \subseteq Functor /\ listening' \in [Transceiver -> BOOLEAN]
    BY <1>2, <1>5 DEF AccessTyped
  <2> QED BY <1>1, <1>2, <1>4, <2>1 DEF AccessTyped
<1>13. ListensUnlessSending'
  <2> SUFFICES ASSUME NEW s \in Transceiver
               PROVE  /\ ~Sends(s)' => listening'[s]
                      /\ Sends(s)' /\ (s = BS => Layers = 1) => ~listening'[s]
    BY DEF ListensUnlessSending
  <2>1. /\ ~Sends(s) => listening[s]
        /\ Sends(s) /\ (s = BS => Layers = 1) => ~listening[s]
    BY <1>2 DEF ListensUnlessSending
  <2>2. listening \in [Transceiver -> BOOLEAN]
    BY <1>2 DEF AccessTyped
  <2>3. CASE s = h.from
    <3>1. listening'[s]
      BY <1>5, <2>2, <2>3
    <3>2. (s = BS => Layers = 1) => ~Sends(s)'
      BY <1>5, <1>11, <2>3 DEF Sends
    <3> QED BY <3>1, <3>2
  <2>4. CASE s # h.from
    <3>1. Sends(s)' <=> Sends(s)
      BY <1>5, <2>4 DEF Sends
    <3>2. listening'[s] = listening[s]
      BY <1>5, <2>2, <2>4
    <3> QED BY <2>1, <3>1, <3>2
  <2> QED BY <2>3, <2>4
<1>14. StageOK' /\ Follows(F)'
  <2>1. \A e \in Range(agenda) : e.do = "start" => WillStop(e.f)'
    <3> SUFFICES ASSUME NEW e \in Range(agenda), e.do = "start" PROVE WillStop(e.f)'
      OBVIOUS
    <3>1. EventFits(e, F) /\ WillStop(e.f)
      BY <1>3 DEF Follows
    <3>2. IsSent(e.f) /\ e.at = e.f.start /\ e.at >= now
      BY <3>1 DEF EventFits
    <3>3. e.f # h
      BY <1>4, <1>8, <3>2
    <3> QED BY <1>9, <3>1, <3>3
  <2>2. \A f \in onAir' : f \in F /\ IsSent(f) /\ f.start <= now /\ WillStop(f)'
    BY <1>5, <1>9, <1>10
  <2>3. \A f \in F : HasPattern(f) => HasPattern(f)'
    BY <1>1, <1>4, PatternsStay
  <2> QED BY <1>1, <1>3, <1>4, <2>1, <2>2, <2>3, EventDone
<1>15. \E G \in SUBSET Functor : Follows(G)'
  BY <1>14
<1> QED BY <1>12, <1>13, <1>14, <1>15 DEF AccessInv

\* A pattern that is set replaces that of a burst which is over.
LEMMA SetStep ==
  ASSUME AccessInv, NEW i \in DOMAIN agenda, SetPattern(i)
  PROVE  AccessInv'
<1>1. /\ Due("set", i)
      /\ pattern' = [pattern EXCEPT ![agenda[i].f.to] = agenda[i].f.start]
      /\ UNCHANGED <<now, frame, stage, scheduledDL, scheduledUL, granted, onAir, listening>>
  BY DEF SetPattern
<1>2. AccessTyped /\ ListensUnlessSending
  BY DEF AccessInv
<1>3. PICK F \in SUBSET Functor : Follows(F)
  BY DEF AccessInv
<1> DEFINE d == agenda[i]
           p == d.f
<1>4. /\ agenda' \in Seq(Agendum) /\ Range(agenda') \subseteq Range(agenda)
      /\ \A e \in Range(agenda) : e # d => e \in Range(agenda')
      /\ d \in Range(agenda) /\ d.do = "set"
      /\ p \in F /\ ~IsSent(p) /\ now = p.start
      /\ stage = "uplink"
  BY <1>1, <1>3, EventIs
<1>5. pattern' = [pattern EXCEPT ![p.to] = p.start]
  BY <1>1
<1> HIDE DEF d
<1>6. \A e \in Range(agenda) : e.do # "set" => e \in Range(agenda')
  BY <1>4
<1>7. d.f = p
  OBVIOUS
<1> HIDE DEF p
<1>8. now \in Nat /\ frame \in Nat /\ GoodPlan(F) /\ DOMAIN pattern = Subscriber
  BY <1>2, <1>3, AccessAssumption DEF AccessTyped, Follows
<1>9. \A f : WillStop(f) => WillStop(f)'
  BY <1>6 DEF WillStop
<1>10. AccessTyped'
  BY <1>1, <1>2, <1>4, <1>5 DEF AccessTyped
<1>11. ListensUnlessSending'
  BY <1>1, <1>2 DEF ListensUnlessSending, Sends
<1>12. ULStart' = ULStart /\ ULStart \in Nat
  BY <1>1, <1>8, SameFrame, FrameTimes
<1>13. ASSUME NEW f \in F, f.from # BS, HasPattern(f), WillStop(f) \/ Open(f)
       PROVE  HasPattern(f)'
  <2>1. /\ f.start \in Nat /\ f.stop \in Nat /\ f.start < f.stop /\ ULStart <= f.start
        /\ f.from \in Subscriber
    BY <1>8, <1>13 DEF GoodPlan, Functor, Transceiver
  <2>2. now <= f.stop
    <3>1. CASE WillStop(f)
      BY <1>3, <3>1, StopsLater
    <3>2. CASE Open(f)
      <4>1. granted[f.from] # << >>
        BY <3>2 DEF Open, Range
      <4>2. now <= ULStart
        BY <1>3, <2>1, <4>1 DEF Follows, GrantsFit
      <4> QED BY <1>8, <1>12, <2>1, <4>2
    <3> QED BY <1>13, <3>1, <3>2
  <2>3. f.from = p.to => p.start = f.start \/ p.start < f.start
    <3>1. p.start \in Nat
      BY <1>4, <1>8
    <3> QED BY <1>4, <1>8, <1>13, <2>1, <2>2, <3>1 DEF GoodPlan
  <2>4. CASE pattern[f.from] = f.start /\ f.start <= now
    <3>1. CASE f.from = p.to
      <4>1. pattern'[f.from] = p.start /\ p.start = f.start
        BY <1>4, <1>5, <1>8, <2>1, <2>3, <2>4, <3>1
      <4> QED BY <1>1, <2>4, <4>1 DEF HasPattern
    <3>2. CASE f.from # p.to
      BY <1>1, <1>5, <1>8, <2>1, <2>4, <3>2 DEF HasPattern
    <3> QED BY <3>1, <3>2
  <2>5. ASSUME NEW e \in Range(agenda), e.do = "set", e.f.to = f.from, e.f.start = f.start
        PROVE  HasPattern(f)'
    <3>1. CASE e = d
      <4>1. p.to = f.from /\ p.start = f.start
        BY <1>7, <2>5, <3>1
      <4>2. pattern'[f.from] = f.start /\ f.start <= now'
        BY <1>1, <1>4, <1>5, <1>8, <2>1, <4>1
      <4> QED BY <4>2 DEF HasPattern
    <3>2. CASE e # d
      <4>1. e \in Range(agenda')
        BY <1>4, <3>2
      <4> QED BY <2>5, <4>1 DEF HasPattern
    <3> QED BY <3>1, <3>2
  <2>6. ASSUME NEW q \in Functor, Prepared(q), ~IsSent(q), q.to = f.from, q.start = f.start
        PROVE  HasPattern(f)'
    <3>1. Prepared(q)'
      BY <1>1, <1>12, <2>6 DEF Prepared
    <3> QED BY <2>6, <3>1 DEF HasPattern
  <2> QED BY <1>13, <2>4, <2>5, <2>6 DEF HasPattern
<1>14. StageOK' /\ Follows(F)'
  <2>1. \A e \in Range(agenda) : e.do = "start" => WillStop(e.f)'
    BY <1>3, <1>9 DEF Follows
  <2>2. \A f \in onAir' : f \in F /\ IsSent(f) /\ f.start <= now /\ WillStop(f)'
    BY <1>1, <1>3, <1>9 DEF Follows
  <2>3. UNCHANGED <<now, frame, stage, scheduledDL, scheduledUL, granted>>
    BY <1>1
  <2> QED BY <1>3, <1>4, <1>13, <2>1, <2>2, <2>3, EventDone
<1>15. \E G \in SUBSET Functor : Follows(G)'
  BY <1>14
<1> QED BY <1>10, <1>11, <1>14, <1>15 DEF AccessInv


---------------------------------------------------------------------------
(* Time goes on once everything that is due has been done.                 *)

\* What is settled is ahead: the events, and the end of the deliveries.
LEMMA SettledIs ==
  ASSUME AccessInv, Settled, NEW F \in SUBSET Functor, Follows(F)
  PROVE  /\ now \in Nat /\ ULStart \in Nat /\ stage = "uplink"
         /\ \A e \in Range(agenda) : EventFits(e, F) /\ e.at \in Nat /\ now + 1 <= e.at
         /\ scheduledUL # << >> => now + 1 <= ULStart
         /\ \A s \in Subscriber : granted[s] # << >> => now + 1 <= ULStart
<1>1. now \in Nat /\ frame \in Nat /\ agenda \in Seq(Agendum) /\ stage = "uplink"
  BY AccessAssumption DEF AccessInv, AccessTyped, Settled
<1>2. ULStart \in Nat
  BY <1>1, FrameTimes
<1>3. ASSUME NEW i \in DOMAIN agenda
      PROVE  EventFits(agenda[i], F) /\ agenda[i].at \in Nat /\ now + 1 <= agenda[i].at
  <2> DEFINE e == agenda[i]
  <2>1. e \in Range(agenda) /\ e \in Agendum /\ e.at # now
    BY <1>1, SeqIs DEF Range, Settled
  <2> HIDE DEF e
  <2>2. EventFits(e, F)
    BY <2>1 DEF Follows
  <2>3. e.at >= now /\ e.at \in Nat
    BY <2>1, <2>2 DEF EventFits, Agendum
  <2> QED BY <1>1, <2>1, <2>2, <2>3 DEF e
<1>4. ASSUME NEW s \in Subscriber, granted[s] # << >>
      PROVE  now + 1 <= ULStart
  <2>1. now <= ULStart
    BY <1>4 DEF Follows, GrantsFit
  <2>2. now # ULStart
    BY <1>4 DEF Settled
  <2> QED BY <1>1, <1>2, <2>1, <2>2
<1>5. ASSUME scheduledUL # << >>
      PROVE  now + 1 <= ULStart
  <2>1. now <= ULStart
    BY <1>5 DEF Follows, Scheduled
  <2>2. now # ULStart
    BY <1>5 DEF Settled
  <2> QED BY <1>1, <1>2, <2>1, <2>2
<1> QED BY <1>1, <1>2, <1>3, <1>4, <1>5 DEF Range

\* A tick within the frame.
LEMMA TickStep ==
  ASSUME AccessInv, AccessTick
  PROVE  AccessInv'
<1>1. /\ Settled /\ now + 1 < ULStart + PhaseLength /\ now' = now + 1
      /\ UNCHANGED <<frame, stage, scheduledDL, scheduledUL, granted, agenda, onAir, listening, pattern>>
  BY DEF AccessTick
<1>2. AccessTyped /\ StageOK /\ ListensUnlessSending
  BY DEF AccessInv
<1>3. PICK F \in SUBSET Functor : Follows(F)
  BY DEF AccessInv
<1>4. /\ now \in Nat /\ ULStart \in Nat /\ stage = "uplink"
      /\ \A e \in Range(agenda) : EventFits(e, F) /\ e.at \in Nat /\ now + 1 <= e.at
      /\ scheduledUL # << >> => now + 1 <= ULStart
      /\ \A s \in Subscriber : granted[s] # << >> => now + 1 <= ULStart
  BY <1>1, <1>3, SettledIs
<1>5. frame \in Nat
  BY <1>2, AccessAssumption DEF AccessTyped
<1>6. /\ DLStart' = DLStart /\ ULStart' = ULStart /\ PhaseLength' = PhaseLength
      /\ DLStart \in Nat /\ GoodPlan(F)'
  BY <1>1, <1>3, <1>5, SameFrame, FrameTimes DEF PhaseLength, Follows
<1>7. AccessTyped'
  BY <1>1, <1>2 DEF AccessTyped
<1>8. StageOK'
  BY <1>1, <1>2, <1>4, <1>6 DEF StageOK
<1>9. ListensUnlessSending'
  BY <1>1, <1>2 DEF ListensUnlessSending, Sends
<1>10. \A f : WillStop(f)' <=> WillStop(f)
  BY <1>1 DEF WillStop
<1>11. \A f : (Prepared(f)' <=> Prepared(f)) /\ (Open(f)' <=> Open(f))
  <2>1. \A c, b, s : Reply(c, b, s)' = Reply(c, b, s)
    BY <1>1, SameFrame
  <2> QED BY <1>1, <1>6, <2>1 DEF Prepared, Open
<1>12. \A f \in F : HasPattern(f) => HasPattern(f)'
  <2>1. \A f \in F : f.start \in Nat
    BY DEF Functor
  <2>2. \A f \in F : f.start <= now => f.start <= now'
    BY <1>1, <1>4, <2>1
  <2> QED BY <1>1, <1>11, <2>2 DEF HasPattern
<1>13. Scheduled(F)'
  BY <1>1, <1>3, <1>4, <1>6 DEF Follows, Scheduled
<1>14. GrantsFit(F)' /\ NoRivals'
  <2>1. \A c, b, s : Reply(c, b, s)' = Reply(c, b, s)
    BY <1>1, SameFrame
  <2>2. GrantsFit(F)'
    BY <1>1, <1>3, <1>4, <1>6, <1>10, <2>1 DEF Follows, GrantsFit
  <2> QED BY <1>3, <1>10, <2>2 DEF Follows, NoRivals
<1>15. \A e \in Range(agenda') : EventFits(e, F)' /\ (e.do = "start" => WillStop(e.f)')
  <2> TAKE e \in Range(agenda')
  <2>1. EventFits(e, F) /\ e.at \in Nat /\ now + 1 <= e.at
    BY <1>1, <1>4
  <2>2. e.do = "start" => WillStop(e.f)
    BY <1>1, <1>3 DEF Follows
  <2>3. EventFits(e, F)'
    BY <1>1, <1>4, <2>1 DEF EventFits
  <2> QED BY <1>10, <2>2, <2>3
<1>16. \A f \in onAir' : f \in F /\ IsSent(f) /\ f.start <= now' /\ WillStop(f)'
  <2> TAKE f \in onAir'
  <2>1. f \in F /\ IsSent(f) /\ f.start <= now /\ WillStop(f)
    BY <1>1, <1>3 DEF Follows
  <2>2. f.start \in Nat
    BY <2>1 DEF Functor
  <2> QED BY <1>1, <1>4, <1>10, <2>1, <2>2
<1>17. Beamforming => \A f \in F :
         f.from # BS /\ (WillStop(f)' \/ Open(f)') => HasPattern(f)'
  BY <1>3, <1>10, <1>11, <1>12 DEF Follows
<1>18. Follows(F)'
  BY <1>6, <1>13, <1>14, <1>15, <1>16, <1>17 DEF Follows
<1>19. \E G \in SUBSET Functor : Follows(G)'
  BY <1>18
<1> QED BY <1>7, <1>8, <1>9, <1>19 DEF AccessInv

\* Every burst of the frame's plan lies within the frame.
LEMMA InFrame ==
  ASSUME NEW F \in SUBSET Functor, GoodPlan(F), frame \in Nat, NEW f \in F
  PROVE  /\ f.start \in Nat /\ f.stop \in Nat /\ f.start < f.stop
         /\ f.stop < ULStart + PhaseLength
<1>1. f.start \in Nat /\ f.stop \in Nat /\ f.from \in Transceiver
  BY DEF Functor
<1>2. ULStart \in Nat /\ PhaseLength \in Nat
  BY FrameTimes
<1>3. f.start < f.stop
  BY DEF GoodPlan
<1>4. f.stop < ULStart \/ f.stop < ULStart + PhaseLength
  BY DEF GoodPlan
<1> QED BY <1>1, <1>2, <1>3, <1>4

\* The next frame: nothing is left of the one before.
LEMMA NextFrameStep ==
  ASSUME AccessInv, AccessNextFrame
  PROVE  AccessInv'
<1>1. /\ Settled /\ now + 1 = ULStart + PhaseLength /\ now' = now + 1
      /\ frame < MaxFrames /\ frame' = frame + 1 /\ stage' = "map"
      /\ UNCHANGED <<scheduledDL, scheduledUL, granted, agenda, onAir, listening, pattern>>
  BY DEF AccessNextFrame
<1>2. AccessTyped /\ StageOK /\ ListensUnlessSending
  BY DEF AccessInv
<1>3. PICK F \in SUBSET Functor : Follows(F)
  BY DEF AccessInv
<1>4. /\ now \in Nat /\ ULStart \in Nat /\ stage = "uplink"
      /\ \A e \in Range(agenda) : EventFits(e, F) /\ e.at \in Nat /\ now + 1 <= e.at
      /\ scheduledUL # << >> => now + 1 <= ULStart
      /\ \A s \in Subscriber : granted[s] # << >> => now + 1 <= ULStart
  BY <1>1, <1>3, SettledIs
<1>5. frame \in Nat /\ MaxFrames \in Nat /\ frame \in 0..MaxFrames
  BY <1>2, AccessAssumption DEF AccessTyped
<1>6. PhaseLength \in Nat \ {0} /\ ULStart = DLStart + PhaseLength /\ DLStart \in Nat
  BY <1>5, FrameTimes
<1>7. Range(agenda) = {}
  <2> SUFFICES ASSUME NEW e \in Range(agenda) PROVE FALSE
    OBVIOUS
  <2>1. EventFits(e, F) /\ e.at \in Nat /\ now + 1 <= e.at
    BY <1>4
  <2>2. e.f \in F /\ (e.at = e.f.start \/ e.at = e.f.stop)
    BY <2>1 DEF EventFits
  <2>3. /\ e.f.start \in Nat /\ e.f.stop \in Nat /\ e.f.start < e.f.stop
        /\ e.f.stop < ULStart + PhaseLength
    BY <1>3, <1>5, <2>2, InFrame DEF Follows
  <2> QED BY <1>1, <1>4, <1>6, <2>1, <2>2, <2>3
<1>8. agenda = << >>
  <2>1. agenda \in Seq(Agendum)
    BY <1>2 DEF AccessTyped
  <2>2. Len(agenda) \in Nat /\ DOMAIN agenda = 1..Len(agenda)
    BY <2>1, SeqIs
  <2>3. DOMAIN agenda = {}
    BY <1>7 DEF Range
  <2>4. Len(agenda) = 0
    <3> DEFINE n == Len(agenda)
    <3>1. n \in Nat /\ 1..n = {}
      BY <2>2, <2>3
    <3> HIDE DEF n
    <3>2. n # 0 => 1 \in 1..n
      BY <3>1
    <3> QED BY <3>1, <3>2 DEF n
  <2> QED BY <2>1, <2>4, SeqIs
<1>9. onAir = {}
  BY <1>3, <1>7 DEF Follows, WillStop
<1>10. scheduledUL = << >> /\ \A s \in Subscriber : granted[s] = << >>
  BY <1>1, <1>4, <1>6
<1>11. scheduledDL = << >>
  BY <1>2, <1>4 DEF StageOK
<1>12. now' = DLStart'
  <2> DEFINE L == PhaseLength
  <2>1. DLStart' = 2 * L * (frame + 1)
    BY <1>1 DEF DLStart, PhaseLength
  <2>2. DLStart = 2 * L * frame
    BY DEF DLStart
  <2>3. L \in Nat
    BY <1>6
  <2>4. 2 * L * (frame + 1) = 2 * L * frame + 2 * L
    <3> HIDE DEF L
    <3>1. \A a, b \in Nat : a * (b + 1) = a * b + a
      OBVIOUS
    <3>2. 2 * L \in Nat
      BY <2>3
    <3> QED BY <1>5, <3>1, <3>2
  <2>5. now' = DLStart + L + L
    BY <1>1, <1>6
  <2> HIDE DEF L
  <2>6. 2 * L = L + L /\ 2 * L \in Nat
    BY <2>3
  <2> QED BY <1>6, <2>1, <2>2, <2>3, <2>4, <2>5, <2>6
<1>13. AccessTyped'
  BY <1>1, <1>2, <1>4, <1>5 DEF AccessTyped
<1>14. StageOK'
  BY <1>1, <1>8, <1>9, <1>10, <1>11, <1>12 DEF StageOK
<1>15. ListensUnlessSending'
  BY <1>1, <1>2 DEF ListensUnlessSending, Sends
<1>16. Follows({})'
  <2>1. GoodPlan({})'
    BY DEF GoodPlan
  <2>2. /\ Range(scheduledDL') = {} /\ Range(scheduledUL') = {} /\ Range(agenda') = {}
        /\ scheduledUL' = << >> /\ onAir' = {}
        /\ \A s \in Subscriber : granted'[s] = << >> /\ Range(granted'[s]) = {}
    BY <1>1, <1>7, <1>9, <1>10, <1>11 DEF Range
  <2>3. \A f : ~WillStop(f)'
    BY <2>2 DEF WillStop
  <2>4. Scheduled({})' /\ GrantsFit({})' /\ NoRivals'
    BY <2>2, <2>3 DEF Scheduled, GrantsFit, NoRivals
  <2> QED BY <2>1, <2>2, <2>4 DEF Follows
<1>17. \E G \in SUBSET Functor : Follows(G)'
  BY <1>16
<1> QED BY <1>13, <1>14, <1>15, <1>17 DEF AccessInv

---------------------------------------------------------------------------
\* The invariant of the physical access.
THEOREM AccessInvariance == AccessSpec => []AccessInv
<1>1. AccessInv /\ [AccessNext]_accessVars => AccessInv'
  <2> SUFFICES ASSUME AccessInv, [AccessNext]_accessVars PROVE AccessInv'
    OBVIOUS
  <2>1. CASE UNCHANGED accessVars
    <3>1. UNCHANGED <<now, frame, stage, scheduledDL, scheduledUL, granted, agenda, onAir, listening, pattern>>
      BY <2>1 DEF accessVars
    <3>2. PICK F \in SUBSET Functor : Follows(F)
      BY DEF AccessInv
    <3>3. DLStart' = DLStart /\ ULStart' = ULStart /\ PhaseLength' = PhaseLength /\ GoodPlan(F)'
      BY <3>1, <3>2, SameFrame DEF PhaseLength, Follows
    <3>4. Follows(F)'
      <4>1. /\ \A c, b, s : Reply(c, b, s)' = Reply(c, b, s)
            /\ \A f : WillStop(f)' <=> WillStop(f)
        BY <3>1, SameFrame DEF WillStop
      <4>2. \A f : (Prepared(f)' <=> Prepared(f)) /\ (Open(f)' <=> Open(f))
        BY <3>1, <3>3, <4>1 DEF Prepared, Open
      <4>3. \A f : HasPattern(f)' <=> HasPattern(f)
        BY <3>1, <4>2 DEF HasPattern
      <4>4. Scheduled(F)' /\ GrantsFit(F)' /\ NoRivals'
        BY <3>1, <3>2, <3>3, <4>1 DEF Follows, Scheduled, GrantsFit, NoRivals
      <4>5. /\ \A e \in Range(agenda') : EventFits(e, F)' /\ (e.do = "start" => WillStop(e.f)')
            /\ \A f \in onAir' : f \in F /\ IsSent(f) /\ f.start <= now' /\ WillStop(f)'
        BY <3>1, <3>2, <4>1 DEF Follows, EventFits
      <4>6. Beamforming => \A f \in F : f.from # BS /\ (WillStop(f) \/ Open(f))' => HasPattern(f)'
        BY <3>2, <4>1, <4>2, <4>3 DEF Follows
      <4> QED BY <3>3, <4>4, <4>5, <4>6 DEF Follows
    <3>5. AccessTyped' /\ StageOK' /\ ListensUnlessSending'
      BY <3>1, <3>3 DEF AccessInv, AccessTyped, StageOK, ListensUnlessSending, Sends
    <3>6. \E G \in SUBSET Functor : Follows(G)'
      BY <3>4
    <3> QED BY <3>5, <3>6 DEF AccessInv
  <2>2. CASE CallBack
    BY <2>2, CallBackStep
  <2>3. CASE DeliverDL
    BY <2>3, DeliverDLStep
  <2>4. CASE DeliverUL
    BY <2>4, DeliverULStep
  <2>4a. ASSUME NEW s \in Subscriber, DeliverSchedule(s) PROVE AccessInv'
    BY <2>4a, DeliverScheduleStep
  <2>5. ASSUME NEW i \in DOMAIN agenda, StartTransmission(i) PROVE AccessInv'
    BY <2>5, StartStep
  <2>6. ASSUME NEW i \in DOMAIN agenda, StopTransmission(i) PROVE AccessInv'
    BY <2>6, StopStep
  <2>7. ASSUME NEW i \in DOMAIN agenda, SetPattern(i) PROVE AccessInv'
    BY <2>7, SetStep
  <2>8. CASE AccessTick
    BY <2>8, TickStep
  <2>9. CASE AccessNextFrame
    BY <2>9, NextFrameStep
  <2> QED BY <2>1, <2>2, <2>3, <2>4, <2>4a, <2>5, <2>6, <2>7, <2>8, <2>9 DEF AccessNext
<1> QED BY <1>1, AccessStart, PTL DEF AccessSpec

\* What the invariant means for those on the air.
LEMMA AccessIsSafe == AccessInv => AccessSafe
<1> SUFFICES ASSUME AccessInv PROVE AccessSafe
  OBVIOUS
<1>1. PICK F \in SUBSET Functor : Follows(F)
  BY DEF AccessInv
<1>2. AccessTyped /\ StageOK /\ ListensUnlessSending /\ GoodPlan(F) /\ now \in Nat
  BY <1>1 DEF AccessInv, AccessTyped, Follows
<1>3. AccessTypeOK
  <2>1. /\ \A q \in {scheduledDL, scheduledUL} : \A i \in DOMAIN q : q[i] \in Functor
        /\ \A s \in Subscriber : \A i \in DOMAIN granted[s] : granted[s][i] \in Compound
    BY <1>2, SeqIs DEF AccessTyped
  <2>2. ASSUME NEW i \in DOMAIN agenda
        PROVE  /\ agenda[i].do \in {"start", "stop", "set"} /\ agenda[i].f \in Functor
               /\ agenda[i].at >= now
    <3> DEFINE e == agenda[i]
    <3>1. e \in Agendum /\ e \in Range(agenda)
      BY <1>2, SeqIs DEF AccessTyped, Range
    <3> HIDE DEF e
    <3>2. EventFits(e, F)
      BY <1>1, <3>1 DEF Follows
    <3>3. e.do \in {"start", "stop", "set"} /\ e.f \in Functor /\ e.at >= now
      BY <3>1, <3>2 DEF EventFits, Agendum
    <3> QED BY <3>3 DEF e
  <2> QED BY <1>2, <2>1, <2>2 DEF AccessTyped, AccessTypeOK
<1>4. ASSUME NEW f \in onAir
      PROVE  /\ f \in F /\ IsSent(f) /\ f.start <= now /\ now <= f.stop /\ WillStop(f)
             /\ f.start \in Nat /\ f.from \in Transceiver
  <2>1. f \in F /\ IsSent(f) /\ f.start <= now /\ WillStop(f)
    BY <1>1 DEF Follows
  <2>2. now <= f.stop
    BY <1>1, <2>1, StopsLater
  <2> QED BY <2>1, <2>2 DEF Functor
<1>5. ASSUME NEW f \in onAir, NEW g \in onAir PROVE f = g \/ Beside(f, g)
  <2>1. Rivals(f, g) => f = g
    BY <1>1, <1>4 DEF Follows, NoRivals
  <2> QED BY <1>2, <1>4, <2>1, OneAtATime
<1>6. DestinationListens
  <2> SUFFICES ASSUME NEW f \in onAir, NEW s \in Audience(f) PROVE listening[s]
    BY DEF DestinationListens
  <2>1. s \in Transceiver /\ (f.from = BS => s # BS) /\ (f.from # BS => s = BS)
    <3>1. f.from = BS => f.to \in Subscriber \cup {Everyone}
      BY <1>2, <1>4 DEF GoodPlan
    <3>2. f.from # BS => f.to = BS
      BY <1>2, <1>4 DEF GoodPlan
    <3> QED BY <3>1, <3>2, AccessAssumption DEF Audience, Transceiver
  <2>2. \A g \in onAir : f.from = BS <=> g.from = BS
    <3> TAKE g \in onAir
    <3> QED BY <1>5 DEF Beside
  <2>3. ~Sends(s)
    BY <2>1, <2>2 DEF Sends
  <2> QED BY <1>2, <2>1, <2>3 DEF ListensUnlessSending
<1>7. BeamsApart
  BY <1>5 DEF BeamsApart, Beside
<1>8. PatternInPlace
  <2> SUFFICES ASSUME Settled, Beamforming, NEW f \in onAir, f.to = BS
               PROVE  pattern[f.from] = f.start
    BY DEF PatternInPlace
  <2>1. f.from # BS
    BY <1>2, <1>4, AccessAssumption DEF GoodPlan
  <2>2. HasPattern(f)
    BY <1>1, <1>4, <2>1 DEF Follows
  <2>3. /\ ULStart \in Nat
        /\ \A e \in Range(agenda) : EventFits(e, F) /\ e.at \in Nat /\ now + 1 <= e.at
        /\ scheduledUL # << >> => now + 1 <= ULStart
    BY <1>1, SettledIs
  <2>4. ~\E e \in Range(agenda) : e.do = "set" /\ e.f.to = f.from /\ e.f.start = f.start
    <3> SUFFICES ASSUME NEW e \in Range(agenda), e.do = "set", e.f.start = f.start PROVE FALSE
      OBVIOUS
    <3>1. EventFits(e, F) /\ e.at \in Nat /\ now + 1 <= e.at
      BY <2>3
    <3>2. e.at = f.start
      BY <3>1 DEF EventFits
    <3> QED BY <1>2, <1>4, <3>1, <3>2
  <2>5. \A p : ~Prepared(p)
    <3> SUFFICES ASSUME NEW p, Prepared(p) PROVE FALSE
      OBVIOUS
    <3>1. scheduledUL # << >>
      BY DEF Prepared, Range
    <3>2. now + 1 <= ULStart
      BY <2>3, <3>1
    <3>3. ULStart <= f.start
      BY <1>2, <1>4, <2>1 DEF GoodPlan
    <3> QED BY <1>2, <1>4, <2>3, <3>2, <3>3
  <2> QED BY <2>2, <2>4, <2>5 DEF HasPattern
<1>9. FrameLeavesNothing
  BY <1>2 DEF StageOK, FrameLeavesNothing, ListensUnlessSending, Sends
<1> QED BY <1>2, <1>3, <1>6, <1>7, <1>8, <1>9 DEF AccessSafe

\* What a frame's callbacks put on the air is heard by those it is for, one
\* burst at a time in each beam and beside others of its direction only, with the
\* pattern set for it, and no frame leaves anything to the next.
THEOREM AccessAlwaysSafe == AccessSpec => []AccessSafe
BY AccessInvariance, AccessIsSafe, PTL
==========================================================================
