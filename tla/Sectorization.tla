-------------------------- MODULE Sectorization --------------------------
(***************************************************************************)
(* SpaceTimeSectorizationRegistryProxy: a base station schedules its users *)
(* in groups by the direction they are received from.  In every frame one  *)
(* sector is active, or one subsector of every sector-wide stripe: the     *)
(* frame number modulo numberOfSectors.  Angles are integers of which      *)
(* FullCircle make the circle, times of which FrameLength make a frame.    *)
(*                                                                         *)
(* The code calculates all of them in doubles.  It shows in three places:  *)
(* the number of a frame that has just begun may come out one too small, a *)
(* direction a little below zero becomes 2 pi, which is in no sector, and  *)
(* a direction on the border of two sectors may be in both or in neither.  *)
(***************************************************************************)
EXTENDS Integers, FiniteSets, Sequences

CONSTANTS
  FullCircle,     \* 2 pi
  FrameLength,    \* getFrameDuration()
  MaxSectors,     \* bound: values of numberOfSectors looked at
  MaxSubsectors,  \* bound: values of numberOfSubsectors looked at
  MaxTime         \* bound: the time looked at

ASSUME SectorAssumption ==
  /\ FullCircle \in Nat \ {0} /\ FrameLength \in Nat \ {0} /\ MaxTime \in Nat
  /\ MaxSectors \in Nat \ {0} /\ MaxSubsectors \in Nat \ {0}
  /\ \A s \in 1..MaxSectors, b \in 1..MaxSubsectors : FullCircle % (2 * s * b) = 0

VARIABLES
  numberOfSectors, numberOfSubsectors, \* the configuration
  foundAbove, foundBelow, \* is a direction that cannot be told from a border in
                          \* the sector above it, and is it in the one below it
  time,
  number,    \* per frame so far: the number calculated for it (history)
  reachable  \* per frame so far: the users filterReachable let pass (history)

configVars == <<numberOfSectors, numberOfSubsectors, foundAbove, foundBelow>>

sectorVars == <<configVars, time, number, reachable>>

\* Users are named by their direction, as estimateDoA returns it.  FullCircle
\* names the one so little below zero that adding 2 pi gives 2 pi.
User == (-(FullCircle \div 2))..(FullCircle \div 2) \cup {FullCircle}

\* Mutation of DoA: the range is not shifted.
DoASigned(u) == u

DoA(u) == IF u < 0 THEN u + FullCircle ELSE u

\* floor(currentTime / frameDuration): times are sums of rounded durations, so
\* that the start of a frame may seem to be the end of the one before.
FrameNumber ==
  IF time > 0 /\ time % FrameLength = 0
    THEN {(time \div FrameLength) - 1, time \div FrameLength}
    ELSE {time \div FrameLength}

\* Mutation of Group: the group changes within the frame.
GroupOfTime(n) == time % numberOfSectors

Group(n) == n % numberOfSectors

\* Where the parts of a group begin, and how wide they are
Width == FullCircle \div (numberOfSectors * numberOfSubsectors)

Begins(group) ==
  {Width * group + i * (Width * numberOfSectors) : i \in 0..(numberOfSubsectors - 1)}

\* isUserinActiveGroup.  No part ends after 2 pi, as it asserts.
InActiveGroup(doa, group) ==
  \/ numberOfSectors = 1
  \/ \E begin \in Begins(group) :
       \/ begin < doa /\ doa < begin + Width
       \/ doa = begin /\ (doa = 0 \/ foundAbove)
       \/ doa = begin + Width /\ doa < FullCircle /\ foundBelow

FilterReachable(n) == {u \in User : InActiveGroup(DoA(u), Group(n))}

\* Borders are rounded each on its own; no direction is near two of them, so
\* nothing is lost by rounding them alike.
SectorInit ==
  /\ numberOfSectors \in 1..MaxSectors
  /\ numberOfSubsectors \in 1..MaxSubsectors
  /\ foundAbove \in BOOLEAN /\ foundBelow \in BOOLEAN
  /\ time = 0
  /\ number = <<>> /\ reachable = <<>>

\* The scheduler of the current frame asks, at its start or later.
Ask ==
  /\ Len(reachable) = time \div FrameLength
  /\ \E n \in FrameNumber :
       /\ number' = Append(number, n)
       /\ reachable' = Append(reachable, FilterReachable(n))
  /\ UNCHANGED <<configVars, time>>

SectorTick ==
  /\ time < MaxTime
  /\ (time + 1) % FrameLength = 0 => Len(reachable) = (time \div FrameLength) + 1
  /\ time' = time + 1
  /\ UNCHANGED <<configVars, number, reachable>>

SectorNext == Ask \/ SectorTick

SectorSpec == SectorInit /\ [][SectorNext]_sectorVars

---------------------------------------------------------------------------
\* The directions that rounding does not move from one part to another.
Clear == {u \in User : DoA(u) % Width # 0}

\* In numberOfSectors frames in a row of which every one is numbered after the
\* one before, every clear direction is reachable in exactly one frame.  When
\* the rounding of the numbers changes in between, a group has two turns, or
\* none.
OncePerCycle ==
  \A f \in 1..(Len(reachable) - numberOfSectors + 1) :
    (\A g \in f..(f + numberOfSectors - 1) : number[g] - number[f] = g - f) =>
      \A u \in Clear :
        Cardinality({g \in f..(f + numberOfSectors - 1) : u \in reachable[g]}) = 1

\* What is scheduled in one frame is spread evenly: each sector or stripe of
\* subsectors holds the same number of clear directions (the direction straight
\* behind has two names, pi and -pi).
GroupsAreEqual ==
  \A f \in DOMAIN reachable :
    numberOfSectors * Cardinality({DoA(u) : u \in reachable[f] \cap Clear})
      = FullCircle - numberOfSectors * numberOfSubsectors

\* Every direction has its turn, and all turns are of one size.
SectorsFair == OncePerCycle /\ GroupsAreEqual
==========================================================================
